-------------------------------- MODULE Desktop --------------------------------
(* The desktop (gui/desktop.rs, gui/wm.rs) and what it draws on: one window   *)
(* at a time over icons, and a pointer that is drawn into the same cells as   *)
(* everything else, after what it covers was saved.  The screen is a strip    *)
(* of cells; from the left to the right the window has its edge, its content  *)
(* and its close button.                                                      *)
EXTENDS Integers, Sequences

CONSTANTS
  Width,        \* cells of the screen
  Icons,        \* apps in the order of their icons
  IconX,        \* the cell of each icon
  WinX, WinW,   \* first cell and width of the window
  Pointer,      \* cells the pointer covers
  Moves,        \* how far a mouse packet says the mouse went
  Shown,        \* what a window may show
  Colours       \* colours on the palette of Paint, counted from 1

Cells == 0 .. Width - 1
Apps == {"Terminal", "Browser", "Clock", "Calc", "Paint", "Files", "Player"}
(* The apps that change what they show with time, at a click, and at a key.   *)
Ticking == {"Clock", "Player"}
Clickable == {"Browser", "Calc", "Files", "Player"}
Typable == {"Terminal", "Browser", "Files", "Player"}

WindowCells == WinX .. WinX + WinW - 1
Close == WinX + WinW - 1
Content == WinX + 1 .. Close - 1

(* Of Paint: a field for each colour, the button Clear, and a canvas that     *)
(* keeps a cell from the end of the content.                                  *)
Swatch(k) == WinX + k
ClearButton == WinX + Colours + 1
Canvas == ClearButton + 1 .. Close - 2

ASSUME DesktopAssumption ==
  /\ {Width, WinX, WinW, Pointer, Colours} \subseteq Nat
  /\ \A k \in DOMAIN Icons : Icons[k] \in Apps /\ IconX[Icons[k]] \in Cells
  /\ \A k, l \in DOMAIN Icons : IconX[Icons[k]] = IconX[Icons[l]] => k = l
  /\ WinX > 0 /\ Close < Width - 1 /\ Canvas # {}

VARIABLES
  desk,      \* the screen, what is saved of it, and the window that is open
  patch,     \* CLEAN_WINDOW_BG
  mouse,     \* STATE of drivers/mouse.rs
  running    \* the loop of run

dvars == <<desk, patch, mouse, running>>

Colour(what, k) == <<what, k>>
Arrow == Colour("arrow", 0)
Showing(app, v) == [app |-> app, value |-> v]
NoWindow == Showing("none", 0)

(* What is drawn by compose_desktop; every cell has its own look. *)
Composed == [x \in Cells |-> Colour("desk", x)]

(* fill_rect and all that is made of it: what is drawn goes on the screen.    *)
(* history: drawn is the picture without the pointer.                         *)
Stroke(area, colour) == [x \in area |-> colour]
Over(stroke, picture) ==
  [x \in DOMAIN stroke \cup DOMAIN picture |->
     IF x \in DOMAIN stroke THEN stroke[x] ELSE picture[x]]
DrawOn(d, stroke) == [d EXCEPT !.screen = Over(stroke, @), !.drawn = Over(stroke, @)]

(* save_under_cursor with draw_cursor_arrow, and restore_under_cursor; what   *)
(* is beyond the edge of the screen is neither saved nor drawn.               *)
PointerAt(x) == x .. x + Pointer - 1 \cap Cells
PutPointer(d, x) ==
  [d EXCEPT !.under = [c \in PointerAt(x) |-> d.screen[c]],
            !.screen = Over(Stroke(PointerAt(x), Arrow), @)]
LiftPointer(d) == [d EXCEPT !.screen = Over(d.under, @)]

-------------------------------------------------------------------------------
(* The windows.  The value of a window is what it shows; of Paint it is the   *)
(* colour, and what is painted is nowhere but on the screen.                  *)

Toolbar(w) == Stroke(WinX + 1 .. ClearButton, Colour("toolbar", w.value))
BlankCanvas == Stroke(Canvas, Colour("canvas", 0))

Looks(w) ==
  IF w.app = "Paint" THEN Over(Toolbar(w), Over(BlankCanvas, Stroke(Content, Colour("frame", 0))))
  ELSE Stroke(Content, Colour(w.app, w.value))
DrawWindow(d) == DrawOn(d, Looks(d.window))
With(d, v) == [d EXCEPT !.window = Showing(@.app, v)]
ShowValue(d, v) == DrawWindow(With(d, v))

(* on_drag of Paint: the brush covers a cell to both sides. *)
Drag(d, x) ==
  IF d.window.app = "Paint" /\ x \in Canvas
  THEN DrawOn(d, Stroke(x - 1 .. x + 1, Colour("ink", d.window.value))) ELSE d

(* on_click: Paint draws its toolbar or canvas itself, others all of their    *)
(* window.                                                                    *)
ClickPaint(d, x) ==
  LET picked == {k \in 1 .. Colours : x = Swatch(k)}
      chosen == With(d, CHOOSE k \in picked : TRUE)
  IN  IF picked # {} THEN DrawOn(chosen, Toolbar(chosen.window))
      ELSE IF x = ClearButton THEN DrawOn(d, BlankCanvas) ELSE d
ClickWindow(d, x, v) ==
  CASE d.window.app = "Paint" -> ClickPaint(d, x)
    [] d.window.app \in Clickable /\ x \in Content -> ShowValue(d, v)
    [] OTHER -> d

(* handle_click: a window opens when there is none, and is closed by putting  *)
(* back the part of the desktop that was kept when it was drawn.              *)
Open(d, app, v) ==
  LET first == IF app = "Paint" THEN 1 ELSE v
      framed == DrawOn(d, Stroke(WindowCells, Colour("frame", 0)))
  IN  DrawWindow([framed EXCEPT !.window = Showing(app, first)])
CloseWindow(d) ==
  [d EXCEPT !.window = NoWindow, !.screen = Over(patch, @), !.drawn = Composed]
HandleClick(d, x, v) ==
  LET under == {k \in DOMAIN Icons : IconX[Icons[k]] = x} IN
  IF d.window # NoWindow THEN IF x = Close THEN CloseWindow(d) ELSE ClickWindow(d, x, v)
  ELSE IF under = {} THEN d
  ELSE Open(d, Icons[CHOOSE k \in under : TRUE], v)

(* on_key *)
KeyToWindow(d, v) == IF d.window.app \in Typable THEN ShowValue(d, v) ELSE d

-------------------------------------------------------------------------------
(* One turn of the loop of run, with what the mouse says by now and a key.    *)

Clamp(x) == IF x < 0 THEN 0 ELSE IF x > Width - 1 THEN Width - 1 ELSE x
(* mouse::poll: nothing yet, or a packet is complete. *)
Polled == {mouse} \cup {[x |-> Clamp(mouse.x + dx), left |-> l] : dx \in Moves, l \in BOOLEAN}

PointerMoved(d, m) ==
  LET up == LiftPointer(d) IN
  IF m.x = mouse.x THEN d ELSE PutPointer(IF m.left THEN Drag(up, m.x) ELSE up, m.x)

(* Mistake: the window is drawn over the pointer. *)
RedrawnOver(d, x, v) == PutPointer(ShowValue(d, v), x)
(* redraw_active *)
Redrawn(d, x, v) == PutPointer(ShowValue(LiftPointer(d), v), x)
Ticked(d, m, v) == IF d.window.app \in Ticking THEN Redrawn(d, m.x, v) ELSE d

MouseClicked(d, m, v) ==
  IF m.left /\ ~d.lastLeft THEN PutPointer(HandleClick(LiftPointer(d), m.x, v), m.x) ELSE d
Keyed(d, m, v) ==
  IF d.window # NoWindow THEN PutPointer(KeyToWindow(LiftPointer(d), v), m.x) ELSE d

Turn ==
  /\ running /\ UNCHANGED patch
  /\ \E m \in Polled, v \in Shown, ticks, key, esc \in BOOLEAN :
       LET moved == PointerMoved(desk, m)
           ticked == IF ticks THEN Ticked(moved, m, v) ELSE moved
           clicked == [MouseClicked(ticked, m, v) EXCEPT !.lastLeft = m.left]
       IN  /\ mouse' = m /\ running' = ~esc
           /\ desk' = IF key /\ ~esc THEN Keyed(clicked, m, v) ELSE clicked

(* run: the desktop is drawn, kept, and only then the pointer. *)
PatchCells == WinX - 1 .. Close + 1
DeskOf(picture) ==
  [screen |-> picture, drawn |-> picture, under |-> <<>>, window |-> NoWindow, lastLeft |-> FALSE]
Run ==
  /\ ~running /\ running' = TRUE /\ UNCHANGED mouse
  /\ desk' = PutPointer(DeskOf(Composed), mouse.x)
  /\ patch' = [x \in PatchCells |-> Composed[x]]

(* Before the desktop runs, nothing is known of the screen. *)
DesktopInit ==
  /\ mouse = [x |-> Width \div 2, left |-> FALSE] /\ running = FALSE
  /\ desk = DeskOf(<<>>) /\ patch = <<>>
DesktopNext == Run \/ Turn

-------------------------------------------------------------------------------
(* At every turn the screen is what was drawn on the desktop and in the       *)
(* window, nothing else, with the pointer over it where the mouse is; and     *)
(* when no window is open that is the desktop as it was: each part of the     *)
(* loop lifts the pointer before it draws, so that neither an old picture     *)
(* comes back with it nor the pointer stays in a picture (redraw_active, run, *)
(* handle_click, save_under_cursor, restore_under_cursor, restore_clean_bg).  *)
ScreenAsDrawn ==
  running =>
    /\ desk.screen = Over(Stroke(PointerAt(mouse.x), Arrow), desk.drawn)
    /\ desk.window = NoWindow => desk.drawn = Composed
================================================================================
