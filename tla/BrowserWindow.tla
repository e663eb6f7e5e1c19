----------------------------- MODULE BrowserWindow -----------------------------
(* The browser window of the desktop (gui/widgets/browser.rs and its part of *)
(* gui/wm.rs): a line to search, open a file or a page of Gemini, and the    *)
(* page drawn in the window with its links to click.  Every handler ends     *)
(* with a drawing of the window, which also notes where the links are.       *)
(*                                                                           *)
(* Positions are rows of the window, from 1; a row is one block of the page. *)
EXTENDS GeminiProto

CONSTANTS
  Queries,       \* what the user types: [kind, ref], "gemini", "file" or "words"
  HtmlNames,     \* names that end with .html or .htm
  HtmlFiles,     \* the files there are: names to tokens
  View,          \* rows of a page in the window
  ButtonRow,     \* the row at which the search button was drawn
  MaxRows        \* bound: rows above and below the window a click can be at

ASSUME WindowAssumption ==
  /\ View \in Nat \ {0} /\ MaxRows \in Nat
  /\ DOMAIN HtmlFiles \subseteq HtmlNames

VARIABLE win   \* Browser

NoQuery == [kind |-> "none", ref |-> NoRef]
NoDoc == [kind |-> "none", source |-> <<>>, blocks |-> <<>>]
Doc(kind, source, blocks) == [kind |-> kind, source |-> source, blocks |-> blocks]
Message == Doc("message", <<>>, MessageBlocks)

NoWindow == [open |-> FALSE, query |-> NoQuery, viewing |-> FALSE, searched |-> FALSE,
             doc |-> NoDoc, current |-> NoUrl, scroll |-> 0, height |-> 0, hits |-> {}]

-------------------------------------------------------------------------------
(* redraw.  render_html notes the links of the page, also of rows that are   *)
(* scrolled out of the window; without a page it leaves the ones it has.     *)

(* Mistake: the links of the page before stay. *)
HitsAdded(w) ==
  w.hits \cup {[at |-> i - w.scroll, href |-> w.doc.blocks[i].href] :
                 i \in {j \in DOMAIN w.doc.blocks : w.doc.blocks[j].href # NoRef}}

Hits(w) ==
  {[at |-> i - w.scroll, href |-> w.doc.blocks[i].href] :
     i \in {j \in DOMAIN w.doc.blocks : w.doc.blocks[j].href # NoRef}}

Drawn(w) ==
  IF ~w.viewing THEN w
  ELSE IF w.doc = NoDoc THEN [w EXCEPT !.height = 0]
  ELSE [w EXCEPT !.height = Len(w.doc.blocks), !.hits = Hits(w)]

-------------------------------------------------------------------------------
(* open_html, open_gemini, show_message and do_search.  A page of Gemini is  *)
(* fetched while the desktop waits.                                          *)

(* Mistake: the url of the page before is kept. *)
OpenedHtmlOf(name) ==
  [win EXCEPT !.doc = IF name \in DOMAIN HtmlFiles
                      THEN Doc("html", HtmlFiles[name], Html(HtmlFiles[name]).blocks)
                      ELSE NoDoc,
              !.viewing = TRUE, !.scroll = 0]
OpenedHtml(name) ==
  [win EXCEPT !.doc = IF name \in DOMAIN HtmlFiles
                      THEN Doc("html", HtmlFiles[name], Html(HtmlFiles[name]).blocks)
                      ELSE NoDoc,
              !.viewing = TRUE, !.scroll = 0, !.current = NoUrl]

OpenHtml(name) == win' = Drawn(OpenedHtml(name)) /\ UNCHANGED nav
Shows(w) == win' = Drawn([w EXCEPT !.viewing = TRUE, !.scroll = 0]) /\ nav' = NoNav
ShowMessage == win' = Drawn([win EXCEPT !.doc = Message, !.viewing = TRUE, !.scroll = 0]) /\ UNCHANGED nav

OpenGemini(ref) ==
  /\ nav' = [NoNav EXCEPT !.mode = "fetch", !.url = ref]
  /\ UNCHANGED win

NameOf(ref) == Last(ref.segs)
IsHtml(ref) == ref.segs # <<>> /\ NameOf(ref) \in HtmlNames

DoSearch ==
  CASE win.query.kind = "none"   -> UNCHANGED <<win, nav>>
    [] win.query.kind = "gemini" -> OpenGemini(win.query.ref)
    [] win.query.kind = "file"   -> OpenHtml(NameOf(win.query.ref))
    [] win.query.kind = "words"  ->
         /\ win' = [win EXCEPT !.viewing = FALSE, !.scroll = 0, !.searched = TRUE]
         /\ UNCHANGED nav

(* navigate_link. *)
NavigateLink(href) ==
  CASE href.scheme = "gemini"  -> OpenGemini(href)
    [] href.scheme \notin {"", "gemini"} -> ShowMessage
    [] href.scheme = "" /\ win.current # NoUrl -> OpenGemini(ResolveRelative(win.current, href))
    [] OTHER -> IF IsHtml(href) THEN OpenHtml(NameOf(href)) ELSE ShowMessage

-------------------------------------------------------------------------------
(* open_gemini_inner, when the answer is there.                              *)

(* A redirect within the server drops the port and counts from the root. *)
RedirectTarget(meta) ==
  IF meta.scheme # "" THEN meta
  ELSE LET path == IF meta.segs # <<>> /\ meta.segs[1] = "" THEN Tail(meta.segs) ELSE meta.segs
       IN  Url(DefaultPort, <<Host(fetch.url)>> \o (IF path = <<>> THEN <<"">> ELSE path))

WindowDeeper == nav.depth + 1

Current == fetch.url

WindowResponse ==
  LET result == fetch.result IN
      /\ win.open /\ Answered
      /\ Taken
      /\ CASE result.ok /\ Category(result.status) = 2 ->
                \E lines \in {Gemtext(result.body)} :
                  Shows([win EXCEPT !.doc = Doc("gemini", <<fetch.url, Len(result.body)>>, ToBlocks(lines)),
                                    !.current = Current])
           [] result.ok /\ Category(result.status) = 3 /\ WindowDeeper <= MaxRedirects ->
                /\ nav' = [nav EXCEPT !.url = RedirectTarget(result.meta), !.depth = WindowDeeper]
                /\ UNCHANGED win
           [] OTHER -> Shows([win EXCEPT !.doc = Message])

-------------------------------------------------------------------------------
(* The handlers of the window. *)

Ready == win.open /\ nav.mode = "keys"

TypeQuery ==
  /\ Ready
  /\ \E query \in Queries \cup {NoQuery} : win' = Drawn([win EXCEPT !.query = query])
  /\ UNCHANGED <<nav, fetch, peer>>

EnterQuery == Ready /\ DoSearch /\ UNCHANGED <<fetch, peer>>

(* A click: the search button, where it was drawn when the window was        *)
(* opened, comes before the links.                                           *)
ClickRows == (1 - MaxRows) .. MaxRows
HitAt(row) == {hit \in win.hits : hit.at = row}

Click ==
  /\ Ready
  /\ \E row \in ClickRows, onButton \in BOOLEAN :
       IF onButton /\ row = ButtonRow THEN DoSearch
       ELSE IF win.viewing /\ HitAt(row) # {} THEN \E hit \in HitAt(row) : NavigateLink(hit.href)
       ELSE UNCHANGED <<win, nav>>
  /\ UNCHANGED <<fetch, peer>>

(* scroll: within the height that was drawn. *)
ScrollTo(delta) ==
  LET most == IF win.height > View THEN win.height - View ELSE 0
      to   == IF win.scroll + delta < 0 THEN 0 ELSE win.scroll + delta
  IN  IF to < most THEN to ELSE most

ScrollPage ==
  /\ Ready /\ win.viewing
  /\ \E delta \in {-1, 1} : win' = Drawn([win EXCEPT !.scroll = ScrollTo(delta)])
  /\ UNCHANGED <<nav, fetch, peer>>

OpenWindow == ~win.open /\ win' = [NoWindow EXCEPT !.open = TRUE] /\ UNCHANGED <<nav, fetch, peer>>
CloseWindow == Ready /\ win' = NoWindow /\ UNCHANGED <<nav, fetch, peer>>
================================================================================
