----------------------------- MODULE GeminiConsole -----------------------------
(* The Gemini client of the console (apps/gemini.rs): a pager with a history *)
(* and numbered links.  Its loop waits for a key; an address and an answer   *)
(* to a server's question are read by a loop of their own (read_line).       *)
EXTENDS GeminiProto

CONSTANTS
  Typed,         \* addresses the user gives
  Viewport,      \* rows of a page on the screen
  Digits,        \* digits of link numbers the user types
  MaxHistory     \* bound: entries of the history

ASSUME ConsoleAssumption ==
  Viewport \in Nat \ {0} /\ Digits \subseteq 0 .. 9 /\ MaxHistory \in Nat

VARIABLE con   \* Browser with its ConsoleRenderer, and the digits typed

NoConsole == [open |-> FALSE, history |-> <<>>, base |-> NoUrl, links |-> <<>>,
              rows |-> <<>>, scroll |-> 0, digits |-> <<>>]

(* "?" and what the user answers, behind the url. *)
WithQuery(ref) == [ref EXCEPT !.segs = Append(Front(@), Last(@) \o "?")]

-------------------------------------------------------------------------------
(* Navigation: navigate_inner and, when the answer is there, handle_response *)

(* push_history. *)
Pushed(history, ref) ==
  IF history # <<>> /\ Last(history) = ref THEN history ELSE Append(history, ref)

(* navigate_inner: before the first page a reference is taken as it is. *)
NavigateTo(ref, push, depth, prev) ==
  nav' = [mode |-> "fetch", push |-> push, depth |-> depth, prev |-> prev,
          url |-> IF con.base # NoUrl THEN Absolute(con.base, ref) ELSE ref]

Navigate(ref, push) == NavigateTo(ref, push, 0, NoRef)

(* The call of navigate returns; back puts its page on the history again. *)
AfterBack(c) == IF nav.prev = NoRef THEN c ELSE [c EXCEPT !.history = Pushed(@, nav.prev)]
Returns(c) == nav' = NoNav /\ con' = AfterBack(c)

DeeperForever == nav.depth                 \* Mistake: steps are not counted
Deeper == nav.depth + 1

(* Mistake: the page a redirect leads to is not put on the history. *)
FollowQuiet(ref) ==
  IF Deeper > MaxRedirects THEN Returns(con)
  ELSE NavigateTo(ref, FALSE, Deeper, nav.prev) /\ UNCHANGED con
(* A further step, unless there were too many. *)
Follow(ref) ==
  IF Deeper > MaxRedirects THEN Returns(con)
  ELSE NavigateTo(ref, nav.push, Deeper, nav.prev) /\ UNCHANGED con

(* Mistake: the url of the page before is kept. *)
BaseKept == IF con.base = NoUrl THEN fetch.url ELSE con.base
Base == fetch.url

(* collect_links: the links of a page, resolved against its url. *)
AddLink(out, line) == IF line.kind = "link" THEN Append(out, Absolute(Base, line.ref)) ELSE out
CollectLinks(lines) == FoldLeft(AddLink, <<>>, lines)

Success ==
  /\ Category(fetch.result.status) = 2
  /\ \E lines \in {Gemtext(fetch.result.body)} :
       Returns([con EXCEPT !.history = IF nav.push THEN Pushed(@, nav.url) ELSE @,
                           !.base = Base, !.links = CollectLinks(lines),
                           !.rows = lines, !.scroll = 0])

AskInput ==
  /\ Category(fetch.result.status) = 1
  /\ nav' = [nav EXCEPT !.mode = "answer"]
  /\ UNCHANGED con

Redirect ==
  /\ Category(fetch.result.status) = 3
  /\ IF fetch.result.meta = NoRef THEN Returns(con)
     ELSE Follow(Absolute(fetch.url, fetch.result.meta))

Refused == Category(fetch.result.status) \notin 1 .. 3 /\ Returns(con)

HandleResponse ==
  /\ con.open /\ Answered
  /\ Taken
  /\ IF ~fetch.result.ok THEN Returns(con)
     ELSE Success \/ AskInput \/ Redirect \/ Refused

GiveAnswer ==
  /\ con.open /\ nav.mode = "answer"
  /\ Follow(WithQuery(nav.url))
  /\ UNCHANGED <<fetch, peer>>

-------------------------------------------------------------------------------
(* The keys of run. *)

Waiting == con.open /\ nav.mode = "keys"
Room == Len(con.history) < MaxHistory
Say == UNCHANGED <<con, nav>>   \* status_line

ScrollDown(n) ==
  LET most == IF Len(con.rows) > Viewport THEN Len(con.rows) - Viewport ELSE 0
      to   == con.scroll + n
  IN  IF to < most THEN to ELSE most
ScrollUp(n) == IF con.scroll > n THEN con.scroll - n ELSE 0

(* An arrow key drops the digits; a letter counts only without digits. *)
ScrollKey ==
  /\ \/ \E to \in {ScrollUp(1), ScrollDown(1)} : con' = [con EXCEPT !.digits = <<>>, !.scroll = to]
     \/ /\ con.digits = <<>>
        /\ \E to \in {ScrollUp(Viewport), ScrollDown(Viewport)} : con' = [con EXCEPT !.scroll = to]
  /\ UNCHANGED nav

DigitKey ==
  /\ \/ \E d \in Digits : Len(con.digits) < 2 /\ con' = [con EXCEPT !.digits = Append(@, d)]
     \/ con.digits # <<>> /\ con' = [con EXCEPT !.digits = Front(@)]
  /\ UNCHANGED nav

Number(digits) == FoldLeft(LAMBDA n, d : 10 * n + d, 0, digits)

EnterKey ==
  /\ con.digits # <<>> /\ Room
  /\ con' = [con EXCEPT !.digits = <<>>]
  /\ LET n == Number(con.digits)
     IN  IF n \in DOMAIN con.links THEN Navigate(con.links[n], TRUE) ELSE UNCHANGED nav

(* back: the page shown is dropped, the one before is fetched again. *)
BackKey ==
  /\ con.digits = <<>>
  /\ IF Len(con.history) > 1
     THEN LET prev == Last(Front(con.history)) IN
          /\ con' = [con EXCEPT !.history = Front(@)]
          /\ NavigateTo(prev, FALSE, 0, prev)
     ELSE Say

ReloadKey ==
  /\ con.digits = <<>>
  /\ IF con.history # <<>> THEN Navigate(Last(con.history), FALSE) /\ UNCHANGED con ELSE Say

AddressKey ==
  /\ con.digits = <<>> /\ Room
  /\ nav' = [nav EXCEPT !.mode = "address"]
  /\ UNCHANGED con

GiveAddress ==
  /\ con.open /\ nav.mode = "address"
  /\ \/ \E ref \in Typed : Navigate(ref, TRUE)
     \/ nav' = NoNav
  /\ UNCHANGED <<con, fetch, peer>>

QuitKey == con.digits = <<>> /\ con' = NoConsole /\ UNCHANGED nav

Key ==
  /\ Waiting
  /\ ScrollKey \/ DigitKey \/ EnterKey \/ BackKey \/ ReloadKey \/ AddressKey \/ QuitKey
  /\ UNCHANGED <<fetch, peer>>

(* run, called by the shell with an address or without one. *)
StartConsole ==
  /\ ~con.open
  /\ con' = [NoConsole EXCEPT !.open = TRUE]
  /\ \/ \E ref \in Typed : nav' = [NoNav EXCEPT !.mode = "fetch", !.url = ref, !.push = TRUE]
     \/ UNCHANGED nav
  /\ UNCHANGED <<fetch, peer>>
================================================================================
