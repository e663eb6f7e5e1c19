------------------------------ MODULE GeminiProto ------------------------------
(* A request of the Gemini protocol (drivers/net/gemini_proto.rs, with       *)
(* resolve of dns.rs): look up the host, connect, shake hands, send the      *)
(* request, read until the server closes, and take the answer apart.  Every  *)
(* loop polls the TCP/IP library and gives up after a number of polls that   *)
(* brought nothing.  The library, the network and the server are external.   *)
EXTENDS Pages, FiniteSets

CONSTANTS
  Site,         \* what the servers answer: a function on urls
  Fragments,    \* what is read of a line that breaks off: a set for each line
  Endless,      \* urls of Site whose last line never ends
  DefaultPort,  \* DEFAULT_PORT
  Hosts,        \* names the name server knows
  Literals,     \* hosts given as an address
  MaxRedirects, \* MAX_REDIRECTS of the console client, 5 in the window
  SpinLimit     \* CONNECT_SPIN_LIMIT, IO_SPIN_LIMIT and dns.rs SPIN_LIMIT

ASSUME ProtoAssumption == SpinLimit \in Nat /\ MaxRedirects \in Nat

VARIABLES
  nav,     \* the client's navigation: waiting for a key, an answer or an address
  fetch,   \* the call of fetch: where it is, for what, and its result
  peer     \* whether bytes of the answer are there unread, and its end

(* A url that has been taken apart: its first part is the host. *)
Url(port, segs) == Ref("gemini", port, segs)
NoUrl == NoRef
Host(url) == url.segs[1]

(* parse_url: without a path the page is "/".  Only gemini:// is taken off;  *)
(* of another scheme its name becomes the host.                              *)
ParseUrl(ref) ==
  LET segs == IF ref.scheme \in {"", "gemini"} THEN ref.segs ELSE <<ref.scheme, "">> \o ref.segs
  IN  Url(ref.port, IF Len(segs) = 1 THEN Append(segs, "") ELSE segs)
BadUrl(ref) == ref.scheme \in {"", "gemini"} /\ (ref.segs = <<>> \/ ref.segs[1] = "")

(* References against the page they stand on, as both clients take them      *)
(* (apps/gemini.rs).                                                         *)

(* Mistake: ".." stays where it is. *)
NormalizeKeepsUp(segs) ==
  LET stack == SelectSeq(segs, LAMBDA seg : seg \notin {"", "."})
  IN  IF stack = <<>> THEN <<"">> ELSE stack

(* normalize_path: also the "" that stands for a "/" at the end goes. *)
PushSegment(stack, seg) ==
  CASE seg \in {"", "."} -> stack
    [] seg = ".." -> IF stack = <<>> THEN stack ELSE Front(stack)
    [] OTHER      -> Append(stack, seg)
NormalizePath(segs) ==
  LET stack == FoldLeft(PushSegment, <<>>, segs)
  IN  IF stack = <<>> THEN <<"">> ELSE stack

(* resolve_relative: from the root, or from the directory of the page. *)
ResolveRelative(base, ref) ==
  LET rooted == ref.segs # <<>> /\ ref.segs[1] = ""
      dir    == Tail(Front(base.segs))
  IN  Url(base.port, <<Host(base)>> \o NormalizePath(IF rooted THEN ref.segs ELSE dir \o ref.segs))

Absolute(base, ref) == IF ref.scheme # "" THEN ref ELSE ResolveRelative(base, ref)

(* Answers: the header line has a status and a meta, then come the lines of  *)
(* the body.  The server refuses what it does not know.                      *)
NotFound == [status |-> 51, meta |-> NoRef, body |-> <<>>]
Answer(url) == IF url \in DOMAIN Site THEN Site[url] ELSE NotFound
Category(status) == status \div 10

NoResult == [ok |-> FALSE, error |-> "", status |-> 0, meta |-> NoRef, body |-> <<>>]
Failure(error) == [NoResult EXCEPT !.error = error]

Idle == [phase |-> "idle", url |-> NoUrl, spins |-> 0, got |-> 0, result |-> NoResult]
NoPeer == [more |-> FALSE, closed |-> FALSE]

NoNav == [mode |-> "keys", url |-> NoRef, push |-> FALSE, depth |-> 0, prev |-> NoRef]
ProtoInit == nav = NoNav /\ fetch = Idle /\ peer = NoPeer

Fail(error) == fetch' = [fetch EXCEPT !.phase = "done", !.result = Failure(error)]
Enter(phase) == fetch' = [fetch EXCEPT !.phase = phase, !.spins = 0]
Limit == fetch.spins > SpinLimit
Spin == fetch.spins <= SpinLimit /\ fetch' = [fetch EXCEPT !.spins = @ + 1]

-------------------------------------------------------------------------------
(* fetch, step by step. *)

(* The call, by a navigation that has its url.  TcpStream::connect brings the *)
(* card up first, which may fail.                                            *)
Begin ==
  /\ nav.mode = "fetch" /\ fetch.phase = "idle"
  /\ IF BadUrl(nav.url)
     THEN fetch' = [Idle EXCEPT !.phase = "done", !.result = Failure("BadUrl")]
     ELSE LET called == [Idle EXCEPT !.url = ParseUrl(nav.url)] IN
          \/ fetch' = [called EXCEPT !.phase = "resolve"]
          \/ fetch' = [called EXCEPT !.phase = "done", !.result = Failure("NoNic")]
  /\ UNCHANGED <<nav, peer>>

(* resolve: an address is taken as it is; else one question goes out, and    *)
(* answers without an address are ignored.                                   *)
Resolve ==
  /\ fetch.phase = "resolve"
  /\ \/ Host(fetch.url) \in Hosts \cup Literals /\ Enter("connect")
     \/ Host(fetch.url) \notin Literals /\ Spin
     \/ Host(fetch.url) \notin Literals /\ Limit /\ Fail("DnsFailed")
  /\ UNCHANGED <<nav, peer>>

Connect ==
  /\ fetch.phase = "connect"
  /\ Enter("handshake") \/ Fail("Connect") \/ Spin \/ (Limit /\ Fail("Timeout"))
  /\ UNCHANGED <<nav, peer>>

(* The handshake and the request, through the TLS library, each with its     *)
(* polls of read and write.                                                  *)
Handshake ==
  /\ fetch.phase = "handshake"
  /\ Enter("request") \/ Fail("Tls") \/ Spin
  /\ UNCHANGED <<nav, peer>>

SendRequest ==
  /\ fetch.phase = "request"
  /\ Enter("read") \/ Fail("Tls") \/ Spin
  /\ UNCHANGED <<nav, peer>>

(* Bytes of the answer come, which of an endless line may go on for ever.    *)
(* The connection ends after any of them, and what is unread may be lost     *)
(* with it.  All may be late, or never come.                                 *)
Complete(url) == IF url \in Endless THEN Len(Answer(url).body) ELSE Len(Answer(url).body) + 1

PeerSends ==
  /\ fetch.phase = "read" /\ peer = NoPeer
  /\ fetch.got < Complete(fetch.url) \/ fetch.url \in Endless
  /\ peer' = [peer EXCEPT !.more = TRUE]
  /\ UNCHANGED <<nav, fetch>>

PeerCloses ==
  /\ fetch.phase = "read" /\ ~peer.closed
  /\ \E more \in {peer.more, FALSE} : peer' = [more |-> more, closed |-> TRUE]
  /\ UNCHANGED <<nav, fetch>>

(* One turn of the reading loop of tls::request: a block of bytes, to the    *)
(* end of a line and perhaps into the next, or, of an endless line, only     *)
(* more of that.  An error ends the page like the end of the connection      *)
(* does, a time limit included; as long as bytes come there is no limit.     *)
ReadBlock ==
  /\ fetch.phase = "read" /\ peer.more
  /\ \E n \in fetch.got .. Complete(fetch.url) :
       /\ n > fetch.got \/ fetch.url \in Endless
       /\ fetch' = [fetch EXCEPT !.got = n, !.spins = 0]
  /\ peer' = [peer EXCEPT !.more = FALSE]
  /\ UNCHANGED nav

ReadNothing ==
  /\ fetch.phase = "read" /\ ~peer.more /\ ~peer.closed
  /\ Spin
  /\ UNCHANGED <<nav, peer>>

ReadEnds == fetch.phase = "read" /\ ~peer.more /\ (peer.closed \/ Limit)

(* The lines of the body when n lines, with the header, came whole: what     *)
(* there is of the next one, be it nothing, counts as a line.                *)
Received(answer, n) ==
  IF n > Len(answer.body) THEN {answer.body}
  ELSE {Append(SubSeq(answer.body, 1, n - 1), part) : part \in Fragments[answer.body[n]]}

(* parse_response: without a whole header line there is no answer. *)
Results(n) ==
  LET answer == Answer(fetch.url) IN
  IF n = 0 THEN {Failure("BadResponse")}
  ELSE {[ok |-> TRUE, error |-> "", status |-> answer.status, meta |-> answer.meta, body |-> body] :
          body \in Received(answer, n)}

ReadEnd ==
  /\ ReadEnds
  /\ \E result \in Results(fetch.got) : fetch' = [fetch EXCEPT !.phase = "done", !.result = result]
  /\ UNCHANGED <<nav, peer>>

(* The answer has been looked at: the stream is dropped. *)
Answered == fetch.phase = "done"
Taken == fetch' = Idle /\ peer' = NoPeer

FetchStep ==
  Begin \/ Resolve \/ Connect \/ Handshake \/ SendRequest \/ ReadBlock \/ ReadNothing \/ ReadEnd
Peer == PeerSends \/ PeerCloses
================================================================================
