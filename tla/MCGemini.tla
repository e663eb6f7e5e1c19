------------------------------- MODULE MCGemini -------------------------------
(* A small net for Gemini: one server with a page of links, one page in a    *)
(* directory, a question, redirects in a circle and out, a page that never   *)
(* ends, and a second server on a port of its own.                           *)
EXTENDS Gemini

At(segs) == Url(1965, segs)
Bare(segs) == Ref("", 1965, segs)
Page(body) == [status |-> 20, meta |-> NoRef, body |-> body]
Move(meta) == [status |-> 30, meta |-> meta, body |-> <<>>]
Question == [status |-> 10, meta |-> NoRef, body |-> <<>>]

Home == At(<<"h", "">>)
Deep == At(<<"h", "d", "p">>)

MCSite ==
  (Home :> Page(<<LinkLine(Bare(<<"d", "p">>)), ToggleLine, LinkLine(Bare(<<"x">>)), ToggleLine,
                  LinkLine(Bare(<<"", "r">>))>>))
  @@ (Deep :> Page(<<TextLine, LinkLine(Bare(<<"..", "..", "q">>))>>))
  @@ (At(<<"h", "h">>) :> Page(<<TextLine>>))
  @@ (At(<<"h", "q">>) :> Question)
  @@ (At(<<"h", "q?">>) :> Page(<<LinkLine(Ref("gemini", 70, <<"h">>))>>))
  @@ (At(<<"h", "r">>) :> Move(Bare(<<"", "d", "p">>)))
  @@ (At(<<"h", "loop">>) :> Move(Bare(<<"loop">>)))
  @@ (At(<<"h", "lost">>) :> Move(NoRef))
  @@ (Url(70, <<"h", "">>) :> Page(<<LinkLine(Bare(<<"a.html">>)), LinkLine(Ref("http", 80, <<"w">>))>>))

(* What there may be of a line that breaks off: nothing, a part of a target, *)
(* or the "=>" alone.                                                        *)
MCFragments ==
  [line \in UNION {Range(MCSite[url].body) : url \in DOMAIN MCSite} |->
     {TextLine} \cup CASE line.ref = Bare(<<"d", "p">>) -> {LinkLine(Bare(<<"d">>))}
                       [] line.ref = Bare(<<"", "r">>)  -> {LinkLine(NoRef)}
                       [] OTHER                         -> {}]
MCEndless == {At(<<"h", "h">>)}

MCTyped == {At(<<"h">>), At(<<"h", "loop">>), At(<<"h", "lost">>), Bare(<<"h">>), Bare(<<"", "h">>)}
Query(kind, ref) == [kind |-> kind, ref |-> ref]
MCQueries == {Query("gemini", Home), Query("gemini", At(<<"h", "loop">>)), Query("gemini", At(<<"h", "h">>)),
              Query("gemini", Url(70, <<"h">>)),
              Query("file", Bare(<<"a.html">>)), Query("file", Bare(<<"none.html">>)),
              Query("words", NoRef)}
MCHtmlNames == {"a.html", "b.html", "none.html"}
MCHtmlFiles ==
  ("a.html" :> <<Tag("title"), Words("t"), Tag("/title"), Words("one"), Anchor(Bare(<<"b.html">>)),
                 Words("two"), Tag("/a"), Tag("ol"), Tag("li"), Words("three"), Tag("b"),
                 Words("four"), Tag("/li"), Tag("/ol"), Words("five")>>)
  @@ ("b.html" :> <<Anchor(Home), Words("one"), Tag("b"), Words("bold"), Tag("p"), Words("two"),
                    Tag("br"), Tag("title"), Words("three"), Anchor(Ref("http", 80, <<"w">>)), Tag("/title"), Words("four"),
                    Tag("title"), Words("five")>>)
===============================================================================
