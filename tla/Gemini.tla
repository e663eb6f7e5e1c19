--------------------------------- MODULE Gemini ---------------------------------
(* The two Gemini clients.  The kernel runs one program at a time: the       *)
(* client of the console, started by the shell, or the desktop with the      *)
(* browser window.  Both wait while a page is fetched.                       *)
EXTENDS GeminiConsole, BrowserWindow

(* The lines of an answer, and what is read of those that break off. *)
LinesOf(answer) == Range(answer.body) \cup UNION {Fragments[line] : line \in Range(answer.body)}

(* What can stand in an address line, in an answer and in a file; only       *)
(* links of gemtext have a reference, and no host is named like the way up.  *)
(* Of a line that breaks off there may be nothing, and a beginning of it is  *)
(* a line of its kind or text.                                               *)
ASSUME GeminiAssumption ==
  /\ Typed \subseteq Refs /\ Queries \subseteq [kind : {"gemini", "file", "words"}, ref : Refs]
  /\ \A url \in DOMAIN Site :
       /\ Site[url].meta \in Refs /\ Site[url].body \in Seq(GemLines)
       /\ \A line \in LinesOf(Site[url]) : line.kind # "link" => line.ref = NoRef
       /\ \A line \in Range(Site[url].body) :
            /\ TextLine \in Fragments[line] /\ Fragments[line] \subseteq GemLines
            /\ \A part \in Fragments[line] : part.kind \in {"text", line.kind}
  /\ Endless \subseteq DOMAIN Site
  /\ \A name \in DOMAIN HtmlFiles : HtmlFiles[name] \in Seq(Tokens) /\ Tokenized(HtmlFiles[name])
  /\ ".." \notin Hosts \cup Literals

gvars == <<nav, fetch, peer, con, win>>

GInit == ProtoInit /\ con = NoConsole /\ win = NoWindow

Console ==
  /\ (StartConsole /\ ~win.open) \/ Key \/ GiveAddress \/ GiveAnswer
  /\ UNCHANGED win

Window ==
  /\ (OpenWindow /\ ~con.open) \/ CloseWindow \/ TypeQuery \/ EnterQuery \/ Click
       \/ ScrollPage
  /\ UNCHANGED con

Fetching ==
  \/ FetchStep /\ UNCHANGED <<con, win>>
  \/ HandleResponse /\ UNCHANGED win
  \/ WindowResponse /\ UNCHANGED con

Network == Peer /\ UNCHANGED <<con, win>>

GNext == Console \/ Window \/ Fetching \/ Network

(* The kernel goes on as long as it is in a fetch: its loops turn, and what  *)
(* came of it is looked at.  Keys, clicks and the network owe nothing.       *)
GSpec == GInit /\ [][GNext]_gvars /\ WF_gvars(Fetching)

-------------------------------------------------------------------------------
(* Properties. *)

(* The places up to i, and the lines that are preformatted, those with an    *)
(* odd number of ``` before them.                                            *)
Rank(i, places) == Cardinality({j \in places : j <= i})
Toggles(body) == {j \in DOMAIN body : body[j].kind = "toggle"}
Preformatted(body, i) == Rank(i - 1, Toggles(body)) % 2 = 1
LinkPlaces(body) == {i \in DOMAIN body : body[i].kind = "link" /\ ~Preformatted(body, i)}

(* What may come of an answer that has a header: all of it, or so many lines *)
(* and what there is of the next.                                            *)
Beginnings(answer) == UNION {Received(answer, n) : n \in 1 .. Len(answer.body) + 1}

(* The page of the console is what the server of base answers, from its      *)
(* first line on and to where it broke off, if it did; and link n leads      *)
(* where the n-th link of these lines leads from there (handle_response      *)
(* keeps rows, link_targets and base_url apart).  Every line but the last is *)
(* whole; the last may be a beginning, of a link too, which then leads       *)
(* elsewhere than the page says (tls::request, parse).                       *)
ConsolePage ==
  con.base # NoUrl =>
    /\ Category(Answer(con.base).status) = 2
    /\ \E body \in Beginnings(Answer(con.base)) :
         LET places == LinkPlaces(body) IN
         /\ Len(con.rows) = Len(body)
         /\ Len(con.links) = Cardinality(places)
         /\ \A i \in places : con.links[Rank(i, places)] = Absolute(con.base, body[i].ref)

(* A link that is not absolute on its page never leads out of its server,    *)
(* and its path has no "..": resolve_relative stops at the root.             *)
LinksStayBelowRoot ==
  con.base # NoUrl =>
    \A i \in DOMAIN con.links :
      con.links[i] \in {Absolute(con.base, line.ref) :
                          line \in {l \in LinesOf(Answer(con.base)) : l.ref.scheme = ""}}
        => /\ Host(con.links[i]) = Host(con.base) /\ con.links[i].port = con.base.port
           /\ ".." \notin Range(con.links[i].segs)

(* A page that appears in the console has the last entry of the history:     *)
(* reload asks for it again, back goes to the one before it.  That holds for *)
(* links, redirects, questions of the server, reload and back alike; only an *)
(* address without a scheme, which the first page may have been asked with,  *)
(* leads elsewhere when it is asked for again, now against that page.        *)
PageHasEntry ==
  [][con.open /\ con'.open /\ con'.base # con.base /\ (nav.push \/ Last(con.history).scheme # "")
       => /\ con'.history # <<>>
          /\ ParseUrl(Last(con'.history)) = con'.base]_gvars

(* A page in the window is what its url answers, line by line to where it    *)
(* broke off, if it did, the links where these lines have them, the last     *)
(* perhaps a beginning; and the url they are resolved against is the url of  *)
(* that page; a file has no such url (browser.rs keeps page_doc and          *)
(* current_gemini_url apart).                                                *)
ShownPlaces(body) == {i \in DOMAIN body : body[i].kind # "toggle"}
WindowPage ==
  CASE win.doc.kind = "gemini" ->
         LET url == win.doc.source[1] IN
         /\ Category(Answer(url).status) = 2
         /\ win.current = url
         /\ \E body \in Beginnings(Answer(url)) :
              LET places == ShownPlaces(body) IN
              /\ Len(body) = win.doc.source[2]
              /\ Len(win.doc.blocks) = Cardinality(places)
              /\ \A i \in places :
                   win.doc.blocks[Rank(i, places)].href =
                     IF i \in LinkPlaces(body) THEN body[i].ref ELSE NoRef
    [] win.doc.kind = "html" -> win.current = NoUrl
    [] OTHER -> TRUE

(* While a page is shown, a click finds exactly the links of that page, at   *)
(* the rows where they are drawn, and the page is not scrolled past its end  *)
(* (render_html records the places, scroll and the openers move the page).   *)
HitsMatchPage ==
  win.open /\ win.viewing /\ win.doc # NoDoc =>
    /\ win.hits = {[at |-> i - win.scroll, href |-> win.doc.blocks[i].href] :
                     i \in {j \in DOMAIN win.doc.blocks : win.doc.blocks[j].href # NoRef}}
    /\ win.scroll = 0 \/ win.scroll + View <= Len(win.doc.blocks)

(* All the text of a file is shown, in order and once, except what stands in *)
(* its title (html.rs parse collects text and writes it out, in the style    *)
(* there is, before each tag).  Text that stands in a link, by the nesting   *)
(* of <a> and </a>, is shown as that link and as no other, and text outside  *)
(* as none.  The one exception is the code's, not that of                    *)
(* docs/INTERNALS.md: a heading, paragraph or list item that begins or ends  *)
(* in a link starts a style without it, and the text from there to the </a>  *)
(* may be no link.                                                           *)
Latest(tokens, i, tags) ==
  LET marks == {j \in 1 .. i : tokens[j].tag \in tags} IN IF marks = {} THEN 0 ELSE Max(marks)
InTitle(tokens, i) ==
  LET last == Latest(tokens, i, {"title", "/title"}) IN last # 0 /\ tokens[last].tag = "title"
LinkAround(tokens, i) ==
  LET last == Latest(tokens, i, {"a", "/a"})
  IN  IF last # 0 /\ tokens[last].tag = "a" THEN tokens[last].ref ELSE NoRef
BlockTags == {"h1", "/h1", "p", "/p", "li", "/li"}
BlockInLink(tokens, i) == Latest(tokens, i, BlockTags) > Latest(tokens, i, {"a", "/a"})
Closed(tokens, i) == \E j \in i + 1 .. Len(tokens) : tokens[j].tag # ""
Texts(tokens) ==
  {i \in DOMAIN tokens : tokens[i].text # "" /\ ~(InTitle(tokens, i) /\ Closed(tokens, i))}
Written(blocks) == {j \in DOMAIN blocks : blocks[j].text # ""}
HtmlTextKept ==
  win.doc.kind = "html" =>
    LET tokens == win.doc.source
        texts  == Texts(tokens)
        shown  == Written(win.doc.blocks)
    IN  /\ Cardinality(shown) = Cardinality(texts)
        /\ \A i \in texts, j \in shown :
             Rank(i, texts) = Rank(j, shown) =>
               /\ win.doc.blocks[j].text = tokens[i].text
               /\ \/ win.doc.blocks[j].href = LinkAround(tokens, i)
                  \/ BlockInLink(tokens, i) /\ win.doc.blocks[j].href = NoRef

(* Fetching a page comes to an end, whatever the network and the servers do: *)
(* every wait has a limit, and redirects are counted.  Only reading as a     *)
(* whole has none (tls::request): the kernel stays in the loop as long as a  *)
(* server goes on sending, and nothing else keeps it there.                  *)
NavigationEnds ==
  []<>(nav.mode # "fetch") \/ <>[](fetch.phase = "read" /\ fetch.url \in Endless)
================================================================================
