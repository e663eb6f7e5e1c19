--------------------------------- MODULE Pages ---------------------------------
(* What the clients show: references, and how a page of gemtext              *)
(* (gui/gemtext.rs) or of html (gui/html.rs) becomes the rows on the screen. *)
(*                                                                           *)
(* A reference, as it stands in an address line, a link or a redirect, is a  *)
(* record: its scheme ("" if it has none), its port and its text split at    *)
(* "/".  What the first part means depends on who reads it: parse_url takes  *)
(* it for the host, resolve_relative for a directory.                        *)
EXTENDS Integers, Sequences, SequencesExt

Ref(scheme, port, segs) == [scheme |-> scheme, port |-> port, segs |-> segs]
NoRef == Ref("", 0, <<>>)
Refs == [scheme : STRING, port : Nat, segs : Seq(STRING)] \cup {NoRef}

-------------------------------------------------------------------------------
(* Gemtext.  A line is [kind, ref]: "text", "link", or "toggle", the line     *)
(* ``` that starts and ends preformatted text.  Headings, lists and quotes   *)
(* are rows of text like the others.                                         *)

GemLines == [kind : {"text", "link", "toggle"}, ref : Refs]
GemLine(kind, ref) == [kind |-> kind, ref |-> ref]
TextLine == GemLine("text", NoRef)
LinkLine(ref) == GemLine("link", ref)
ToggleLine == GemLine("toggle", NoRef)

(* parse: in preformatted text a link is a line of text. *)
AddLine(parsed, line) ==
  IF line.kind = "toggle"
  THEN [pre |-> ~parsed.pre, lines |-> Append(parsed.lines, line)]
  ELSE [parsed EXCEPT !.lines = Append(@, IF parsed.pre THEN TextLine ELSE line)]
Parsing == [pre |-> FALSE, lines |-> <<>>]
Gemtext(body) == FoldLeft(AddLine, Parsing, body).lines

(* A block of the window: its text and its href (NoRef when it is no link). *)
Block(text, href) == [text |-> text, href |-> href]
Gap == Block("", NoRef)

(* to_blocks: the lines ``` are left out. *)
AddBlock(blocks, line) ==
  IF line.kind = "toggle" THEN blocks ELSE Append(blocks, Block("line", line.ref))
ToBlocks(lines) == FoldLeft(AddBlock, <<>>, lines)

MessageBlocks == <<Block("message", NoRef)>>

-------------------------------------------------------------------------------
(* Html.  A token is [tag, text, ref]: text has the tag "", a closing tag    *)
(* starts with "/".  Of the style the link is kept; lists, colours and sizes *)
(* only change how a block looks.                                            *)

Tokens == [tag : STRING, text : STRING, ref : Refs]
Token(tag, text, ref) == [tag |-> tag, text |-> text, ref |-> ref]
Words(text) == Token("", text, NoRef)
Tag(tag) == Token(tag, "", NoRef)
Anchor(ref) == Token("a", "", ref)

(* What the parser makes of a file: a tag has no text of its own, and two    *)
(* texts do not follow each other, a tag lies between them.                  *)
Tokenized(tokens) ==
  \A i \in DOMAIN tokens :
    /\ tokens[i].tag # "" => tokens[i].text = ""
    /\ tokens[i].tag = "" /\ i > 1 => tokens[i - 1].tag # ""

HtmlStart == [blocks |-> <<>>, title |-> "Not-Google", href |-> NoRef, buf |-> "",
              inTitle |-> FALSE]

(* flush: what has been read becomes a block in the style of now. *)
Flush(doc) ==
  [doc EXCEPT !.blocks = IF doc.buf = "" THEN @ ELSE Append(@, Block(doc.buf, doc.href)),
              !.buf = ""]

(* Before a tag: in the title the text is the title. *)
BeforeTag(doc) ==
  IF ~doc.inTitle THEN Flush(doc)
  ELSE [doc EXCEPT !.title = IF doc.buf = "" THEN @ ELSE doc.buf, !.buf = ""]

(* Headings, paragraphs and list items start and end with the plain style. *)
Resetting == {"h1", "/h1", "p", "/p", "li", "/li"}

HtmlTag(doc, token) ==
  CASE token.tag \in Resetting \cup {"/a"} -> [doc EXCEPT !.href = NoRef]
    [] token.tag = "a" -> [doc EXCEPT !.href = token.ref]
    [] token.tag \in {"br", "hr"} -> [doc EXCEPT !.blocks = Append(@, Gap)]
    [] token.tag = "title" -> [doc EXCEPT !.inTitle = TRUE]
    [] token.tag = "/title" -> [doc EXCEPT !.inTitle = FALSE]
    [] OTHER                -> doc

HtmlStep(doc, token) ==
  IF token.tag = "" THEN [doc EXCEPT !.buf = token.text]
  ELSE HtmlTag(BeforeTag(doc), token)

(* Mistake: what stands behind the last tag is left out. *)
HtmlUnflushed(tokens) == FoldLeft(HtmlStep, HtmlStart, tokens)

(* parse: what is left at the end is written out, too. *)
Html(tokens) == Flush(FoldLeft(HtmlStep, HtmlStart, tokens))
================================================================================
