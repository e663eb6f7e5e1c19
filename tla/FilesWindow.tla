------------------------------ MODULE FilesWindow ------------------------------
(* The Files window of the desktop (gui/widgets/files.rs) over the tree of    *)
(* files: it shows a listing it made itself, and what is clicked is looked up *)
(* in that listing and handed to the file system as a name.                   *)
EXTENDS Integers, Sequences, SequencesExt

CONSTANTS
  MaxFiles, Contents,   \* those of FileTree
  NameOrder,            \* the names of files, in their order
  VisibleRows           \* visible_rows

ASSUME FilesAssumption == VisibleRows \in Nat

Names == Range(NameOrder)

VARIABLES
  node, cwd,   \* those of FileTree
  files        \* Files

wvars == <<node, cwd, files>>

Tree == INSTANCE FileTree

NoFiles == [open |-> FALSE, entries |-> <<>>, selected |-> 0, prompt |-> "none"]
FilesInit == files = NoFiles

(* list, and the order of refresh: folders first, then by name. *)
Entry(i) == [name |-> node[i].name, dir |-> node[i].dir]
Place(name) == CHOOSE k \in DOMAIN NameOrder : NameOrder[k] = name
Before(a, b) == IF a.dir # b.dir THEN a.dir ELSE Place(a.name) < Place(b.name)
Listing == SetToSortSeq({Entry(i) : i \in Tree!Children(cwd) \ {Tree!Root}}, Before)

(* Mistake: the mark stays on its row. *)
RefreshedMarked(listing) == [files EXCEPT !.entries = listing, !.prompt = "none"]
Refreshed(listing) == [files EXCEPT !.entries = listing, !.selected = 0, !.prompt = "none"]
Refresh == files' = Refreshed(Listing')

OpenFiles == ~files.open /\ files' = [NoFiles EXCEPT !.open = TRUE, !.entries = Listing] /\ UNCHANGED <<node, cwd>>
CloseFiles == files.open /\ files' = NoFiles /\ UNCHANGED <<node, cwd>>

(* New Dir and New File ask for a name. *)
NoPrompt == files.open /\ files.prompt = "none"
Asked(kind) == files' = [files EXCEPT !.prompt = kind] /\ UNCHANGED <<node, cwd>>
NewButton == NoPrompt /\ \E kind \in {"dir", "file"} : Asked(kind)
ClickBeside == files.open /\ files.prompt # "none" /\ Asked("none")

(* create and mkdir. *)
CanAdd(name) == Tree!Named(name) = {} /\ Tree!Ids \ Tree!Live # {}

NameEntered ==
  /\ files.open /\ files.prompt # "none"
  /\ \E name \in Names :
       IF CanAdd(name) THEN Tree!Add(name, files.prompt = "dir") /\ Refresh ELSE Asked("none")

DeleteButton ==
  /\ NoPrompt /\ files.selected # 0
  /\ Tree!Remove(files.entries[files.selected].name)
  /\ Refresh

UpButton == NoPrompt /\ Tree!GoUp /\ Refresh

(* A folder is opened, a file marked. *)
RowClick ==
  /\ NoPrompt
  /\ \E row \in 1 .. Len(files.entries) :
       /\ row <= VisibleRows
       /\ IF files.entries[row].dir THEN Tree!GoInto(files.entries[row].name) /\ Refresh
          ELSE files' = [files EXCEPT !.selected = row] /\ UNCHANGED <<node, cwd>>

FilesNext == OpenFiles \/ CloseFiles \/ NewButton \/ ClickBeside \/ NameEntered
             \/ DeleteButton \/ UpButton \/ RowClick

(* While the window is open it shows the folder it stands in as it is, and a  *)
(* marked row is a file of it: what is deleted by its name is what the user   *)
(* marked (refresh after every operation; the desktop has one window).        *)
ListFresh ==
  files.open =>
    /\ files.entries = Listing
    /\ files.selected # 0 =>
         files.selected <= Len(files.entries) /\ ~files.entries[files.selected].dir
================================================================================
