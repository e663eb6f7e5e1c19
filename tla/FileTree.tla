------------------------------- MODULE FileTree -------------------------------
(***************************************************************************)
(* What the file system of IluminOS promises to the shell, the editor and  *)
(* the file manager: a tree of named entries below a root that is always   *)
(* there, a current directory, and files that hold what was written last.  *)
(* There are no inodes, bitmap or sectors here.  An entry is known by an   *)
(* identifier that stays the same as long as the entry lives.              *)
(***************************************************************************)
EXTENDS Integers

CONSTANTS
  MaxFiles,   \* how many entries, the root included, can live at once
  Names,      \* the names that can be given to an entry
  Contents    \* what a file may hold

VARIABLES
  node,       \* the live entries: identifier -> entry
  cwd         \* the current directory

vars == <<node, cwd>>

Ids == 0 .. MaxFiles - 1
Root == 0
Live == DOMAIN node

(* Nothing written yet. *)
Nothing == [s \in {} |-> 0]

NewNode(name, isDir) ==
  [dir |-> isDir, parent |-> cwd, name |-> name, content |-> Nothing]

RootNode == [dir |-> TRUE, parent |-> Root, name |-> "/", content |-> Nothing]

Children(dir) == {i \in Live : node[i].parent = dir}
Named(name) == {i \in Children(cwd) : node[i].name = name}

Init ==
  /\ node = [i \in {Root} |-> RootNode]
  /\ cwd = Root

(* A new file or folder appears in the current directory under a name that *)
(* nothing there has yet.                                                  *)
Add(name, isDir) ==
  /\ Named(name) = {}
  /\ \E i \in Ids \ Live :
       node' = [j \in Live \cup {i} |-> IF j = i THEN NewNode(name, isDir) ELSE node[j]]
  /\ UNCHANGED cwd

(* The whole content of one file is replaced; nothing else changes. *)
Write(name, data) ==
  /\ \E i \in Named(name) :
       /\ ~node[i].dir
       /\ node' = [node EXCEPT ![i].content = data]
  /\ UNCHANGED cwd

(* One entry without children disappears. *)
Remove(name) ==
  /\ \E i \in Named(name) :
       /\ Children(i) = {}
       /\ node' = [j \in Live \ {i} |-> node[j]]
  /\ UNCHANGED cwd

GoRoot == cwd' = Root /\ UNCHANGED node

GoUp == cwd' = node[cwd].parent /\ UNCHANGED node

GoInto(name) ==
  /\ \E i \in Named(name) : node[i].dir /\ cwd' = i
  /\ UNCHANGED node

Next ==
  \/ \E name \in Names :
       \/ \E isDir \in BOOLEAN : Add(name, isDir)
       \/ \E data \in Contents : Write(name, data)
       \/ Remove(name)
       \/ GoInto(name)
  \/ GoRoot
  \/ GoUp

Spec == Init /\ [][Next]_vars

-------------------------------------------------------------------------------
(* The root is live and is the entry it was made as: it is never removed,  *)
(* written to or moved.                                                    *)
RootStays == Root \in Live /\ node[Root] = RootNode

(* Every entry lies in a live directory. *)
ParentsLive == \A i \in Live : node[i].parent \in Live /\ node[node[i].parent].dir

(* No set of entries hangs only on itself: every entry is below the root,  *)
(* so walking up ends there and walking down from it visits no entry twice.*)
Rooted ==
  \A S \in SUBSET (Live \ {Root}) : S # {} => \E i \in S : node[i].parent \notin S

(* No directory holds two entries of one name, so a name finds one entry. *)
NamesUnique ==
  \A i, j \in Live : node[i].parent = node[j].parent /\ node[i].name = node[j].name => i = j

(* The current directory is a live directory. *)
CwdLive == cwd \in Live /\ node[cwd].dir

TreeInv == RootStays /\ ParentsLive /\ Rooted /\ NamesUnique /\ CwdLive
===============================================================================
