--------------------------------- MODULE Shell ---------------------------------
(* The commands of the shell that work on files (shell/mod.rs), the editor it *)
(* starts and the Files window of the desktop it starts, over one tree of     *)
(* files.  The shell waits while a program runs.                              *)
EXTENDS Editor, FilesWindow

CONSTANT Disks   \* what may lie on the disk when the system starts

(* A text as its lines: between two of them is a line end, and no bytes are   *)
(* no line.                                                                   *)
TextFiles == Seq(Seq(Chars)) \ {<<<<>>>>}

(* A tree below the root, as FileSystem leaves it on the disk (TreeOK).       *)
IsTree(disk) ==
  /\ disk \in [DOMAIN disk -> [dir: BOOLEAN, parent: Tree!Ids, name: Names \cup {"/"}, content: TextFiles]]
  /\ DOMAIN disk \subseteq Tree!Ids
  /\ Tree!Root \in DOMAIN disk /\ disk[Tree!Root].parent = Tree!Root
  /\ \A i \in DOMAIN disk : disk[i].parent \in DOMAIN disk
  /\ \A i, j \in DOMAIN disk : disk[i].parent = disk[j].parent /\ disk[i].name = disk[j].name => i = j

ASSUME DisksAssumption == \A disk \in Disks : IsTree(disk)

VARIABLES
  edited      \* the name the editor was started with

shvars == <<wvars, evars, edited>>

NoProgramRuns == mode = "closed" /\ ~files.open
KeepPrograms == UNCHANGED <<evars, edited, files>>

(* mkdir, touch, rm and cd; an error leaves everything alone. *)
Mkdir(name) == CanAdd(name) /\ Tree!Add(name, TRUE)
Touch(name) == CanAdd(name) /\ Tree!Add(name, FALSE)
Rm(name) == Tree!Remove(name)
Cd(name) == Tree!GoInto(name)

(* cp: the target is created when there is none, and written. *)
Cp(src, dst) ==
  \E i \in Tree!Named(src) :
    /\ ~node[i].dir
    /\ IF Tree!Named(dst) # {} THEN Tree!Write(dst, node[i].content)
       ELSE /\ \E j \in Tree!Ids \ Tree!Live :
                 node' = [k \in Tree!Live \cup {j} |->
                            IF k = j THEN [dir |-> FALSE, parent |-> cwd, name |-> dst, content |-> node[i].content]
                            ELSE node[k]]
            /\ UNCHANGED cwd

FileCommand ==
  /\ NoProgramRuns
  /\ \/ Tree!GoRoot \/ Tree!GoUp
     \/ \E name \in Names : Mkdir(name) \/ Touch(name) \/ Rm(name) \/ Cd(name)
     \/ \E src, dst \in Names : Cp(src, dst)
  /\ KeepPrograms

(* fs::read: of a folder there is nothing to read. *)
ReadOf(i) == IF node[i].dir THEN <<>> ELSE node[i].content

(* edit: a file that is not there is created; the editor starts on any entry, *)
(* a folder too.                                                              *)
Edit(name) ==
  /\ NoProgramRuns
  /\ IF Tree!Named(name) # {}
     THEN UNCHANGED <<node, cwd>> /\ \E i \in Tree!Named(name) : Load(ReadOf(i))
     ELSE CanAdd(name) /\ Tree!Add(name, FALSE) /\ Load(<<>>)
  /\ edited' = name /\ UNCHANGED files

EditKey == EditorKey /\ UNCHANGED <<wvars, edited>>
Quit == QuitCommand /\ edited' = "" /\ UNCHANGED wvars

(* save: writing fails when the name is a folder, which nobody is told. *)
Write ==
  IF \E i \in Tree!Named(edited) : ~node[i].dir THEN Tree!Write(edited, SavedText)
  ELSE UNCHANGED <<node, cwd>>
SaveKey == SaveCommand /\ Write /\ UNCHANGED <<edited, files>>
SaveAndQuit == QuitCommand /\ Write /\ edited' = "" /\ UNCHANGED files

Window == mode = "closed" /\ FilesNext /\ UNCHANGED <<evars, edited>>

ShellInit == node \in Disks /\ cwd = Tree!Root /\ FilesInit /\ EditorInit /\ edited = ""
ShellNext ==
  \/ FileCommand \/ EditKey \/ SaveKey \/ Quit \/ SaveAndQuit \/ Window
  \/ \E name \in Names : Edit(name)

ShellSpec == ShellInit /\ [][ShellNext]_shvars

-------------------------------------------------------------------------------

(* A file the grid has room for. *)
Fits(content) == Len(content) <= ROWS /\ \A i \in 1 .. Len(content) : Len(content[i]) <= COLS

(* A text that is not marked as changed is the one on the disk: every change  *)
(* leaves its mark and saving writes all of it (dirty, save, load), for files *)
(* that have room in the grid.                                                *)
UnmarkedIsSaved ==
  mode # "closed" /\ ~dirty =>
    \A i \in Tree!Named(edited) : ~node[i].dir /\ Fits(node[i].content) => SavedText = node[i].content
================================================================================
