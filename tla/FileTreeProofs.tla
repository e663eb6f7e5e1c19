---------------------------- MODULE FileTreeProofs ----------------------------
(***************************************************************************)
(* The entries of FileTree form a tree, for any number of entries and any  *)
(* names and contents.                                                     *)
(***************************************************************************)
EXTENDS FileTree, TLAPS

NodeType ==
  [dir: BOOLEAN, parent: Int, name: Names \cup {"/"}, content: Contents \cup {Nothing}]

TreeTypeOK ==
  /\ node \in [Live -> NodeType]
  /\ Live \in SUBSET Int
  /\ cwd \in Int

LEMMA TreeInit == Init => TreeTypeOK /\ TreeInv
<1> SUFFICES ASSUME Init PROVE TreeTypeOK /\ TreeInv
  OBVIOUS
<1>1. Live = {Root} /\ node[Root] = RootNode /\ Root \in Int /\ cwd = Root
  BY DEF Init, Live, Root
<1>2. RootNode \in NodeType /\ RootNode.dir /\ RootNode.parent = Root
  BY DEF RootNode, NodeType, Root
<1>3. node \in [Live -> NodeType]
  BY <1>1, <1>2 DEF Init
<1>4. RootStays /\ ParentsLive /\ NamesUnique /\ CwdLive
  BY <1>1, <1>2 DEF RootStays, ParentsLive, NamesUnique, CwdLive
<1>5. Rooted
  BY <1>1 DEF Rooted
<1> QED BY <1>1, <1>3, <1>4, <1>5 DEF TreeTypeOK, TreeInv

(* An entry without children is neither the root nor the current directory *)
(* if it lies in the current directory.                                    *)
LEMMA LeafIsSpareable ==
  ASSUME TreeInv, NEW i \in Live, node[i].parent = cwd, Children(i) = {}
  PROVE  i # Root /\ i # cwd
<1>1. Root \in Children(Root)
  BY DEF TreeInv, RootStays, RootNode, Children
<1>2. i = cwd => i \in Children(i)
  BY DEF Children
<1> QED BY <1>1, <1>2

LEMMA AddKeepsTree ==
  ASSUME TreeTypeOK, TreeInv, NEW name \in Names, NEW isDir \in BOOLEAN, Add(name, isDir)
  PROVE  TreeTypeOK' /\ TreeInv'
<1>1. PICK i \in Ids \ Live :
        node' = [j \in Live \cup {i} |-> IF j = i THEN NewNode(name, isDir) ELSE node[j]]
  BY DEF Add
<1>2. /\ Live' = Live \cup {i} /\ cwd' = cwd /\ i \in Int
      /\ node'[i] = NewNode(name, isDir)
      /\ \A j \in Live : node'[j] = node[j] /\ j # i
  BY <1>1 DEF Add, Live, Ids
<1>3. NewNode(name, isDir) \in NodeType
  BY DEF NewNode, NodeType, TreeTypeOK
<1>4. /\ NewNode(name, isDir).parent = cwd /\ NewNode(name, isDir).name = name
  BY DEF NewNode
<1> HIDE DEF NewNode
<1>5. TreeTypeOK'
  <2>1. node' \in [Live' -> NodeType]
    BY <1>1, <1>2, <1>3 DEF TreeTypeOK
  <2> QED BY <2>1, <1>2 DEF TreeTypeOK
<1>6. RootStays' /\ CwdLive' /\ ParentsLive'
  BY <1>2, <1>4 DEF TreeInv, RootStays, RootNode, CwdLive, ParentsLive
<1>7. NamesUnique'
  <2>1. \A j \in Live : ~(node[j].parent = cwd /\ node[j].name = name)
    BY DEF Add, Named, Children
  <2> QED BY <2>1, <1>2, <1>4 DEF TreeInv, NamesUnique
<1>8. Rooted'
  <2> SUFFICES ASSUME NEW S \in SUBSET (Live' \ {Root}), S # {}
               PROVE  \E j \in S : node'[j].parent \notin S
    BY DEF Rooted, Root
  <2>1. CASE S \ {i} = {}
    <3>1. S = {i} /\ cwd # i
      BY <2>1, <1>2 DEF TreeInv, CwdLive
    <3> QED BY <3>1, <1>2, <1>4
  <2>2. CASE S \ {i} # {}
    <3>1. S \ {i} \in SUBSET (Live \ {Root})
      BY <1>2
    <3>2. PICK j \in S \ {i} : node[j].parent \notin S \ {i}
      BY <2>2, <3>1 DEF TreeInv, Rooted
    <3>3. node[j].parent # i /\ node'[j] = node[j]
      BY <3>1, <3>2, <1>2 DEF TreeInv, ParentsLive
    <3> QED BY <3>2, <3>3
  <2> QED BY <2>1, <2>2
<1> QED BY <1>5, <1>6, <1>7, <1>8 DEF TreeInv

LEMMA WriteKeepsTree ==
  ASSUME TreeTypeOK, TreeInv, NEW name \in Names, NEW data \in Contents, Write(name, data)
  PROVE  TreeTypeOK' /\ TreeInv'
<1>1. PICK i \in Live : ~node[i].dir /\ node' = [node EXCEPT ![i].content = data]
  BY DEF Write, Named, Children
<1>2. Live' = Live /\ cwd' = cwd
  BY <1>1 DEF Write, Live
<1>3. node[i] \in NodeType /\ node'[i] = [node[i] EXCEPT !.content = data]
  BY <1>1 DEF TreeTypeOK, Live
<1>4. /\ node'[i] \in NodeType
      /\ node'[i].parent = node[i].parent /\ node'[i].name = node[i].name
      /\ node'[i].dir = node[i].dir
  BY <1>3 DEF NodeType
<1>5. \A j \in Live : j # i => node'[j] = node[j]
  BY <1>1 DEF Live
<1>6. TreeTypeOK'
  <2>1. node' \in [Live -> NodeType]
    BY <1>1, <1>4, <1>5 DEF TreeTypeOK
  <2> QED BY <2>1, <1>2 DEF TreeTypeOK
<1>7. RootStays'
  <2>1. node[Root].dir
    BY DEF TreeInv, RootStays, RootNode
  <2> QED BY <2>1, <1>1, <1>2, <1>5 DEF TreeInv, RootStays, RootNode
<1>8. CwdLive' /\ ParentsLive'
  BY <1>2, <1>4, <1>5 DEF TreeInv, CwdLive, ParentsLive
<1>9. NamesUnique'
  BY <1>2, <1>4, <1>5 DEF TreeInv, NamesUnique
<1>10. Rooted'
  <2>1. \A j \in Live : node'[j].parent = node[j].parent
    BY <1>4, <1>5
  <2> QED BY <2>1, <1>2 DEF TreeInv, Rooted, Root
<1> QED BY <1>6, <1>7, <1>8, <1>9, <1>10 DEF TreeInv

LEMMA RemoveKeepsTree ==
  ASSUME TreeTypeOK, TreeInv, NEW name \in Names, Remove(name)
  PROVE  TreeTypeOK' /\ TreeInv'
<1>1. PICK i \in Live : /\ node[i].parent = cwd /\ Children(i) = {}
                        /\ node' = [j \in Live \ {i} |-> node[j]]
  BY DEF Remove, Named, Children
<1>2. /\ Live' = Live \ {i} /\ cwd' = cwd
      /\ \A j \in Live' : node'[j] = node[j] /\ j \in Live
  BY <1>1 DEF Remove, Live
<1>3. i # Root /\ i # cwd
  BY <1>1, LeafIsSpareable
<1>4. \A j \in Live : node[j].parent # i
  BY <1>1 DEF Children
<1>5. TreeTypeOK'
  <2>1. node' \in [Live' -> NodeType]
    BY <1>1, <1>2 DEF TreeTypeOK
  <2> QED BY <2>1, <1>2 DEF TreeTypeOK
<1>6. RootStays' /\ CwdLive' /\ ParentsLive' /\ NamesUnique'
  BY <1>2, <1>3, <1>4 DEF TreeInv, RootStays, RootNode, CwdLive, ParentsLive, NamesUnique
<1>7. Rooted'
  BY <1>2 DEF TreeInv, Rooted, Root
<1> QED BY <1>5, <1>6, <1>7 DEF TreeInv

LEMMA GoKeepsTree ==
  ASSUME TreeTypeOK, TreeInv, UNCHANGED node, cwd' \in Live, node[cwd'].dir
  PROVE  TreeTypeOK' /\ TreeInv'
<1>1. Live' = Live
  BY DEF Live
<1> QED
  BY <1>1 DEF TreeTypeOK, TreeInv, RootStays, RootNode, CwdLive, ParentsLive, NamesUnique,
              Rooted, Root

LEMMA NextKeepsTree == TreeTypeOK /\ TreeInv /\ [Next]_vars => TreeTypeOK' /\ TreeInv'
<1> SUFFICES ASSUME TreeTypeOK, TreeInv, [Next]_vars PROVE TreeTypeOK' /\ TreeInv'
  OBVIOUS
<1>1. ASSUME NEW name \in Names, NEW isDir \in BOOLEAN, Add(name, isDir)
      PROVE  TreeTypeOK' /\ TreeInv'
  BY <1>1, AddKeepsTree
<1>2. ASSUME NEW name \in Names, NEW data \in Contents, Write(name, data)
      PROVE  TreeTypeOK' /\ TreeInv'
  BY <1>2, WriteKeepsTree
<1>3. ASSUME NEW name \in Names, Remove(name) PROVE TreeTypeOK' /\ TreeInv'
  BY <1>3, RemoveKeepsTree
<1>4. ASSUME NEW name \in Names, GoInto(name) PROVE TreeTypeOK' /\ TreeInv'
  BY <1>4, GoKeepsTree DEF GoInto, Named, Children
<1>5. CASE GoRoot
  BY <1>5, GoKeepsTree DEF GoRoot, TreeInv, RootStays, RootNode
<1>6. CASE GoUp
  BY <1>6, GoKeepsTree DEF GoUp, TreeInv, CwdLive, ParentsLive
<1>7. CASE UNCHANGED vars
  BY <1>7, GoKeepsTree DEF vars, TreeInv, CwdLive
<1> QED BY <1>1, <1>2, <1>3, <1>4, <1>5, <1>6, <1>7 DEF Next

(* Every behaviour of FileTree keeps a tree below the root, with unique    *)
(* names and a live current directory.                                     *)
THEOREM TreeIsKept == Spec => []TreeInv
<1>1. Spec => [](TreeTypeOK /\ TreeInv)
  BY TreeInit, NextKeepsTree, PTL DEF Spec
<1> QED BY <1>1, PTL
===============================================================================
