------------------------------ MODULE GeminiProofs -----------------------------
(* The Gemini clients, for every set of servers and whatever they and the    *)
(* network do, every address, link and key: the page that is shown is what   *)
(* its url answers, its links are there where they are drawn and lead where  *)
(* the page says, none of them out of its server, the history has an entry   *)
(* for it, and a file of html is shown with all its text.                    *)
(*                                                                           *)
(* The clients fold over sequences.  The library folds by a recursion over   *)
(* sets of positions; the first part gives the value of such a fold element  *)
(* after element, the second what the folds of the clients make of a path    *)
(* and of a page, and the rest follows the clients step by step.             *)
EXTENDS Gemini, FiniteSetTheorems, SequenceTheorems, WellFoundedInduction, TLAPS

-------------------------------------------------------------------------------
(* Steps through the numbers, and through the elements of a sequence. *)

(* A set of numbers has a smallest. *)
LEMMA HasSmallest ==
  ASSUME NEW S \in SUBSET Nat, S # {}
  PROVE  \E m \in S : \A j \in S : m <= j
<1>1. PICK R : R = {ss \in Nat \X Nat : ss[1] < ss[2]}
  OBVIOUS
<1>2. IsWellFoundedOn(R, Nat)
  BY <1>1, NatLessThanWellFounded DEF OpToRel
<1>3. PICK m \in S : \A j \in S : ~(<<j, m>> \in R)
  BY <1>2, WFMin
<1>4. ASSUME NEW j \in S  PROVE m <= j
  <2>1. <<j, m>> \notin R
    BY <1>3
  <2>2. ~(j < m)
    BY <1>1, <2>1
  <2> QED BY <2>2
<1> QED BY <1>4

(* A set that holds 0, and with each number the next one, holds them all: *)
(* there is no smallest number that it does not hold.                      *)
LEMMA Stepwise ==
  ASSUME NEW n \in Nat, NEW A, 0 \in A, \A k \in 1 .. n : k - 1 \in A => k \in A
  PROVE  \A k \in 0 .. n : k \in A
<1>1. PICK S : S = {k \in 0 .. n : k \notin A}
  OBVIOUS
<1>2. SUFFICES ASSUME S # {}  PROVE FALSE
  BY <1>1
<1>3. S \in SUBSET Nat
  BY <1>1
<1>4. PICK m \in S : \A j \in S : m <= j
  BY <1>2, <1>3, HasSmallest
<1>5. m \in 0 .. n /\ m \notin A /\ m \in Nat
  BY <1>1
<1>6. m # 0 /\ m \in 1 .. n /\ m - 1 \in 0 .. n
  BY <1>5
<1>7. m - 1 \in A
  BY <1>1, <1>4, <1>6
<1> QED BY <1>5, <1>6, <1>7

(* The largest number of 1 .. k and a set that has it. *)
LEMMA Largest ==
  ASSUME NEW k \in Nat \ {0}, NEW u \in SUBSET (1 .. k), k \in u
  PROVE  Max(u) = k
<1>1. \E x \in u : \A y \in u : x >= y
  OBVIOUS
<1>2. PICK x : x = Max(u)
  OBVIOUS
<1>3. x \in u /\ \A y \in u : x >= y
  BY <1>1, <1>2 DEF Max
<1>4. x = k
  BY <1>3
<1> QED BY <1>2, <1>4

(* The function by which the library folds a sequence exists; g says what a *)
(* step of the fold makes of what there is and the next element.            *)
LEMMA FoldExists ==
  ASSUME NEW S, NEW T, NEW s \in Seq(S), NEW b \in T, NEW g \in [T \X S -> T]
  PROVE  \E f \in [SUBSET (1 .. Len(s)) -> T] :
           \A u \in SUBSET (1 .. Len(s)) :
             /\ f[u] = IF u = {} THEN b ELSE g[<<f[u \ {Max(u)}], s[Max(u)]>>]
             /\ u # {} => Max(u) \in u
<1> DEFINE Fits(k, f) ==
      /\ f \in [SUBSET (1 .. k) -> T]
      /\ \A u \in SUBSET (1 .. k) : /\ f[u] = IF u = {} THEN b ELSE g[<<f[u \ {Max(u)}], s[Max(u)]>>]
                                    /\ u # {} => Max(u) \in u
<1>1. PICK A : A = {k \in 0 .. Len(s) : \E f : Fits(k, f)}
  OBVIOUS
<1>2. 0 \in A
  <2>1. PICK f : f = [u \in SUBSET (1 .. 0) |-> b]
    OBVIOUS
  <2>2. 1 .. 0 = {} /\ SUBSET (1 .. 0) = {{}}
    OBVIOUS
  <2>3. Fits(0, f)
    BY <2>1, <2>2
  <2>4. 0 \in 0 .. Len(s)
    OBVIOUS
  <2> QED BY <1>1, <2>3, <2>4
<1>3. ASSUME NEW k \in 1 .. Len(s), k - 1 \in A  PROVE k \in A
  <2>1. PICK f : Fits(k - 1, f)
    BY <1>1, <1>3
  <2>2. PICK h : h = [u \in SUBSET (1 .. k) |-> IF k \in u THEN g[<<f[u \ {k}], s[k]>>] ELSE f[u]]
    OBVIOUS
  <2>3. k \in Nat \ {0} /\ s[k] \in S
    OBVIOUS
  <2>4. ASSUME NEW u \in SUBSET (1 .. k)  PROVE u \ {k} \in SUBSET (1 .. k - 1) /\ (k \notin u => u \in SUBSET (1 .. k - 1))
    BY <2>3
  <2>5. ASSUME NEW u \in SUBSET (1 .. k)
        PROVE  /\ h[u] \in T /\ h[u] = IF u = {} THEN b ELSE g[<<h[u \ {Max(u)}], s[Max(u)]>>]
               /\ u # {} => Max(u) \in u
    <3>1. CASE k \in u
      <4>1. Max(u) = k /\ u # {}
        BY <2>3, <3>1, Largest
      <4>2. u \ {k} \in SUBSET (1 .. k - 1) /\ u \ {k} \in SUBSET (1 .. k) /\ k \notin u \ {k}
        BY <2>4
      <4>3. h[u \ {k}] = f[u \ {k}] /\ f[u \ {k}] \in T
        BY <2>1, <2>2, <4>2
      <4>4. h[u] = g[<<f[u \ {k}], s[k]>>]
        BY <2>2, <3>1
      <4>5. <<f[u \ {k}], s[k]>> \in T \X S
        BY <2>3, <4>3
      <4> QED BY <3>1, <4>1, <4>3, <4>4, <4>5
    <3>2. CASE k \notin u
      <4>1. h[u] = f[u] /\ u \in SUBSET (1 .. k - 1)
        BY <2>2, <2>4, <3>2
      <4>2. u \ {Max(u)} \in SUBSET (1 .. k) /\ k \notin u \ {Max(u)}
        BY <3>2
      <4>3. h[u \ {Max(u)}] = f[u \ {Max(u)}]
        BY <2>2, <4>2
      <4> QED BY <2>1, <4>1, <4>3
    <3> QED BY <3>1, <3>2
  <2>6. h \in [SUBSET (1 .. k) -> T]
    BY <2>2, <2>5
  <2>7. Fits(k, h)
    BY <2>5, <2>6
  <2>8. k \in 0 .. Len(s)
    OBVIOUS
  <2> HIDE DEF Fits
  <2> QED BY <1>1, <2>7, <2>8
<1>4. Len(s) \in A
  <2> HIDE DEF Fits
  <2>1. Len(s) \in Nat /\ Len(s) \in 0 .. Len(s)
    OBVIOUS
  <2>2. \A k \in 0 .. Len(s) : k \in A
    BY <1>2, <1>3, <2>1, Stepwise
  <2> QED BY <2>1, <2>2
<1> QED BY <1>1, <1>4

(* it folds s from b on, as far as what there is stays in T. *)
Folds(it, s, b, g, T) ==
  /\ it[{}] = b
  /\ \A u \in SUBSET (1 .. Len(s)) :
       u # {} /\ it[u \ {Max(u)}] \in T => it[u] = g[<<it[u \ {Max(u)}], s[Max(u)]>>]

(* What there is after each element, with r at the end. *)
Trace(h, s, b, g, T, r) ==
  /\ h \in [0 .. Len(s) -> T] /\ h[0] = b /\ h[Len(s)] = r
  /\ \A k \in 1 .. Len(s) : h[k] = g[<<h[k - 1], s[k]>>]
Steps(g, S, T) == g \in [T \X S -> T]

(* The steps of such a fold, one element after the other. *)
LEMMA FoldSteps ==
  ASSUME NEW S, NEW T, NEW s, s \in Seq(S), NEW b, b \in T, NEW g, Steps(g, S, T),
         NEW it, Folds(it, s, b, g, T)
  PROVE  \E h : Trace(h, s, b, g, T, it[1 .. Len(s)])
<1>1. PICK h : h = [k \in 0 .. Len(s) |-> it[1 .. k]]
  OBVIOUS
<1>2. Len(s) \in Nat /\ 1 .. 0 = {}
  OBVIOUS
<1>3. ASSUME NEW k \in 1 .. Len(s), h[k - 1] \in T
      PROVE  h[k] = g[<<h[k - 1], s[k]>>] /\ h[k] \in T
  <2>1. PICK u : u = 1 .. k
    OBVIOUS
  <2>2. k \in Nat \ {0} /\ k <= Len(s) /\ k \in 0 .. Len(s) /\ k - 1 \in 0 .. Len(s)
    BY <1>2
  <2>3. u \in SUBSET (1 .. k) /\ k \in u /\ u \ {k} = 1 .. k - 1
    BY <2>1, <2>2
  <2>4. u \in SUBSET (1 .. Len(s)) /\ u # {}
    BY <1>2, <2>2, <2>3
  <2>5. Max(u) = k
    BY <2>2, <2>3, Largest
  <2>6. h[k] = it[u] /\ h[k - 1] = it[u \ {k}]
    BY <1>1, <2>1, <2>2, <2>3
  <2>7. h[k] = g[<<h[k - 1], s[k]>>]
    BY <1>3, <2>4, <2>5, <2>6 DEF Folds
  <2>8. s[k] \in S
    OBVIOUS
  <2>9. <<h[k - 1], s[k]>> \in T \X S
    BY <1>3, <2>8
  <2> QED BY <2>7, <2>9 DEF Steps
<1>4. PICK A : A = {k \in 0 .. Len(s) : h[k] \in T}
  OBVIOUS
<1>5. 0 \in A /\ h[0] = b
  BY <1>1, <1>2, <1>4 DEF Folds
<1>6. \A k \in 1 .. Len(s) : k - 1 \in A => k \in A
  <2>1. SUFFICES ASSUME NEW k \in 1 .. Len(s), k - 1 \in A  PROVE k \in A
    OBVIOUS
  <2>2. h[k] \in T
    BY <1>3, <1>4, <2>1
  <2>3. k \in 0 .. Len(s)
    BY <1>2
  <2> QED BY <1>4, <2>2, <2>3
<1>7. \A k \in 0 .. Len(s) : k \in A
  BY <1>2, <1>5, <1>6, Stepwise
<1>8. h \in [0 .. Len(s) -> T]
  BY <1>1, <1>4, <1>7
<1>9. ASSUME NEW k \in 1 .. Len(s)  PROVE h[k] = g[<<h[k - 1], s[k]>>]
  <2>1. k - 1 \in 0 .. Len(s)
    BY <1>2
  <2> QED BY <1>3, <1>8, <2>1
<1>10. h[Len(s)] = it[1 .. Len(s)]
  BY <1>1, <1>2
<1>11. Trace(h, s, b, g, T, it[1 .. Len(s)])
  BY <1>5, <1>8, <1>9, <1>10 DEF Trace
<1> QED BY <1>11

(* r is what the steps of g make of s, from b on. *)
FoldsTo(r, s, b, g, T) == \E it : Folds(it, s, b, g, T) /\ r = it[1 .. Len(s)]
Starts(S, T, s, b) == s \in Seq(S) /\ b \in T

(* The table of such a fold, for all sets of positions. *)
Tabulates(f, s, b, g, S, T) ==
  /\ f \in [SUBSET (1 .. Len(s)) -> T] /\ DOMAIN s = 1 .. Len(s)
  /\ \A u \in SUBSET (1 .. Len(s)) :
       /\ f[u] = IF u = {} THEN b ELSE g[<<f[u \ {Max(u)}], s[Max(u)]>>]
       /\ u # {} => u \ {Max(u)} \in SUBSET (1 .. Len(s)) /\ f[u \ {Max(u)}] \in T /\ s[Max(u)] \in S

LEMMA FoldTable ==
  ASSUME NEW S, NEW T, NEW s, NEW b, Starts(S, T, s, b), NEW g, Steps(g, S, T)
  PROVE  \E f : Tabulates(f, s, b, g, S, T)
<1>1. s \in Seq(S) /\ b \in T /\ g \in [T \X S -> T]
  BY DEF Starts, Steps
<1> DEFINE P(f) ==
      \A u \in SUBSET (1 .. Len(s)) :
        /\ f[u] = IF u = {} THEN b ELSE g[<<f[u \ {Max(u)}], s[Max(u)]>>]
        /\ u # {} => Max(u) \in u
<1>2. PICK f \in [SUBSET (1 .. Len(s)) -> T] : P(f)
  BY <1>1, FoldExists, Zenon
<1>3. DOMAIN s = 1 .. Len(s) /\ \A k \in 1 .. Len(s) : s[k] \in S
  BY <1>1
<1>4. ASSUME NEW u \in SUBSET (1 .. Len(s)), u # {}
      PROVE  u \ {Max(u)} \in SUBSET (1 .. Len(s)) /\ f[u \ {Max(u)}] \in T /\ s[Max(u)] \in S
  BY <1>2, <1>3, <1>4
<1> QED BY <1>2, <1>3, <1>4 DEF Tabulates

LEMMA FoldStays ==
  ASSUME NEW S, NEW T, NEW s, NEW b, Starts(S, T, s, b), NEW g, Steps(g, S, T), NEW r, FoldsTo(r, s, b, g, T)
  PROVE  r \in T
<1>1. PICK it : Folds(it, s, b, g, T) /\ r = it[1 .. Len(s)]
  BY DEF FoldsTo
<1>2. PICK h : Trace(h, s, b, g, T, it[1 .. Len(s)])
  BY <1>1, FoldSteps DEF Starts
<1>3. Len(s) \in 0 .. Len(s)
  BY DEF Starts
<1> QED BY <1>1, <1>2, <1>3 DEF Trace

(* The folds of the clients. *)
(* normalize_path *)
LEMMA PushFolds ==
  ASSUME NEW S, NEW T, NEW s, NEW b, Starts(S, T, s, b), NEW g, Steps(g, S, T),
         g = [p \in T \X S |-> PushSegment(p[1], p[2])]
  PROVE  FoldsTo(FoldLeft(PushSegment, b, s), s, b, g, T)
<1> DEFINE Equation(f) == f = [u \in SUBSET DOMAIN s |-> IF u = {} THEN b ELSE PushSegment(f[u \ {Max(u)}], s[Max(u)])]
<1>1. PICK f : Tabulates(f, s, b, g, S, T)
  BY FoldTable
<1>2. \A a \in T : \A x \in S : g[<<a, x>>] = PushSegment(a, x)
  OBVIOUS
<1>3. \A u \in SUBSET (1 .. Len(s)) : f[u] = IF u = {} THEN b ELSE PushSegment(f[u \ {Max(u)}], s[Max(u)])
  BY <1>1, <1>2 DEF Tabulates
<1>4. Equation(f)
  <2>1. f = [u \in SUBSET (1 .. Len(s)) |-> f[u]] /\ DOMAIN s = 1 .. Len(s)
    BY <1>1 DEF Tabulates
  <2> QED BY <1>3, <2>1
<1>5. PICK it : it = CHOOSE ff : Equation(ff)
  OBVIOUS
<1>6. Equation(it)
  BY <1>4, <1>5
<1>7. DOMAIN s = 1 .. Len(s)
  BY <1>1 DEF Tabulates
<1>8. FoldLeft(PushSegment, b, s) = it[1 .. Len(s)]
  BY <1>5, <1>7, Zenon DEF FoldLeft, MapThenFoldSet
<1>9. it[{}] = b
  BY <1>6
<1>10. ASSUME NEW u \in SUBSET (1 .. Len(s)), u # {}, it[u \ {Max(u)}] \in T
       PROVE  it[u] = g[<<it[u \ {Max(u)}], s[Max(u)]>>]
  <2>1. it[u] = PushSegment(it[u \ {Max(u)}], s[Max(u)])
    BY <1>6, <1>7, <1>10
  <2>2. s[Max(u)] \in S
    BY <1>1, <1>10 DEF Tabulates
  <2> QED BY <1>2, <1>10, <2>1, <2>2
<1> HIDE DEF Equation
<1>11. Folds(it, s, b, g, T)
  BY <1>9, <1>10 DEF Folds
<1> QED BY <1>8, <1>11 DEF FoldsTo

(* parse of gemtext *)
LEMMA LineFolds ==
  ASSUME NEW S, NEW T, NEW s, NEW b, Starts(S, T, s, b), NEW g, Steps(g, S, T),
         g = [p \in T \X S |-> AddLine(p[1], p[2])]
  PROVE  FoldsTo(FoldLeft(AddLine, b, s), s, b, g, T)
<1> DEFINE Equation(f) == f = [u \in SUBSET DOMAIN s |-> IF u = {} THEN b ELSE AddLine(f[u \ {Max(u)}], s[Max(u)])]
<1>1. PICK f : Tabulates(f, s, b, g, S, T)
  BY FoldTable
<1>2. \A a \in T : \A x \in S : g[<<a, x>>] = AddLine(a, x)
  OBVIOUS
<1>3. \A u \in SUBSET (1 .. Len(s)) : f[u] = IF u = {} THEN b ELSE AddLine(f[u \ {Max(u)}], s[Max(u)])
  BY <1>1, <1>2 DEF Tabulates
<1>4. Equation(f)
  <2>1. f = [u \in SUBSET (1 .. Len(s)) |-> f[u]] /\ DOMAIN s = 1 .. Len(s)
    BY <1>1 DEF Tabulates
  <2> QED BY <1>3, <2>1
<1>5. PICK it : it = CHOOSE ff : Equation(ff)
  OBVIOUS
<1>6. Equation(it)
  BY <1>4, <1>5
<1>7. DOMAIN s = 1 .. Len(s)
  BY <1>1 DEF Tabulates
<1>8. FoldLeft(AddLine, b, s) = it[1 .. Len(s)]
  BY <1>5, <1>7, Zenon DEF FoldLeft, MapThenFoldSet
<1>9. it[{}] = b
  BY <1>6
<1>10. ASSUME NEW u \in SUBSET (1 .. Len(s)), u # {}, it[u \ {Max(u)}] \in T
       PROVE  it[u] = g[<<it[u \ {Max(u)}], s[Max(u)]>>]
  <2>1. it[u] = AddLine(it[u \ {Max(u)}], s[Max(u)])
    BY <1>6, <1>7, <1>10
  <2>2. s[Max(u)] \in S
    BY <1>1, <1>10 DEF Tabulates
  <2> QED BY <1>2, <1>10, <2>1, <2>2
<1> HIDE DEF Equation
<1>11. Folds(it, s, b, g, T)
  BY <1>9, <1>10 DEF Folds
<1> QED BY <1>8, <1>11 DEF FoldsTo

(* collect_links *)
LEMMA LinkFolds ==
  ASSUME NEW S, NEW T, NEW s, NEW b, Starts(S, T, s, b), NEW g, Steps(g, S, T),
         g = [p \in T \X S |-> AddLink(p[1], p[2])]
  PROVE  FoldsTo(FoldLeft(AddLink, b, s), s, b, g, T)
<1> DEFINE Equation(f) == f = [u \in SUBSET DOMAIN s |-> IF u = {} THEN b ELSE AddLink(f[u \ {Max(u)}], s[Max(u)])]
<1>1. PICK f : Tabulates(f, s, b, g, S, T)
  BY FoldTable
<1>2. \A a \in T : \A x \in S : g[<<a, x>>] = AddLink(a, x)
  OBVIOUS
<1>3. \A u \in SUBSET (1 .. Len(s)) : f[u] = IF u = {} THEN b ELSE AddLink(f[u \ {Max(u)}], s[Max(u)])
  BY <1>1, <1>2 DEF Tabulates
<1>4. Equation(f)
  <2>1. f = [u \in SUBSET (1 .. Len(s)) |-> f[u]] /\ DOMAIN s = 1 .. Len(s)
    BY <1>1 DEF Tabulates
  <2> QED BY <1>3, <2>1
<1>5. PICK it : it = CHOOSE ff : Equation(ff)
  OBVIOUS
<1>6. Equation(it)
  BY <1>4, <1>5
<1>7. DOMAIN s = 1 .. Len(s)
  BY <1>1 DEF Tabulates
<1>8. FoldLeft(AddLink, b, s) = it[1 .. Len(s)]
  BY <1>5, <1>7, Zenon DEF FoldLeft, MapThenFoldSet
<1>9. it[{}] = b
  BY <1>6
<1>10. ASSUME NEW u \in SUBSET (1 .. Len(s)), u # {}, it[u \ {Max(u)}] \in T
       PROVE  it[u] = g[<<it[u \ {Max(u)}], s[Max(u)]>>]
  <2>1. it[u] = AddLink(it[u \ {Max(u)}], s[Max(u)])
    BY <1>6, <1>7, <1>10
  <2>2. s[Max(u)] \in S
    BY <1>1, <1>10 DEF Tabulates
  <2> QED BY <1>2, <1>10, <2>1, <2>2
<1> HIDE DEF Equation
<1>11. Folds(it, s, b, g, T)
  BY <1>9, <1>10 DEF Folds
<1> QED BY <1>8, <1>11 DEF FoldsTo

(* to_blocks *)
LEMMA BlockFolds ==
  ASSUME NEW S, NEW T, NEW s, NEW b, Starts(S, T, s, b), NEW g, Steps(g, S, T),
         g = [p \in T \X S |-> AddBlock(p[1], p[2])]
  PROVE  FoldsTo(FoldLeft(AddBlock, b, s), s, b, g, T)
<1> DEFINE Equation(f) == f = [u \in SUBSET DOMAIN s |-> IF u = {} THEN b ELSE AddBlock(f[u \ {Max(u)}], s[Max(u)])]
<1>1. PICK f : Tabulates(f, s, b, g, S, T)
  BY FoldTable
<1>2. \A a \in T : \A x \in S : g[<<a, x>>] = AddBlock(a, x)
  OBVIOUS
<1>3. \A u \in SUBSET (1 .. Len(s)) : f[u] = IF u = {} THEN b ELSE AddBlock(f[u \ {Max(u)}], s[Max(u)])
  BY <1>1, <1>2 DEF Tabulates
<1>4. Equation(f)
  <2>1. f = [u \in SUBSET (1 .. Len(s)) |-> f[u]] /\ DOMAIN s = 1 .. Len(s)
    BY <1>1 DEF Tabulates
  <2> QED BY <1>3, <2>1
<1>5. PICK it : it = CHOOSE ff : Equation(ff)
  OBVIOUS
<1>6. Equation(it)
  BY <1>4, <1>5
<1>7. DOMAIN s = 1 .. Len(s)
  BY <1>1 DEF Tabulates
<1>8. FoldLeft(AddBlock, b, s) = it[1 .. Len(s)]
  BY <1>5, <1>7, Zenon DEF FoldLeft, MapThenFoldSet
<1>9. it[{}] = b
  BY <1>6
<1>10. ASSUME NEW u \in SUBSET (1 .. Len(s)), u # {}, it[u \ {Max(u)}] \in T
       PROVE  it[u] = g[<<it[u \ {Max(u)}], s[Max(u)]>>]
  <2>1. it[u] = AddBlock(it[u \ {Max(u)}], s[Max(u)])
    BY <1>6, <1>7, <1>10
  <2>2. s[Max(u)] \in S
    BY <1>1, <1>10 DEF Tabulates
  <2> QED BY <1>2, <1>10, <2>1, <2>2
<1> HIDE DEF Equation
<1>11. Folds(it, s, b, g, T)
  BY <1>9, <1>10 DEF Folds
<1> QED BY <1>8, <1>11 DEF FoldsTo

(* parse of html *)
LEMMA HtmlFolds ==
  ASSUME NEW S, NEW T, NEW s, NEW b, Starts(S, T, s, b), NEW g, Steps(g, S, T),
         g = [p \in T \X S |-> HtmlStep(p[1], p[2])]
  PROVE  FoldsTo(FoldLeft(HtmlStep, b, s), s, b, g, T)
<1> DEFINE Equation(f) == f = [u \in SUBSET DOMAIN s |-> IF u = {} THEN b ELSE HtmlStep(f[u \ {Max(u)}], s[Max(u)])]
<1>1. PICK f : Tabulates(f, s, b, g, S, T)
  BY FoldTable
<1>2. \A a \in T : \A x \in S : g[<<a, x>>] = HtmlStep(a, x)
  OBVIOUS
<1>3. \A u \in SUBSET (1 .. Len(s)) : f[u] = IF u = {} THEN b ELSE HtmlStep(f[u \ {Max(u)}], s[Max(u)])
  BY <1>1, <1>2 DEF Tabulates
<1>4. Equation(f)
  <2>1. f = [u \in SUBSET (1 .. Len(s)) |-> f[u]] /\ DOMAIN s = 1 .. Len(s)
    BY <1>1 DEF Tabulates
  <2> QED BY <1>3, <2>1
<1>5. PICK it : it = CHOOSE ff : Equation(ff)
  OBVIOUS
<1>6. Equation(it)
  BY <1>4, <1>5
<1>7. DOMAIN s = 1 .. Len(s)
  BY <1>1 DEF Tabulates
<1>8. FoldLeft(HtmlStep, b, s) = it[1 .. Len(s)]
  BY <1>5, <1>7, Zenon DEF FoldLeft, MapThenFoldSet
<1>9. it[{}] = b
  BY <1>6
<1>10. ASSUME NEW u \in SUBSET (1 .. Len(s)), u # {}, it[u \ {Max(u)}] \in T
       PROVE  it[u] = g[<<it[u \ {Max(u)}], s[Max(u)]>>]
  <2>1. it[u] = HtmlStep(it[u \ {Max(u)}], s[Max(u)])
    BY <1>6, <1>7, <1>10
  <2>2. s[Max(u)] \in S
    BY <1>1, <1>10 DEF Tabulates
  <2> QED BY <1>2, <1>10, <2>1, <2>2
<1> HIDE DEF Equation
<1>11. Folds(it, s, b, g, T)
  BY <1>9, <1>10 DEF Folds
<1> QED BY <1>8, <1>11 DEF FoldsTo

-------------------------------------------------------------------------------
(* References and what becomes of them. *)

(* A sequence of something: the parts of a reference, a page, a history. *)
IsSeq(s) == \E S : s \in Seq(S)

(* All but the last element. *)
LEMMA FrontIs ==
  ASSUME NEW S, NEW s \in Seq(S), s # <<>>
  PROVE  Front(s) \in Seq(S) /\ Len(Front(s)) = Len(s) - 1 /\ \A k \in 1 .. Len(s) - 1 : Front(s)[k] = s[k]
<1>1. PICK n : n = Len(s) - 1
  OBVIOUS
<1>2. n \in Nat /\ Len(s) = n + 1
  <2>1. Len(s) \in Nat /\ Len(s) # 0
    OBVIOUS
  <2> QED BY <1>1, <2>1
<1>3. \A k \in 1 .. n : s[k] \in S
  BY <1>2
<1>4. PICK f : f = SubSeq(s, 1, n)
  OBVIOUS
<1>5. f \in Seq(S)
  BY <1>2, <1>3, <1>4, SubSeqProperties
<1>6. Len(f) = IF 1 <= n THEN n - 1 + 1 ELSE 0
  BY <1>2, <1>3, <1>4, SubSeqProperties
<1>7. \A k \in 1 .. n - 1 + 1 : f[k] = s[1 + k - 1]
  BY <1>2, <1>3, <1>4, SubSeqProperties
<1>8. Len(f) = n /\ \A k \in 1 .. n : f[k] = s[k]
  BY <1>2, <1>6, <1>7
<1> QED BY <1>1, <1>4, <1>5, <1>8 DEF Front

(* The sequences that the clients make. *)
LEMMA SeqFacts ==
  ASSUME NEW s, IsSeq(s)
  PROVE  /\ Len(s) \in Nat /\ DOMAIN s = 1 .. Len(s)
         /\ \A x : IsSeq(Append(s, x)) /\ Len(Append(s, x)) = Len(s) + 1
         /\ \A x : Append(s, x)[Len(s) + 1] = x /\ \A k \in 1 .. Len(s) : Append(s, x)[k] = s[k]
         /\ s # <<>> => /\ IsSeq(Front(s)) /\ Len(Front(s)) = Len(s) - 1
                        /\ \A k \in 1 .. Len(s) - 1 : Front(s)[k] = s[k]
         /\ (s # <<>> => Len(s) >= 1 /\ IsSeq(Tail(s)))
<1>1. PICK S : s \in Seq(S)
  BY DEF IsSeq
<1>2. Len(s) \in Nat /\ DOMAIN s = 1 .. Len(s)
  BY <1>1
<1>3. ASSUME NEW x  PROVE IsSeq(Append(s, x)) /\ Len(Append(s, x)) = Len(s) + 1
  <2>1. PICK R : R = S \cup {x}
    OBVIOUS
  <2>2. s \in Seq(R) /\ x \in R
    BY <1>1, <2>1
  <2>3. Append(s, x) \in Seq(R) /\ Len(Append(s, x)) = Len(s) + 1
    BY <2>2
  <2> QED BY <2>3 DEF IsSeq
<1>4. ASSUME NEW x  PROVE Append(s, x)[Len(s) + 1] = x /\ \A k \in 1 .. Len(s) : Append(s, x)[k] = s[k]
  <2>1. PICK R : R = S \cup {x}
    OBVIOUS
  <2>2. s \in Seq(R) /\ x \in R
    BY <1>1, <2>1
  <2> QED BY <2>2
<1>5. s # <<>> => /\ IsSeq(Front(s)) /\ Len(Front(s)) = Len(s) - 1
                  /\ \A k \in 1 .. Len(s) - 1 : Front(s)[k] = s[k]
  BY <1>1, FrontIs DEF IsSeq
<1>6. s # <<>> => Len(s) >= 1 /\ IsSeq(Tail(s))
  <2>1. s # <<>> => Len(s) >= 1 /\ Tail(s) \in Seq(S)
    BY <1>1
  <2> QED BY <2>1 DEF IsSeq
<1> QED BY <1>2, <1>3, <1>4, <1>5, <1>6

LEMMA Concatenated ==
  ASSUME NEW s, NEW t, IsSeq(s), IsSeq(t)
  PROVE  /\ IsSeq(s \o t) /\ Len(s \o t) = Len(s) + Len(t)
         /\ \A k \in 1 .. Len(s) : (s \o t)[k] = s[k]
         /\ \A k \in Len(s) + 1 .. Len(s) + Len(t) : (s \o t)[k] = t[k - Len(s)]
<1>1. PICK S, R : s \in Seq(S) /\ t \in Seq(R)
  BY DEF IsSeq
<1>2. PICK Q : Q = S \cup R
  OBVIOUS
<1>3. s \in Seq(Q) /\ t \in Seq(Q)
  BY <1>1, <1>2
<1>4. PICK u : u = s \o t
  OBVIOUS
<1>5. /\ u \in Seq(Q) /\ Len(u) = Len(s) + Len(t)
      /\ \A k \in 1 .. Len(s) + Len(t) : u[k] = IF k <= Len(s) THEN s[k] ELSE t[k - Len(s)]
  BY <1>3, <1>4, ConcatProperties
<1>6. Len(s) \in Nat /\ Len(t) \in Nat
  BY <1>3
<1>7. \A k \in 1 .. Len(s) : u[k] = s[k]
  BY <1>5, <1>6
<1>8. \A k \in Len(s) + 1 .. Len(s) + Len(t) : u[k] = t[k - Len(s)]
  BY <1>5, <1>6
<1> QED BY <1>4, <1>5, <1>7, <1>8 DEF IsSeq

(* No part of a normalized path leads up. *)
LEMMA PathStaysBelow ==
  ASSUME NEW segs, IsSeq(segs)
  PROVE  /\ IsSeq(NormalizePath(segs)) /\ Len(NormalizePath(segs)) >= 1
         /\ \A k \in 1 .. Len(NormalizePath(segs)) : NormalizePath(segs)[k] # ".."
<1>1. PICK S : segs \in Seq(S)
  BY DEF IsSeq
<1>2. PICK D : D = S \ {"", ".", ".."}
  OBVIOUS
<1>3. ASSUME NEW a \in Seq(D), NEW x \in S  PROVE PushSegment(a, x) \in Seq(D)
  <2>1. CASE x \in {"", "."}
    BY <2>1 DEF PushSegment
  <2>2. CASE x = ".."
    <3>1. PushSegment(a, x) = IF a = <<>> THEN a ELSE Front(a)
      BY <2>2 DEF PushSegment
    <3> QED BY <3>1, FrontIs
  <2>3. CASE x \notin {"", ".", ".."}
    <3>1. PushSegment(a, x) = Append(a, x)
      BY <2>3 DEF PushSegment
    <3>2. x \in D
      BY <1>2, <2>3
    <3> QED BY <3>1, <3>2
  <2> QED BY <2>1, <2>2, <2>3
<1>4. PICK T : T = Seq(D)
  OBVIOUS
<1>5. PICK g : g = [p \in T \X S |-> PushSegment(p[1], p[2])]
  OBVIOUS
<1>6. Steps(g, S, T)
  BY <1>3, <1>4, <1>5 DEF Steps
<1>7. Starts(S, T, segs, <<>>)
  BY <1>1, <1>4 DEF Starts
<1>8. FoldLeft(PushSegment, <<>>, segs) \in Seq(D)
  <2>1. FoldLeft(PushSegment, <<>>, segs) \in T
    BY <1>5, <1>6, <1>7, PushFolds, FoldStays
  <2> QED BY <1>4, <2>1
<1>9. PICK p : p = NormalizePath(segs)
  OBVIOUS
<1>10. PICK stack : stack = FoldLeft(PushSegment, <<>>, segs)
  OBVIOUS
<1>11. p = IF stack = <<>> THEN <<"">> ELSE stack
  BY <1>9, <1>10 DEF NormalizePath
<1>12. PICK E : E = D \cup {""}
  OBVIOUS
<1>13. p \in Seq(E) /\ Len(p) >= 1
  <2>1. CASE stack = <<>>
    <3>1. p = <<"">> /\ "" \in E
      BY <1>11, <1>12, <2>1
    <3>2. PICK e \in E : e = "" /\ p = <<e>>
      BY <3>1
    <3>3. <<e>> \in Seq(E) /\ Len(<<e>>) = 1
      OBVIOUS
    <3>4. p \in Seq(E) /\ Len(p) = 1
      BY <3>2, <3>3, Zenon
    <3> QED BY <3>4
  <2>2. CASE stack # <<>>
    <3>1. p \in Seq(D) /\ p # <<>>
      BY <1>8, <1>10, <1>11, <2>2
    <3>2. Len(p) \in Nat /\ Len(p) # 0
      BY <3>1
    <3>3. p \in Seq(E)
      <4>1. D \subseteq E /\ p \in Seq(D)
        BY <1>12, <3>1
      <4> QED BY <4>1, SeqMonotonic
    <3> QED BY <3>2, <3>3
  <2> QED BY <2>1, <2>2
<1>14. ".." \notin E
  BY <1>2, <1>12
<1>15. \A k \in 1 .. Len(p) : p[k] \in E
  BY <1>13
<1> QED BY <1>9, <1>13, <1>14, <1>15 DEF IsSeq
-------------------------------------------------------------------------------
(* Pages. *)

LEMMA FoldTrace ==
  ASSUME NEW S, NEW T, NEW s, NEW b, Starts(S, T, s, b), NEW g, Steps(g, S, T), NEW r, FoldsTo(r, s, b, g, T)
  PROVE  \E h : Trace(h, s, b, g, T, r)
<1>1. PICK it : Folds(it, s, b, g, T) /\ r = it[1 .. Len(s)]
  BY DEF FoldsTo
<1> QED BY <1>1, FoldSteps DEF Starts

(* Counting the places up to a number. *)
LEMMA RankStep ==
  ASSUME NEW places, \A j \in places : j \in Nat \ {0}, NEW k \in Nat \ {0}
  PROVE  /\ Rank(0, places) = 0
         /\ Rank(k - 1, places) \in Nat
         /\ Rank(k, places) = IF k \in places THEN Rank(k - 1, places) + 1 ELSE Rank(k - 1, places)
<1>1. {j \in places : j <= 0} = {}
  OBVIOUS
<1>2. Rank(0, places) = 0
  BY <1>1, FS_EmptySet DEF Rank
<1>3. PICK u : u = {j \in places : j <= k - 1}
  OBVIOUS
<1>4. \A j \in u : j \in 0 .. k - 1
  BY <1>3
<1>5. IsFiniteSet(u) /\ Cardinality(u) \in Nat
  <2>1. IsFiniteSet(0 .. k - 1)
    BY FS_Interval
  <2> QED BY <1>4, <2>1, FS_Subset, FS_CardinalityType
<1>6. ASSUME NEW j \in places  PROVE j <= k <=> j <= k - 1 \/ j = k
  OBVIOUS
<1>7. CASE k \in places
  <2>1. {j \in places : j <= k} = u \cup {k}
    BY <1>3, <1>6, <1>7
  <2>3. k \notin u
    BY <1>4
  <2>2. Cardinality(u \cup {k}) = Cardinality(u) + 1
    BY <1>5, <2>3, FS_AddElement
  <2> QED BY <1>2, <1>3, <1>5, <1>7, <2>1, <2>2 DEF Rank
<1>8. CASE k \notin places
  <2>1. {j \in places : j <= k} = u
    BY <1>3, <1>6, <1>8
  <2> QED BY <1>2, <1>3, <1>5, <1>8, <2>1 DEF Rank
<1> QED BY <1>7, <1>8

(* h collects the values of the places one after the other. *)
Collects(h, n, places, v) ==
  /\ h[0] = <<>>
  /\ \A k \in 1 .. n : h[k] = IF k \in places THEN Append(h[k - 1], v[k]) ELSE h[k - 1]
HasCollected(s, k, places, v) ==
  /\ IsSeq(s) /\ Len(s) = Rank(k, places)
  /\ \A i \in places : i <= k => Rank(i, places) \in 1 .. Len(s) /\ s[Rank(i, places)] = v[i]
  /\ \A m \in 1 .. Len(s) : \E i \in places : s[m] = v[i]

LEMMA CollectStep ==
  ASSUME NEW places, \A j \in places : j \in Nat \ {0}, NEW k \in Nat \ {0}, NEW v, NEW s, HasCollected(s, k - 1, places, v)
  PROVE  /\ k \in places => HasCollected(Append(s, v[k]), k, places, v)
         /\ k \notin places => HasCollected(s, k, places, v)
<1>1. /\ Rank(k - 1, places) \in Nat
      /\ Rank(k, places) = IF k \in places THEN Rank(k - 1, places) + 1 ELSE Rank(k - 1, places)
  BY RankStep
<1>2. ASSUME NEW i \in places, i <= k, i # k  PROVE i <= k - 1
  BY <1>2
<1>3. ASSUME k \in places  PROVE HasCollected(Append(s, v[k]), k, places, v)
  <2>1. PICK t : t = Append(s, v[k])
    OBVIOUS
  <2>2. IsSeq(s) /\ Len(s) = Rank(k - 1, places)
    BY DEF HasCollected
  <2>3. /\ IsSeq(t) /\ Len(t) = Len(s) + 1 /\ Len(s) \in Nat
        /\ t[Len(s) + 1] = v[k] /\ \A m \in 1 .. Len(s) : t[m] = s[m]
    BY <2>1, <2>2, SeqFacts
  <2>4. Len(t) = Rank(k, places)
    BY <1>1, <1>3, <2>2, <2>3
  <2>5. ASSUME NEW i \in places, i <= k  PROVE Rank(i, places) \in 1 .. Len(t) /\ t[Rank(i, places)] = v[i]
    <3>1. CASE i = k
      BY <2>3, <2>4, <3>1
    <3>2. CASE i # k
      <4>1. Rank(i, places) \in 1 .. Len(s) /\ s[Rank(i, places)] = v[i]
        BY <1>2, <2>5, <3>2 DEF HasCollected
      <4> QED BY <2>3, <4>1
    <3> QED BY <3>1, <3>2
  <2>6. ASSUME NEW m \in 1 .. Len(t)  PROVE \E i \in places : t[m] = v[i]
    <3>1. CASE m = Len(s) + 1
      BY <1>3, <2>3, <3>1
    <3>2. CASE m # Len(s) + 1
      <4>1. m \in 1 .. Len(s)
        BY <2>3, <3>2
      <4>2. \E i \in places : s[m] = v[i]
        BY <4>1 DEF HasCollected
      <4> QED BY <2>3, <4>1, <4>2
    <3> QED BY <3>1, <3>2
  <2> QED BY <2>1, <2>3, <2>4, <2>5, <2>6 DEF HasCollected
<1>4. ASSUME k \notin places  PROVE HasCollected(s, k, places, v)
  <2>1. ASSUME NEW i \in places, i <= k  PROVE i <= k - 1
    BY <1>2, <1>4, <2>1
  <2>2. Len(s) = Rank(k, places)
    BY <1>1, <1>4 DEF HasCollected
  <2> QED BY <2>1, <2>2 DEF HasCollected
<1> QED BY <1>3, <1>4

LEMMA Collected ==
  ASSUME NEW n \in Nat, NEW places, \A j \in places : j \in 1 .. n, NEW v, NEW h, Collects(h, n, places, v)
  PROVE  HasCollected(h[n], n, places, v)
<1>1. PICK A : A = {k \in 0 .. n : HasCollected(h[k], k, places, v)}
  OBVIOUS
<1>2. \A j \in places : j \in Nat \ {0}
  OBVIOUS
<1>3. 0 \in A
  <2>1. Rank(0, places) = 0
    BY <1>2, RankStep
  <2>2. IsSeq(<<>>) /\ Len(<<>>) = 0
    <3>1. <<>> \in Seq({})
      OBVIOUS
    <3> QED BY <3>1 DEF IsSeq
  <2>3. \A i \in places : ~(i <= 0)
    BY <1>2
  <2>4. \A m \in 1 .. 0 : FALSE
    OBVIOUS
  <2>5. HasCollected(<<>>, 0, places, v)
    BY <2>1, <2>2, <2>3, <2>4 DEF HasCollected
  <2> QED BY <1>1, <2>5 DEF Collects
<1>4. \A k \in 1 .. n : k - 1 \in A => k \in A
  <2>1. SUFFICES ASSUME NEW k \in 1 .. n, k - 1 \in A  PROVE HasCollected(h[k], k, places, v)
    BY <1>1
  <2>2. HasCollected(h[k - 1], k - 1, places, v) /\ k \in Nat \ {0}
    BY <1>1, <2>1
  <2>3. /\ k \in places => HasCollected(Append(h[k - 1], v[k]), k, places, v)
        /\ k \notin places => HasCollected(h[k - 1], k, places, v)
    BY <1>2, <2>2, CollectStep
  <2>4. h[k] = IF k \in places THEN Append(h[k - 1], v[k]) ELSE h[k - 1]
    BY DEF Collects
  <2> QED BY <2>3, <2>4
<1>5. n \in A
  <2>1. \A k \in 0 .. n : k \in A
    BY <1>3, <1>4, Stepwise
  <2> QED BY <2>1
<1> QED BY <1>1, <1>5

(* In the end the ranks count all the places. *)
LEMMA AllRanked ==
  ASSUME NEW n \in Nat, NEW places, \A j \in places : j \in 1 .. n
  PROVE  Rank(n, places) = Cardinality(places)
<1>1. {j \in places : j <= n} = places
  OBVIOUS
<1> QED BY <1>1 DEF Rank

(* parse of gemtext *)
ParseType == [pre : BOOLEAN, lines : Seq(GemLines)]
Plain(body, i) == IF body[i].kind # "toggle" /\ Preformatted(body, i) THEN TextLine ELSE body[i]

LEMMA NoRefTyped == NoRef \in Refs /\ TextLine \in GemLines /\ Parsing \in ParseType
<1>1. <<>> \in Seq(STRING) /\ <<>> \in Seq(GemLines)
  OBVIOUS
<1>2. NoRef \in Refs
  BY DEF Refs
<1>3. TextLine \in GemLines
  BY <1>2 DEF TextLine, GemLine, GemLines
<1>4. Parsing \in ParseType
  BY <1>1 DEF Parsing, ParseType
<1> QED BY <1>2, <1>3, <1>4

LEMMA AddLineIs ==
  ASSUME NEW a \in ParseType, NEW x \in GemLines
  PROVE  /\ AddLine(a, x) \in ParseType
         /\ AddLine(a, x).lines = Append(a.lines, IF x.kind # "toggle" /\ a.pre THEN TextLine ELSE x)
         /\ AddLine(a, x).pre <=> IF x.kind = "toggle" THEN ~a.pre ELSE a.pre
<1>1. a.pre \in BOOLEAN /\ a.lines \in Seq(GemLines) /\ a = [pre |-> a.pre, lines |-> a.lines]
  BY DEF ParseType
<1>2. CASE x.kind = "toggle"
  <2>1. PICK p \in BOOLEAN : p <=> ~a.pre
    BY <1>1
  <2>2. AddLine(a, x) = [pre |-> p, lines |-> Append(a.lines, x)]
    BY <1>1, <1>2, <2>1, Zenon DEF AddLine
  <2>3. Append(a.lines, x) \in Seq(GemLines)
    BY <1>1
  <2>4. AddLine(a, x) \in ParseType
    BY <2>2, <2>3 DEF ParseType
  <2>5. AddLine(a, x).lines = Append(a.lines, x) /\ AddLine(a, x).pre = p
    BY <2>2
  <2> QED BY <1>2, <2>1, <2>4, <2>5
<1>3. CASE x.kind # "toggle"
  <2>1. PICK y : y = IF a.pre THEN TextLine ELSE x
    OBVIOUS
  <2>2. AddLine(a, x) = [pre |-> a.pre, lines |-> Append(a.lines, y)]
    BY <1>1, <1>3, <2>1 DEF AddLine
  <2>3. Append(a.lines, y) \in Seq(GemLines)
    BY <1>1, <2>1, NoRefTyped
  <2>4. AddLine(a, x).lines = Append(a.lines, y) /\ AddLine(a, x).pre = a.pre
    BY <2>2
  <2>5. AddLine(a, x) \in ParseType
    BY <1>1, <2>2, <2>3 DEF ParseType
  <2> QED BY <1>3, <2>1, <2>4, <2>5
<1> QED BY <1>2, <1>3

LEMMA Odd ==
  ASSUME NEW n \in Nat
  PROVE  (n + 1) % 2 = 1 <=> ~(n % 2 = 1)
OBVIOUS

(* What parse knows after k lines. *)
ParsedTo(a, k, body) ==
  /\ a \in ParseType /\ Len(a.lines) = k
  /\ a.pre <=> Preformatted(body, k + 1)
  /\ \A i \in 1 .. k : a.lines[i] = Plain(body, i)

LEMMA ParseStep ==
  ASSUME NEW body \in Seq(GemLines), NEW k \in 1 .. Len(body), NEW a, ParsedTo(a, k - 1, body)
  PROVE  ParsedTo(AddLine(a, body[k]), k, body)
<1>1. PICK x, c : x = body[k] /\ c = AddLine(a, x)
  OBVIOUS
<1>2. k \in Nat \ {0} /\ x \in GemLines /\ k + 1 - 1 = k /\ k - 1 + 1 = k /\ DOMAIN body = 1 .. Len(body)
  BY <1>1
<1>3. a \in ParseType /\ Len(a.lines) = k - 1 /\ (a.pre <=> Preformatted(body, k))
  BY <1>2 DEF ParsedTo
<1>4. PICK y : y = IF x.kind # "toggle" /\ a.pre THEN TextLine ELSE x
  OBVIOUS
<1>5. c \in ParseType /\ c.lines = Append(a.lines, y) /\ (c.pre <=> IF x.kind = "toggle" THEN ~a.pre ELSE a.pre)
  BY <1>1, <1>2, <1>3, <1>4, AddLineIs
<1>6. y = Plain(body, k)
  BY <1>1, <1>3, <1>4 DEF Plain
<1>7. a.lines \in Seq(GemLines) /\ y \in GemLines
  BY <1>2, <1>3, <1>4, NoRefTyped DEF ParseType
<1>8. Len(c.lines) = k /\ c.lines[k] = y /\ \A i \in 1 .. k - 1 : c.lines[i] = a.lines[i]
  BY <1>2, <1>3, <1>5, <1>7
<1>9. ASSUME NEW i \in 1 .. k  PROVE c.lines[i] = Plain(body, i)
  <2>1. CASE i = k
    BY <1>6, <1>8, <2>1
  <2>2. CASE i # k
    <3>1. i \in 1 .. k - 1
      BY <2>2
    <3> QED BY <1>8, <3>1 DEF ParsedTo
  <2> QED BY <2>1, <2>2
<1>10. c.pre <=> Preformatted(body, k + 1)
  <2>1. PICK places : places = Toggles(body)
    OBVIOUS
  <2>2. (\A j \in places : j \in Nat \ {0}) /\ (k \in places <=> x.kind = "toggle")
    BY <1>1, <1>2, <2>1 DEF Toggles
  <2>3. /\ Rank(k - 1, places) \in Nat
        /\ Rank(k, places) = IF k \in places THEN Rank(k - 1, places) + 1 ELSE Rank(k - 1, places)
    BY <1>2, <2>2, RankStep
  <2>4. Preformatted(body, k) <=> Rank(k - 1, places) % 2 = 1
    BY <2>1 DEF Preformatted
  <2>5. Preformatted(body, k + 1) <=> Rank(k, places) % 2 = 1
    BY <1>2, <2>1 DEF Preformatted
  <2>6. CASE x.kind = "toggle"
    <3>1. Rank(k, places) % 2 = 1 <=> ~(Rank(k - 1, places) % 2 = 1)
      BY <2>2, <2>3, <2>6, Odd
    <3> QED BY <1>3, <1>5, <2>4, <2>5, <2>6, <3>1
  <2>7. CASE x.kind # "toggle"
    <3>1. Rank(k, places) = Rank(k - 1, places)
      BY <2>2, <2>3, <2>7
    <3> QED BY <1>3, <1>5, <2>4, <2>5, <2>7, <3>1
  <2> QED BY <2>6, <2>7
<1> QED BY <1>1, <1>5, <1>8, <1>9, <1>10 DEF ParsedTo

LEMMA GemtextIs ==
  ASSUME NEW body, body \in Seq(GemLines)
  PROVE  /\ Gemtext(body) \in Seq(GemLines) /\ Len(Gemtext(body)) = Len(body)
         /\ \A i \in 1 .. Len(body) : Gemtext(body)[i] = Plain(body, i)
<1>1. PICK S, T : S = GemLines /\ T = ParseType
  OBVIOUS
<1>2. PICK g : g = [p \in T \X S |-> AddLine(p[1], p[2])]
  OBVIOUS
<1>3. Starts(S, T, body, Parsing)
  BY <1>1, NoRefTyped DEF Starts
<1>4. \A a \in T : \A x \in S : AddLine(a, x) \in T
  BY <1>1, AddLineIs
<1>5. Steps(g, S, T)
  BY <1>2, <1>4 DEF Steps
<1>6. PICK r : r = FoldLeft(AddLine, Parsing, body)
  OBVIOUS
<1>7. FoldsTo(r, body, Parsing, g, T)
  BY <1>2, <1>3, <1>5, <1>6, LineFolds
<1>8. PICK h : Trace(h, body, Parsing, g, T, r)
  BY <1>3, <1>5, <1>7, FoldTrace
<1>9. PICK A : A = {k \in 0 .. Len(body) : ParsedTo(h[k], k, body)}
  OBVIOUS
<1>10. Len(body) \in Nat
  OBVIOUS
<1>11. 0 \in A
  <2>1. h[0] = Parsing
    BY <1>8 DEF Trace
  <2>2. Parsing.lines = <<>> /\ Parsing.pre = FALSE
    BY DEF Parsing
  <2>3. Rank(0, Toggles(body)) = 0
    <3>1. \A j \in Toggles(body) : j \in Nat \ {0}
      BY DEF Toggles
    <3> QED BY <3>1, RankStep
  <2>4. ~Preformatted(body, 0 + 1)
    BY <2>3 DEF Preformatted
  <2>5. ParsedTo(Parsing, 0, body)
    BY <2>2, <2>4, NoRefTyped DEF ParsedTo
  <2> QED BY <1>9, <1>10, <2>1, <2>5
<1>12. \A k \in 1 .. Len(body) : k - 1 \in A => k \in A
  <2>1. SUFFICES ASSUME NEW k \in 1 .. Len(body), k - 1 \in A  PROVE ParsedTo(h[k], k, body)
    BY <1>9, <1>10
  <2>2. ParsedTo(h[k - 1], k - 1, body)
    BY <1>9, <2>1
  <2>3. h[k - 1] \in T /\ body[k] \in S
    BY <1>1, <2>2 DEF ParsedTo
  <2>4. h[k] = g[<<h[k - 1], body[k]>>]
    BY <1>8 DEF Trace
  <2>5. h[k] = AddLine(h[k - 1], body[k])
    BY <1>2, <2>3, <2>4
  <2> QED BY <2>2, <2>5, ParseStep
<1>13. ParsedTo(r, Len(body), body)
  <2>1. \A k \in 0 .. Len(body) : k \in A
    BY <1>10, <1>11, <1>12, Stepwise
  <2>2. h[Len(body)] = r
    BY <1>8 DEF Trace
  <2> QED BY <1>9, <1>10, <2>1, <2>2
<1>14. Gemtext(body) = r.lines
  BY <1>6 DEF Gemtext
<1> QED BY <1>13, <1>14 DEF ParsedTo, ParseType

-------------------------------------------------------------------------------
(* References that the clients make of others. *)

IsRef(r) == r = Ref(r.scheme, r.port, r.segs) /\ IsSeq(r.segs)

LEMMA RefFields ==
  ASSUME NEW scheme, NEW port, NEW segs
  PROVE  /\ Ref(scheme, port, segs).scheme = scheme /\ Ref(scheme, port, segs).port = port
         /\ Ref(scheme, port, segs).segs = segs
         /\ IsSeq(segs) => IsRef(Ref(scheme, port, segs))
BY DEF Ref, IsRef

LEMMA RefsAre ==
  ASSUME NEW r \in Refs
  PROVE  IsRef(r)
<1>1. CASE r = NoRef
  <2>1. <<>> \in Seq({})
    OBVIOUS
  <2>2. IsSeq(<<>>)
    BY <2>1 DEF IsSeq
  <2> QED BY <1>1, <2>2, RefFields DEF NoRef
<1>2. CASE r \in [scheme : STRING, port : Nat, segs : Seq(STRING)]
  <2>1. r = [scheme |-> r.scheme, port |-> r.port, segs |-> r.segs] /\ r.segs \in Seq(STRING)
    BY <1>2
  <2> QED BY <2>1 DEF IsRef, Ref, IsSeq
<1> QED BY <1>1, <1>2 DEF Refs

LEMMA SingletonIsSeq ==
  ASSUME NEW x
  PROVE  IsSeq(<<x>>) /\ Len(<<x>>) = 1 /\ <<x>>[1] = x
<1>1. <<x>> \in Seq({x}) /\ Len(<<x>>) = 1
  OBVIOUS
<1> QED BY <1>1 DEF IsSeq

LEMMA PairIsSeq ==
  ASSUME NEW x, NEW y
  PROVE  IsSeq(<<x, y>>) /\ Len(<<x, y>>) = 2
<1>1. <<x, y>> \in Seq({x, y}) /\ Len(<<x, y>>) = 2
  OBVIOUS
<1> QED BY <1>1 DEF IsSeq

(* The host and a normalized path. *)
LEMMA HostAndPath ==
  ASSUME NEW host, NEW segs, IsSeq(segs)
  PROVE  LET whole == <<host>> \o NormalizePath(segs) IN
         /\ IsSeq(whole) /\ Len(whole) \in Nat /\ Len(whole) >= 2 /\ whole[1] = host
         /\ \A k \in 2 .. Len(whole) : whole[k] # ".."
<1>1. PICK p : p = NormalizePath(segs)
  OBVIOUS
<1>2. IsSeq(p) /\ Len(p) >= 1 /\ \A k \in 1 .. Len(p) : p[k] # ".."
  BY <1>1, PathStaysBelow
<1>3. PICK o : o = <<host>>
  OBVIOUS
<1>4. IsSeq(o) /\ Len(o) = 1 /\ o[1] = host
  BY <1>3, SingletonIsSeq
<1>5. PICK whole : whole = o \o p
  OBVIOUS
<1>6. /\ IsSeq(whole) /\ Len(whole) = Len(o) + Len(p)
      /\ \A k \in 1 .. Len(o) : whole[k] = o[k]
      /\ \A k \in Len(o) + 1 .. Len(o) + Len(p) : whole[k] = p[k - Len(o)]
  BY <1>2, <1>4, <1>5, Concatenated
<1>7. Len(p) \in Nat
  BY <1>2, SeqFacts
<1>8. ASSUME NEW k \in 2 .. Len(whole)  PROVE whole[k] # ".."
  <2>1. whole[k] = p[k - 1] /\ k - 1 \in 1 .. Len(p)
    BY <1>4, <1>6, <1>7
  <2> QED BY <1>2, <2>1
<1>9. whole[1] = host /\ Len(whole) \in Nat /\ Len(whole) >= 2
  BY <1>2, <1>4, <1>6, <1>7
<1> QED BY <1>1, <1>3, <1>5, <1>6, <1>8, <1>9

LEMMA ResolvedIs ==
  ASSUME NEW base, IsRef(base), Len(base.segs) >= 2, NEW ref, IsRef(ref)
  PROVE  LET u == ResolveRelative(base, ref) IN
         /\ IsRef(u) /\ u.scheme = "gemini" /\ u.port = base.port /\ Host(u) = Host(base)
         /\ Len(u.segs) \in Nat /\ Len(u.segs) >= 2 /\ \A k \in 2 .. Len(u.segs) : u.segs[k] # ".."
<1>1. IsSeq(base.segs) /\ IsSeq(ref.segs)
  BY DEF IsRef
<1>2. PICK front : front = Front(base.segs)
  OBVIOUS
<1>3. IsSeq(front) /\ front # <<>>
  <2>1. Len(base.segs) \in Nat /\ base.segs # <<>>
    <3>1. Len(base.segs) \in Nat
      BY <1>1, SeqFacts
    <3>2. Len(<<>>) = 0
      OBVIOUS
    <3> QED BY <3>1, <3>2
  <2>2. IsSeq(front) /\ Len(front) = Len(base.segs) - 1
    BY <1>1, <1>2, <2>1, SeqFacts
  <2>3. Len(<<>>) = 0
    OBVIOUS
  <2> QED BY <2>1, <2>2, <2>3
<1>4. PICK dir : dir = Tail(front)
  OBVIOUS
<1>5. IsSeq(dir)
  BY <1>3, <1>4, SeqFacts
<1>6. PICK segs : segs = IF ref.segs # <<>> /\ ref.segs[1] = "" THEN ref.segs ELSE dir \o ref.segs
  OBVIOUS
<1>7. IsSeq(segs)
  <2>1. IsSeq(dir \o ref.segs)
    BY <1>1, <1>5, Concatenated
  <2> QED BY <1>1, <1>6, <2>1
<1>8. PICK whole : whole = <<Host(base)>> \o NormalizePath(segs)
  OBVIOUS
<1>9. /\ IsSeq(whole) /\ Len(whole) \in Nat /\ Len(whole) >= 2 /\ whole[1] = Host(base)
      /\ \A k \in 2 .. Len(whole) : whole[k] # ".."
  BY <1>7, <1>8, HostAndPath
<1>10. ResolveRelative(base, ref) = Ref("gemini", base.port, whole)
  BY <1>2, <1>4, <1>6, <1>8 DEF ResolveRelative, Url
<1>11. PICK u : u = ResolveRelative(base, ref)
  OBVIOUS
<1>12. IsRef(u) /\ u.scheme = "gemini" /\ u.port = base.port /\ u.segs = whole
  BY <1>9, <1>10, <1>11, RefFields
<1>13. Host(u) = Host(base)
  BY <1>9, <1>12 DEF Host
<1> QED BY <1>9, <1>11, <1>12, <1>13

LEMMA AbsoluteIs ==
  ASSUME NEW base, IsRef(base), Len(base.segs) >= 2, NEW ref, IsRef(ref)
  PROVE  IsRef(Absolute(base, ref)) /\ Absolute(base, ref).scheme # ""
<1>1. IsRef(ResolveRelative(base, ref)) /\ ResolveRelative(base, ref).scheme = "gemini"
  BY ResolvedIs
<1> QED BY <1>1 DEF Absolute

LEMMA ParseUrlIs ==
  ASSUME NEW ref, IsRef(ref), ~BadUrl(ref)
  PROVE  IsRef(ParseUrl(ref)) /\ Len(ParseUrl(ref).segs) \in Nat /\ Len(ParseUrl(ref).segs) >= 2
<1>1. IsSeq(ref.segs) /\ Len(ref.segs) \in Nat
  BY SeqFacts DEF IsRef
<1>2. PICK segs : segs = IF ref.scheme \in {"", "gemini"} THEN ref.segs ELSE <<ref.scheme, "">> \o ref.segs
  OBVIOUS
<1>3. IsSeq(segs) /\ Len(segs) \in Nat /\ Len(segs) >= 1
  <2>1. CASE ref.scheme \in {"", "gemini"}
    <3>1. segs = ref.segs /\ segs # <<>>
      BY <1>2, <2>1 DEF BadUrl
    <3> QED BY <1>1, <3>1, SeqFacts
  <2>2. CASE ref.scheme \notin {"", "gemini"}
    <3>1. PICK o : o = <<ref.scheme, "">>
      OBVIOUS
    <3>2. IsSeq(o) /\ Len(o) = 2
      <4>1. PICK x, y : x = ref.scheme /\ y = ""
        OBVIOUS
      <4>2. IsSeq(<<x, y>>) /\ Len(<<x, y>>) = 2
        BY PairIsSeq
      <4> QED BY <3>1, <4>1, <4>2, Zenon
    <3>3. segs = o \o ref.segs
      BY <1>2, <2>2, <3>1
    <3>4. IsSeq(segs) /\ Len(segs) = Len(o) + Len(ref.segs)
      BY <1>1, <3>2, <3>3, Concatenated
    <3> QED BY <1>1, <3>2, <3>4
  <2> QED BY <2>1, <2>2
<1>4. PICK full : full = IF Len(segs) = 1 THEN Append(segs, "") ELSE segs
  OBVIOUS
<1>5. IsSeq(full) /\ Len(full) \in Nat /\ Len(full) >= 2
  <2>1. CASE Len(segs) = 1
    <3>1. IsSeq(Append(segs, "")) /\ Len(Append(segs, "")) = Len(segs) + 1
      BY <1>3, SeqFacts
    <3>2. IsSeq(full) /\ Len(full) = Len(segs) + 1
      BY <1>4, <2>1, <3>1, Zenon
    <3> QED BY <2>1, <3>2
  <2>2. CASE Len(segs) # 1
    BY <1>3, <1>4, <2>2
  <2> QED BY <2>1, <2>2
<1>6. ParseUrl(ref) = Ref("gemini", ref.port, full)
  BY <1>2, <1>4 DEF ParseUrl, Url
<1> QED BY <1>5, <1>6, RefFields

-------------------------------------------------------------------------------
(* What is made of a page. *)

LEMMA LinksAre ==
  ASSUME NEW lines, lines \in Seq(GemLines)
  PROVE  HasCollected(CollectLinks(lines), Len(lines), {i \in 1 .. Len(lines) : lines[i].kind = "link"},
                      [i \in 1 .. Len(lines) |-> Absolute(Base, lines[i].ref)])
<1>1. PICK S, R : S = GemLines /\ R = {Absolute(Base, x.ref) : x \in S}
  OBVIOUS
<1>2. PICK T, b : T = Seq(R) /\ b = <<>>
  OBVIOUS
<1>3. PICK g : g = [p \in T \X S |-> AddLink(p[1], p[2])]
  OBVIOUS
<1>4. Starts(S, T, lines, b)
  BY <1>1, <1>2 DEF Starts
<1>5. ASSUME NEW a \in T, NEW x \in S  PROVE AddLink(a, x) \in T
  <2>1. Absolute(Base, x.ref) \in R
    BY <1>1
  <2>2. Append(a, Absolute(Base, x.ref)) \in T
    BY <1>2, <2>1
  <2> QED BY <2>2 DEF AddLink
<1>6. Steps(g, S, T)
  BY <1>3, <1>5 DEF Steps
<1>7. PICK r : r = FoldLeft(AddLink, b, lines)
  OBVIOUS
<1>8. FoldsTo(r, lines, b, g, T)
  BY <1>3, <1>4, <1>6, <1>7, LinkFolds
<1>9. PICK h : Trace(h, lines, b, g, T, r)
  BY <1>4, <1>6, <1>8, FoldTrace
<1>10. PICK n, places, v : /\ n = Len(lines) /\ places = {i \in 1 .. n : lines[i].kind = "link"}
                           /\ v = [i \in 1 .. n |-> Absolute(Base, lines[i].ref)]
  OBVIOUS
<1>11. n \in Nat /\ (\A i \in 1 .. n : lines[i] \in S) /\ (\A j \in places : j \in 1 .. n)
  BY <1>1, <1>10
<1>12. ASSUME NEW k \in 1 .. n
       PROVE  h[k] = IF k \in places THEN Append(h[k - 1], v[k]) ELSE h[k - 1]
  <2>1. h[k] = g[<<h[k - 1], lines[k]>>] /\ h[k - 1] \in T
    <3>1. k - 1 \in 0 .. Len(lines)
      BY <1>10, <1>11
    <3> QED BY <1>9, <1>10, <3>1 DEF Trace
  <2>2. h[k] = AddLink(h[k - 1], lines[k])
    BY <1>3, <1>11, <2>1
  <2> QED BY <1>10, <2>2 DEF AddLink
<1>13. Collects(h, n, places, v)
  BY <1>2, <1>9, <1>12 DEF Collects, Trace
<1>14. HasCollected(h[n], n, places, v)
  BY <1>11, <1>13, Collected
<1>15. h[n] = CollectLinks(lines)
  BY <1>2, <1>7, <1>9, <1>10 DEF Trace, CollectLinks
<1> QED BY <1>10, <1>14, <1>15

LEMMA BlocksAre ==
  ASSUME NEW lines, lines \in Seq(GemLines)
  PROVE  HasCollected(ToBlocks(lines), Len(lines), {i \in 1 .. Len(lines) : lines[i].kind # "toggle"},
                      [i \in 1 .. Len(lines) |-> Block("line", lines[i].ref)])
<1>1. PICK S, R : S = GemLines /\ R = {Block("line", x.ref) : x \in S}
  OBVIOUS
<1>2. PICK T, b : T = Seq(R) /\ b = <<>>
  OBVIOUS
<1>3. PICK g : g = [p \in T \X S |-> AddBlock(p[1], p[2])]
  OBVIOUS
<1>4. Starts(S, T, lines, b)
  BY <1>1, <1>2 DEF Starts
<1>5. ASSUME NEW a \in T, NEW x \in S  PROVE AddBlock(a, x) \in T
  <2>1. Block("line", x.ref) \in R
    BY <1>1
  <2>2. Append(a, Block("line", x.ref)) \in T
    BY <1>2, <2>1
  <2> QED BY <2>2 DEF AddBlock
<1>6. Steps(g, S, T)
  BY <1>3, <1>5 DEF Steps
<1>7. PICK r : r = FoldLeft(AddBlock, b, lines)
  OBVIOUS
<1>8. FoldsTo(r, lines, b, g, T)
  BY <1>3, <1>4, <1>6, <1>7, BlockFolds
<1>9. PICK h : Trace(h, lines, b, g, T, r)
  BY <1>4, <1>6, <1>8, FoldTrace
<1>10. PICK n, places, v : /\ n = Len(lines) /\ places = {i \in 1 .. n : lines[i].kind # "toggle"}
                           /\ v = [i \in 1 .. n |-> Block("line", lines[i].ref)]
  OBVIOUS
<1>11. n \in Nat /\ (\A i \in 1 .. n : lines[i] \in S) /\ (\A j \in places : j \in 1 .. n)
  BY <1>1, <1>10
<1>12. ASSUME NEW k \in 1 .. n
       PROVE  h[k] = IF k \in places THEN Append(h[k - 1], v[k]) ELSE h[k - 1]
  <2>1. h[k] = g[<<h[k - 1], lines[k]>>] /\ h[k - 1] \in T
    <3>1. k - 1 \in 0 .. Len(lines)
      BY <1>10, <1>11
    <3> QED BY <1>9, <1>10, <3>1 DEF Trace
  <2>2. h[k] = AddBlock(h[k - 1], lines[k])
    BY <1>3, <1>11, <2>1
  <2> QED BY <1>10, <2>2 DEF AddBlock
<1>13. Collects(h, n, places, v)
  BY <1>2, <1>9, <1>12 DEF Collects, Trace
<1>14. HasCollected(h[n], n, places, v)
  BY <1>11, <1>13, Collected
<1>15. h[n] = ToBlocks(lines)
  BY <1>2, <1>7, <1>9, <1>10 DEF Trace, ToBlocks
<1> QED BY <1>10, <1>14, <1>15

(* parse of html, token after token. *)
DocForm(d) ==
  /\ d = [blocks |-> d.blocks, title |-> d.title, href |-> d.href, buf |-> d.buf, inTitle |-> d.inTitle]
  /\ IsSeq(d.blocks) /\ d.inTitle \in BOOLEAN
Parsed(h, tokens) ==
  /\ h[0] = HtmlStart /\ Html(tokens) = Flush(h[Len(tokens)])
  /\ \A k \in 0 .. Len(tokens) : DocForm(h[k])
  /\ \A k \in 1 .. Len(tokens) : h[k] = HtmlStep(h[k - 1], tokens[k])

LEMMA HtmlTrace ==
  ASSUME NEW tokens, tokens \in Seq(Tokens)
  PROVE  \E h : Parsed(h, tokens)
<1>1. PICK S, X, H : S = Tokens /\ X = {"", "Not-Google"} \cup {x.text : x \in S} /\ H = {NoRef} \cup {x.ref : x \in S}
  OBVIOUS
<1>2. PICK R : R = [text : X, href : H]
  OBVIOUS
<1>3. PICK T : T = [blocks : Seq(R), title : X, href : H, buf : X, inTitle : BOOLEAN]
  OBVIOUS
<1>4. Gap \in R
  BY <1>1, <1>2 DEF Gap, Block
<1>5. HtmlStart \in T
  <2>1. <<>> \in Seq(R)
    OBVIOUS
  <2> QED BY <1>1, <1>3, <2>1 DEF HtmlStart
<1>6. ASSUME NEW d \in T
      PROVE  /\ d.blocks \in Seq(R) /\ d.title \in X /\ d.href \in H /\ d.buf \in X /\ d.inTitle \in BOOLEAN
             /\ d = [blocks |-> d.blocks, title |-> d.title, href |-> d.href, buf |-> d.buf, inTitle |-> d.inTitle]
  BY <1>3
<1>7. ASSUME NEW d \in T  PROVE Flush(d) \in T
  <2>1. PICK bs : bs = IF d.buf = "" THEN d.blocks ELSE Append(d.blocks, Block(d.buf, d.href))
    OBVIOUS
  <2>2. Block(d.buf, d.href) \in R
    BY <1>2, <1>6 DEF Block
  <2>3. bs \in Seq(R)
    <3>1. Append(d.blocks, Block(d.buf, d.href)) \in Seq(R)
      BY <1>6, <2>2
    <3> QED BY <1>6, <2>1, <3>1
  <2>4. [d EXCEPT !.blocks = bs, !.buf = ""] \in T
    BY <1>1, <1>3, <2>3
  <2> QED BY <2>1, <2>4 DEF Flush
<1>8. ASSUME NEW d \in T  PROVE BeforeTag(d) \in T
  <2>1. PICK t : t = IF d.buf = "" THEN d.title ELSE d.buf
    OBVIOUS
  <2>2. t \in X
    BY <1>6, <2>1
  <2>3. [d EXCEPT !.title = t, !.buf = ""] \in T
    BY <1>1, <1>3, <2>2
  <2> QED BY <1>7, <2>1, <2>3 DEF BeforeTag
<1>9. ASSUME NEW d \in T, NEW x \in S  PROVE HtmlTag(d, x) \in T
  <2>1. NoRef \in H /\ x.ref \in H
    BY <1>1
  <2>2. ASSUME NEW h \in H  PROVE [d EXCEPT !.href = h] \in T
    BY <1>3
  <2>3. [d EXCEPT !.blocks = Append(@, Gap)] \in T
    <3>1. Append(d.blocks, Gap) \in Seq(R)
      BY <1>4, <1>6
    <3> QED BY <1>3, <3>1
  <2>4. ASSUME NEW i \in BOOLEAN  PROVE [d EXCEPT !.inTitle = i] \in T
    BY <1>3
  <2>5. [d EXCEPT !.href = NoRef] \in T /\ [d EXCEPT !.href = x.ref] \in T
    BY <2>1, <2>2
  <2>6. [d EXCEPT !.inTitle = TRUE] \in T /\ [d EXCEPT !.inTitle = FALSE] \in T
    BY <2>4
  <2> QED BY <2>3, <2>5, <2>6, Zenon DEF HtmlTag
<1>10. ASSUME NEW d \in T, NEW x \in S  PROVE HtmlStep(d, x) \in T
  <2>1. x.text \in X
    BY <1>1
  <2>2. [d EXCEPT !.buf = x.text] \in T
    BY <1>3, <2>1
  <2>3. HtmlTag(BeforeTag(d), x) \in T
    BY <1>8, <1>9
  <2> QED BY <2>2, <2>3 DEF HtmlStep
<1>11. PICK g : g = [p \in T \X S |-> HtmlStep(p[1], p[2])]
  OBVIOUS
<1>12. Starts(S, T, tokens, HtmlStart)
  BY <1>1, <1>5 DEF Starts
<1>13. Steps(g, S, T)
  BY <1>10, <1>11 DEF Steps
<1>14. PICK r : r = FoldLeft(HtmlStep, HtmlStart, tokens)
  OBVIOUS
<1>15. FoldsTo(r, tokens, HtmlStart, g, T)
  BY <1>11, <1>12, <1>13, <1>14, HtmlFolds
<1>16. PICK h : Trace(h, tokens, HtmlStart, g, T, r)
  BY <1>12, <1>13, <1>15, FoldTrace
<1>17. ASSUME NEW d \in T  PROVE DocForm(d)
  BY <1>6 DEF DocForm, IsSeq
<1>18. Len(tokens) \in Nat /\ (\A k \in 1 .. Len(tokens) : tokens[k] \in S) /\ (\A k \in 0 .. Len(tokens) : h[k] \in T)
  <2>1. tokens \in Seq(S)
    BY <1>1
  <2>2. h \in [0 .. Len(tokens) -> T]
    BY <1>16 DEF Trace
  <2> QED BY <2>1, <2>2
<1>19. ASSUME NEW k \in 1 .. Len(tokens)  PROVE h[k] = HtmlStep(h[k - 1], tokens[k])
  <2>1. h[k - 1] \in T /\ tokens[k] \in S
    <3>1. k - 1 \in 0 .. Len(tokens)
      BY <1>18
    <3> QED BY <1>18, <3>1
  <2>2. h[k] = g[<<h[k - 1], tokens[k]>>]
    BY <1>16 DEF Trace
  <2> QED BY <1>11, <2>1, <2>2
<1>20. h[0] = HtmlStart /\ h[Len(tokens)] = r
  BY <1>16 DEF Trace
<1> QED BY <1>14, <1>17, <1>18, <1>19, <1>20 DEF Parsed, Html

(* The parts of what is made of a tag. *)
FlushedBlocks(d) == IF d.buf = "" THEN d.blocks ELSE Append(d.blocks, Block(d.buf, d.href))

LEMMA FlushIs ==
  ASSUME NEW d, DocForm(d)
  PROVE  /\ DocForm(Flush(d)) /\ Flush(d).blocks = FlushedBlocks(d) /\ Flush(d).buf = ""
         /\ Flush(d).href = d.href /\ Flush(d).inTitle = d.inTitle
<1>1. PICK bs : bs = FlushedBlocks(d)
  OBVIOUS
<1>2. IsSeq(bs)
  BY <1>1, SeqFacts DEF FlushedBlocks, DocForm
<1>3. Flush(d) = [d EXCEPT !.blocks = bs, !.buf = ""]
  BY <1>1 DEF Flush, FlushedBlocks
<1>4. PICK e : e = [d EXCEPT !.blocks = bs, !.buf = ""]
  OBVIOUS
<1>5. DocForm(e) /\ e.blocks = bs /\ e.buf = "" /\ e.href = d.href /\ e.inTitle = d.inTitle
  BY <1>2, <1>4 DEF DocForm
<1> QED BY <1>1, <1>3, <1>4, <1>5

LEMMA BeforeTagIs ==
  ASSUME NEW d, DocForm(d)
  PROVE  /\ DocForm(BeforeTag(d)) /\ BeforeTag(d).blocks = (IF d.inTitle THEN d.blocks ELSE FlushedBlocks(d))
         /\ BeforeTag(d).buf = "" /\ BeforeTag(d).href = d.href /\ BeforeTag(d).inTitle = d.inTitle
<1>1. CASE ~d.inTitle
  <2>1. BeforeTag(d) = Flush(d)
    BY <1>1 DEF BeforeTag
  <2> QED BY <1>1, <2>1, FlushIs
<1>2. CASE d.inTitle
  <2>1. PICK t : t = IF d.buf = "" THEN d.title ELSE d.buf
    OBVIOUS
  <2>2. BeforeTag(d) = [d EXCEPT !.title = t, !.buf = ""]
    BY <1>2, <2>1 DEF BeforeTag
  <2>3. PICK e : e = [d EXCEPT !.title = t, !.buf = ""]
    OBVIOUS
  <2>4. DocForm(e) /\ e.blocks = d.blocks /\ e.buf = "" /\ e.href = d.href /\ e.inTitle = d.inTitle
    BY <2>3 DEF DocForm
  <2> QED BY <1>2, <2>2, <2>3, <2>4
<1> QED BY <1>1, <1>2

(* What a tag leaves of the link and of the title. *)
LinkMarks == Resetting \cup {"a", "/a"}
TitleMarks == {"title", "/title"}
MarkedLink(token, before) ==
  IF token.tag \notin LinkMarks THEN before ELSE IF token.tag = "a" THEN token.ref ELSE NoRef
MarkedTitle(token, before) == IF token.tag \in TitleMarks THEN token.tag = "title" ELSE before

(* The link of the style there is after a token. *)
StyleLink(tokens, i) ==
  LET last == Latest(tokens, i, LinkMarks)
  IN  IF last # 0 /\ tokens[last].tag = "a" THEN tokens[last].ref ELSE NoRef

LEMMA HtmlTagIs ==
  ASSUME NEW d, DocForm(d), NEW x
  PROVE  /\ DocForm(HtmlTag(d, x)) /\ HtmlTag(d, x).buf = d.buf
         /\ HtmlTag(d, x).href = MarkedLink(x, d.href)
         /\ HtmlTag(d, x).inTitle = MarkedTitle(x, d.inTitle)
         /\ HtmlTag(d, x).blocks \in {d.blocks, Append(d.blocks, Gap)}
<1>1. CASE x.tag \in Resetting \cup {"/a"}
  <2>1. HtmlTag(d, x) = [d EXCEPT !.href = NoRef] /\ x.tag \notin TitleMarks /\ x.tag \in LinkMarks /\ x.tag # "a"
    BY <1>1 DEF HtmlTag, Resetting, TitleMarks, LinkMarks
  <2> QED BY <2>1 DEF DocForm, MarkedLink, MarkedTitle
<1>2. CASE x.tag = "a"
  <2>1. HtmlTag(d, x) = [d EXCEPT !.href = x.ref] /\ x.tag \notin TitleMarks /\ x.tag \in LinkMarks
    BY <1>2 DEF HtmlTag, Resetting, TitleMarks, LinkMarks
  <2> QED BY <1>2, <2>1 DEF DocForm, MarkedLink, MarkedTitle
<1>3. CASE x.tag \in {"br", "hr"}
  <2>1. PICK bs : bs = Append(d.blocks, Gap)
    OBVIOUS
  <2>2. HtmlTag(d, x) = [d EXCEPT !.blocks = bs] /\ x.tag \notin TitleMarks /\ x.tag \notin LinkMarks
    BY <1>3, <2>1 DEF HtmlTag, Resetting, TitleMarks, LinkMarks
  <2>3. IsSeq(bs)
    BY <2>1, SeqFacts DEF DocForm
  <2> QED BY <2>1, <2>2, <2>3 DEF DocForm, MarkedLink, MarkedTitle
<1>4. CASE x.tag \in TitleMarks
  <2>1. PICK t \in BOOLEAN : t = (x.tag = "title")
    OBVIOUS
  <2>2. HtmlTag(d, x) = [d EXCEPT !.inTitle = t] /\ x.tag \notin LinkMarks
    BY <1>4, <2>1 DEF HtmlTag, Resetting, TitleMarks, LinkMarks
  <2> QED BY <1>4, <2>1, <2>2 DEF DocForm, MarkedLink, MarkedTitle
<1>5. CASE x.tag \notin LinkMarks \cup TitleMarks \cup {"br", "hr"}
  <2>1. HtmlTag(d, x) = d
    BY <1>5 DEF HtmlTag, Resetting, TitleMarks, LinkMarks
  <2> QED BY <1>5, <2>1 DEF DocForm, MarkedLink, MarkedTitle
<1> QED BY <1>1, <1>2, <1>3, <1>4, <1>5 DEF LinkMarks

LEMMA HtmlIs ==
  ASSUME NEW tokens, tokens \in Seq(Tokens)
  PROVE  IsSeq(Html(tokens).blocks)
<1>1. PICK h : Parsed(h, tokens)
  BY HtmlTrace
<1>2. DocForm(h[Len(tokens)])
  BY <1>1 DEF Parsed
<1> QED BY <1>1, <1>2, FlushIs DEF Parsed, DocForm

(* The last of the tags of some kind, and what it leaves. *)
LEMMA LatestStep ==
  ASSUME NEW tokens, NEW tags, NEW k \in Nat \ {0}
  PROVE  /\ Latest(tokens, 0, tags) = 0
         /\ Latest(tokens, k, tags) = IF tokens[k].tag \in tags THEN k ELSE Latest(tokens, k - 1, tags)
<1>1. Latest(tokens, 0, tags) = 0
  BY DEF Latest
<1>2. PICK u : u = {j \in 1 .. k : tokens[j].tag \in tags}
  OBVIOUS
<1>3. Latest(tokens, k, tags) = IF u = {} THEN 0 ELSE Max(u)
  BY <1>2 DEF Latest
<1>4. CASE tokens[k].tag \in tags
  <2>1. u \in SUBSET (1 .. k) /\ k \in u
    BY <1>2, <1>4
  <2>2. Max(u) = k
    BY <2>1, Largest
  <2> QED BY <1>1, <1>3, <1>4, <2>1, <2>2
<1>5. CASE tokens[k].tag \notin tags
  <2>1. u = {j \in 1 .. k - 1 : tokens[j].tag \in tags}
    BY <1>2, <1>5
  <2>2. Latest(tokens, k - 1, tags) = IF u = {} THEN 0 ELSE Max(u)
    BY <2>1 DEF Latest
  <2> QED BY <1>1, <1>3, <1>5, <2>2
<1> QED BY <1>4, <1>5

LEMMA MarksStep ==
  ASSUME NEW tokens, NEW k \in Nat \ {0}
  PROVE  /\ InTitle(tokens, 0) = FALSE /\ StyleLink(tokens, 0) = NoRef
         /\ InTitle(tokens, k) = MarkedTitle(tokens[k], InTitle(tokens, k - 1))
         /\ StyleLink(tokens, k) = MarkedLink(tokens[k], StyleLink(tokens, k - 1))
<1>1. /\ Latest(tokens, 0, TitleMarks) = 0 /\ Latest(tokens, 0, LinkMarks) = 0
      /\ Latest(tokens, k, TitleMarks) = IF tokens[k].tag \in TitleMarks THEN k ELSE Latest(tokens, k - 1, TitleMarks)
      /\ Latest(tokens, k, LinkMarks) = IF tokens[k].tag \in LinkMarks THEN k ELSE Latest(tokens, k - 1, LinkMarks)
  BY LatestStep
<1>2. ASSUME NEW i
      PROVE  /\ InTitle(tokens, i) = (Latest(tokens, i, TitleMarks) # 0 /\ tokens[Latest(tokens, i, TitleMarks)].tag = "title")
             /\ StyleLink(tokens, i) =
                  IF Latest(tokens, i, LinkMarks) # 0 /\ tokens[Latest(tokens, i, LinkMarks)].tag = "a"
                  THEN tokens[Latest(tokens, i, LinkMarks)].ref ELSE NoRef
  BY DEF InTitle, StyleLink, TitleMarks
<1>3. InTitle(tokens, 0) = FALSE /\ StyleLink(tokens, 0) = NoRef
  BY <1>1, <1>2
<1>4. InTitle(tokens, k) = MarkedTitle(tokens[k], InTitle(tokens, k - 1))
  BY <1>1, <1>2 DEF MarkedTitle
<1>5. StyleLink(tokens, k) = MarkedLink(tokens[k], StyleLink(tokens, k - 1))
  BY <1>1, <1>2 DEF MarkedLink
<1> QED BY <1>3, <1>4, <1>5

(* Counting looks only at the places up to a number. *)
LEMMA RankAlike ==
  ASSUME NEW k \in Nat, NEW places, NEW others, \A j \in places \cup others : j \in Nat \ {0},
         \A j \in 1 .. k : j \in places <=> j \in others, NEW i \in 0 .. k
  PROVE  Rank(i, places) = Rank(i, others)
<1>1. {j \in places : j <= i} = {j \in others : j <= i}
  OBVIOUS
<1> QED BY <1>1 DEF Rank

LEMMA CollectedAlike ==
  ASSUME NEW k \in Nat, NEW places, NEW others, \A j \in places : j \in 1 .. k, \A j \in others : j \in Nat \ {0},
         \A j \in 1 .. k : j \in places <=> j \in others, NEW v, NEW w, \A j \in 1 .. k : v[j] = w[j],
         NEW s, HasCollected(s, k, places, v)
  PROVE  HasCollected(s, k, others, w)
<1>1. \A j \in places \cup others : j \in Nat \ {0}
  OBVIOUS
<1>2. \A i \in 0 .. k : Rank(i, places) = Rank(i, others)
  BY <1>1, RankAlike
<1>3. IsSeq(s) /\ Len(s) = Rank(k, others)
  BY <1>2 DEF HasCollected
<1>4. ASSUME NEW i \in others, i <= k  PROVE Rank(i, others) \in 1 .. Len(s) /\ s[Rank(i, others)] = w[i]
  <2>1. i \in 1 .. k /\ i \in 0 .. k
    BY <1>4
  <2>2. i \in places
    BY <2>1
  <2>3. Rank(i, places) \in 1 .. Len(s) /\ s[Rank(i, places)] = v[i]
    BY <1>4, <2>2 DEF HasCollected
  <2> QED BY <1>2, <2>1, <2>3
<1>5. ASSUME NEW m \in 1 .. Len(s)  PROVE \E i \in others : s[m] = w[i]
  <2>1. PICK i \in places : s[m] = v[i]
    BY DEF HasCollected
  <2>2. i \in 1 .. k /\ i \in others
    OBVIOUS
  <2> QED BY <2>1, <2>2
<1> QED BY <1>3, <1>4, <1>5 DEF HasCollected

LEMMA NoneCollected ==
  ASSUME NEW places, \A j \in places : j \in Nat \ {0}, NEW v
  PROVE  HasCollected(<<>>, 0, places, v)
<1>1. Rank(0, places) = 0
  BY RankStep
<1>2. IsSeq(<<>>) /\ Len(<<>>) = 0
  <2>1. <<>> \in Seq({})
    OBVIOUS
  <2> QED BY <2>1 DEF IsSeq
<1>3. \A i \in places : ~(i <= 0)
  OBVIOUS
<1>4. \A m \in 1 .. 0 : FALSE
  OBVIOUS
<1> QED BY <1>1, <1>2, <1>3, <1>4 DEF HasCollected

(* t are the blocks with a text, one after the other. *)
ShowsTexts(t, blocks) == IsSeq(blocks) /\ HasCollected(t, Len(blocks), Written(blocks), blocks)

LEMMA AppendShown ==
  ASSUME NEW blocks, NEW t, ShowsTexts(t, blocks), NEW x
  PROVE  /\ x.text # "" => ShowsTexts(Append(t, x), Append(blocks, x))
         /\ x.text = "" => ShowsTexts(t, Append(blocks, x))
<1>1. PICK n, more : n = Len(blocks) /\ more = Append(blocks, x)
  OBVIOUS
<1>2. /\ n \in Nat /\ DOMAIN blocks = 1 .. n /\ IsSeq(more) /\ Len(more) = n + 1 /\ DOMAIN more = 1 .. n + 1
      /\ more[n + 1] = x /\ \A k \in 1 .. n : more[k] = blocks[k]
  <2>1. IsSeq(blocks)
    BY DEF ShowsTexts
  <2>2. /\ n \in Nat /\ DOMAIN blocks = 1 .. n /\ IsSeq(more) /\ Len(more) = n + 1
        /\ more[n + 1] = x /\ \A k \in 1 .. n : more[k] = blocks[k]
    BY <1>1, <2>1, SeqFacts
  <2>3. DOMAIN more = 1 .. Len(more)
    BY <2>2, SeqFacts
  <2> QED BY <2>2, <2>3
<1>3. PICK places, others : places = Written(blocks) /\ others = Written(more)
  OBVIOUS
<1>4. /\ \A j \in places : j \in 1 .. n
      /\ \A j \in others : j \in Nat \ {0}
      /\ \A j \in 1 .. n : j \in places <=> j \in others
      /\ n + 1 \in others <=> x.text # ""
  <2>1. /\ \A j : j \in places <=> j \in 1 .. n /\ blocks[j].text # ""
        /\ \A j : j \in others <=> j \in 1 .. n + 1 /\ more[j].text # ""
    BY <1>2, <1>3 DEF Written
  <2>2. n \in Nat /\ n + 1 \in 1 .. n + 1 /\ (\A j \in 1 .. n : j \in 1 .. n + 1) /\ (\A j \in 1 .. n + 1 : j \in Nat \ {0})
    BY <1>2
  <2>3. ASSUME NEW j \in 1 .. n  PROVE j \in places <=> j \in others
    <3>1. more[j] = blocks[j] /\ j \in 1 .. n + 1
      BY <1>2, <2>2
    <3> QED BY <2>1, <3>1
  <2>4. n + 1 \in others <=> x.text # ""
    <3>1. more[n + 1] = x
      BY <1>2
    <3> QED BY <2>1, <2>2, <3>1
  <2>5. (\A j \in places : j \in 1 .. n) /\ (\A j \in others : j \in 1 .. n + 1)
    BY <2>1
  <2> QED BY <2>2, <2>3, <2>4, <2>5
<1>5. HasCollected(t, n, places, blocks)
  BY <1>1, <1>3 DEF ShowsTexts
<1>6. HasCollected(t, n, others, more)
  BY <1>2, <1>4, <1>5, CollectedAlike
<1>7. PICK k : k = n + 1
  OBVIOUS
<1>8. k \in Nat \ {0} /\ k - 1 = n
  BY <1>2, <1>7
<1>9. /\ k \in others => HasCollected(Append(t, more[k]), k, others, more)
      /\ k \notin others => HasCollected(t, k, others, more)
  BY <1>4, <1>6, <1>8, CollectStep
<1> QED BY <1>1, <1>2, <1>3, <1>4, <1>7, <1>9 DEF ShowsTexts

(* After k tokens: where the parser is, what it has read and not written,    *)
(* and that all texts before that are blocks, in their order.                *)
Pending(tokens, k) == k > 0 /\ tokens[k].tag = ""
WrittenUpTo(tokens, k) == IF Pending(tokens, k) THEN k - 1 ELSE k
Styled(tokens) == [i \in DOMAIN tokens |-> Block(tokens[i].text, StyleLink(tokens, i))]
ParsedUpTo(d, tokens, k) ==
  /\ DocForm(d) /\ d.inTitle = InTitle(tokens, k) /\ d.href = StyleLink(tokens, k)
  /\ d.buf = IF Pending(tokens, k) THEN tokens[k].text ELSE ""
  /\ \E t : ShowsTexts(t, d.blocks) /\ HasCollected(t, WrittenUpTo(tokens, k), Texts(tokens), Styled(tokens))

LEMMA TextsAre ==
  ASSUME NEW tokens, tokens \in Seq(Tokens), Tokenized(tokens)
  PROVE  /\ Len(tokens) \in Nat /\ DOMAIN tokens = 1 .. Len(tokens) /\ \A j \in Texts(tokens) : j \in 1 .. Len(tokens)
         /\ \A j \in Texts(tokens) : j \in Nat \ {0} /\ tokens[j].tag = ""
<1>1. Len(tokens) \in Nat /\ DOMAIN tokens = 1 .. Len(tokens)
  OBVIOUS
<1>2. ASSUME NEW j \in Texts(tokens)  PROVE j \in 1 .. Len(tokens) /\ j \in Nat \ {0} /\ tokens[j].tag = ""
  <2>1. j \in DOMAIN tokens /\ tokens[j].text # ""
    BY DEF Texts
  <2>2. tokens[j].tag = ""
    BY <2>1 DEF Tokenized
  <2>3. PICK n : n = Len(tokens)
    OBVIOUS
  <2>4. n \in Nat /\ j \in 1 .. n
    BY <1>1, <2>1, <2>3
  <2>5. j \in Nat \ {0}
    BY <2>4
  <2> QED BY <2>2, <2>3, <2>4, <2>5
<1> QED BY <1>1, <1>2

LEMMA PlaceBefore ==
  ASSUME NEW n \in Nat, NEW k \in 1 .. n, NEW p, p = k - 1
  PROVE  k \in p + 1 .. n /\ (p > 0 => p \in Nat \ {0} /\ p \in 1 .. n)
OBVIOUS

(* Before a tag, a text that was read becomes a block or the title. *)
LEMMA BeforeTagWrites ==
  ASSUME NEW tokens, tokens \in Seq(Tokens), Tokenized(tokens), NEW k \in 1 .. Len(tokens), tokens[k].tag # "",
         NEW d, ParsedUpTo(d, tokens, k - 1)
  PROVE  \E t : /\ ShowsTexts(t, BeforeTag(d).blocks)
                /\ HasCollected(t, k - 1, Texts(tokens), Styled(tokens))
<1>1. DocForm(d) /\ d.inTitle = InTitle(tokens, k - 1) /\ d.href = StyleLink(tokens, k - 1)
  BY DEF ParsedUpTo
<1>2. PICK t : ShowsTexts(t, d.blocks) /\ HasCollected(t, WrittenUpTo(tokens, k - 1), Texts(tokens), Styled(tokens))
  BY DEF ParsedUpTo
<1>3. BeforeTag(d).blocks = IF d.inTitle THEN d.blocks ELSE FlushedBlocks(d)
  BY <1>1, BeforeTagIs
<1>4. CASE ~Pending(tokens, k - 1)
  <2>1. d.buf = "" /\ WrittenUpTo(tokens, k - 1) = k - 1
    BY <1>4 DEF ParsedUpTo, WrittenUpTo
  <2>2. BeforeTag(d).blocks = d.blocks
    BY <1>3, <2>1 DEF FlushedBlocks
  <2> QED BY <1>2, <2>1, <2>2
<1>5. CASE Pending(tokens, k - 1)
  <2>1. PICK p : p = k - 1
    OBVIOUS
  <2>2. /\ p \in Nat \ {0} /\ p \in DOMAIN tokens /\ d.buf = tokens[p].text /\ HasCollected(t, p - 1, Texts(tokens), Styled(tokens))
    <3>1. Len(tokens) \in Nat /\ DOMAIN tokens = 1 .. Len(tokens)
      BY TextsAre
    <3>2. p \in Nat \ {0} /\ p \in DOMAIN tokens
      <4>1. PICK n : n = Len(tokens)
        OBVIOUS
      <4>2. n \in Nat /\ k \in 1 .. n /\ DOMAIN tokens = 1 .. n
        BY <3>1, <4>1
      <4>3. p > 0
        BY <1>5, <2>1, Zenon DEF Pending
      <4>4. p \in Nat \ {0} /\ p \in 1 .. n
        BY <2>1, <4>2, <4>3, PlaceBefore, Zenon
      <4> QED BY <4>2, <4>4
    <3>3. d.buf = tokens[p].text
      BY <1>5, <2>1 DEF ParsedUpTo
    <3>4. WrittenUpTo(tokens, p) = p - 1
      BY <1>5, <2>1 DEF WrittenUpTo
    <3> QED BY <1>2, <2>1, <3>2, <3>3, <3>4
  <2>3. Closed(tokens, p)
    <3>1. Len(tokens) \in Nat
      BY TextsAre
    <3>2. PICK n : n = Len(tokens)
      OBVIOUS
    <3>3. n \in Nat /\ k \in 1 .. n
      BY <3>1, <3>2
    <3>4. k \in p + 1 .. n
      BY <2>1, <3>3, PlaceBefore, Zenon
    <3> QED BY <3>2, <3>4 DEF Closed
  <2>4. p \in Texts(tokens) <=> d.buf # "" /\ ~d.inTitle
    BY <1>1, <2>1, <2>2, <2>3 DEF Texts
  <2>5. /\ p \in Texts(tokens) => HasCollected(Append(t, Styled(tokens)[p]), p, Texts(tokens), Styled(tokens))
        /\ p \notin Texts(tokens) => HasCollected(t, p, Texts(tokens), Styled(tokens))
    BY <2>2, TextsAre, CollectStep
  <2>6. CASE p \in Texts(tokens)
    <3>1. PICK x : x = Block(d.buf, d.href)
      OBVIOUS
    <3>2. Styled(tokens)[p] = x /\ x.text # ""
      BY <1>1, <2>1, <2>2, <2>4, <2>6, <3>1 DEF Styled, Block
    <3>3. BeforeTag(d).blocks = Append(d.blocks, x)
      BY <1>3, <2>4, <2>6, <3>1 DEF FlushedBlocks
    <3>4. ShowsTexts(Append(t, x), Append(d.blocks, x))
      BY <1>2, <3>2, AppendShown
    <3> QED BY <2>1, <2>5, <2>6, <3>2, <3>3, <3>4
  <2>7. CASE p \notin Texts(tokens)
    <3>1. BeforeTag(d).blocks = d.blocks
      BY <1>3, <2>4, <2>7 DEF FlushedBlocks
    <3> QED BY <1>2, <2>1, <2>5, <2>7, <3>1
  <2> QED BY <2>6, <2>7
<1> QED BY <1>4, <1>5

LEMMA TokenKeeps ==
  ASSUME NEW tokens, tokens \in Seq(Tokens), Tokenized(tokens), NEW k \in 1 .. Len(tokens),
         NEW d, ParsedUpTo(d, tokens, k - 1)
  PROVE  ParsedUpTo(HtmlStep(d, tokens[k]), tokens, k)
<1>1. DocForm(d) /\ d.inTitle = InTitle(tokens, k - 1) /\ d.href = StyleLink(tokens, k - 1)
  BY DEF ParsedUpTo
<1>2. k \in Nat \ {0} /\ k \in DOMAIN tokens /\ k > 0
  OBVIOUS
<1>3. /\ InTitle(tokens, k) = MarkedTitle(tokens[k], InTitle(tokens, k - 1))
      /\ StyleLink(tokens, k) = MarkedLink(tokens[k], StyleLink(tokens, k - 1))
  BY <1>2, MarksStep
<1>4. PICK e : e = HtmlStep(d, tokens[k])
  OBVIOUS
<1>5. CASE tokens[k].tag = ""
  <2>1. e = [d EXCEPT !.buf = tokens[k].text]
    BY <1>4, <1>5 DEF HtmlStep
  <2>2. /\ DocForm(e) /\ e.inTitle = d.inTitle /\ e.href = d.href /\ e.buf = tokens[k].text /\ e.blocks = d.blocks
    BY <1>1, <2>1 DEF DocForm
  <2>3. e.inTitle = InTitle(tokens, k) /\ e.href = StyleLink(tokens, k)
    BY <1>1, <1>3, <1>5, <2>2 DEF MarkedTitle, MarkedLink, TitleMarks, LinkMarks, Resetting
  <2>4. ~Pending(tokens, k - 1)
    <3>1. ASSUME k > 1  PROVE tokens[k - 1].tag # ""
      BY <1>2, <1>5, <3>1 DEF Tokenized
    <3>2. Pending(tokens, k - 1) => k - 1 > 0 /\ tokens[k - 1].tag = ""
      BY DEF Pending
    <3>3. k - 1 > 0 => k > 1
      BY <1>2
    <3> QED BY <3>1, <3>2, <3>3
  <2>5. WrittenUpTo(tokens, k - 1) = k - 1 /\ WrittenUpTo(tokens, k) = k - 1 /\ Pending(tokens, k)
    BY <1>2, <1>5, <2>4 DEF WrittenUpTo, Pending
  <2>6. \E t : ShowsTexts(t, e.blocks) /\ HasCollected(t, WrittenUpTo(tokens, k), Texts(tokens), Styled(tokens))
    BY <2>2, <2>5 DEF ParsedUpTo
  <2> QED BY <1>4, <2>2, <2>3, <2>5, <2>6 DEF ParsedUpTo
<1>6. CASE tokens[k].tag # ""
  <2>1. PICK c : c = BeforeTag(d)
    OBVIOUS
  <2>2. DocForm(c) /\ c.buf = "" /\ c.href = d.href /\ c.inTitle = d.inTitle
    BY <1>1, <2>1, BeforeTagIs
  <2>3. e = HtmlTag(c, tokens[k])
    BY <1>4, <1>6, <2>1 DEF HtmlStep
  <2>4. /\ DocForm(e) /\ e.buf = "" /\ e.href = StyleLink(tokens, k) /\ e.inTitle = InTitle(tokens, k)
        /\ e.blocks \in {c.blocks, Append(c.blocks, Gap)}
    <3>1. PICK x : x = tokens[k]
      OBVIOUS
    <3>2. /\ DocForm(e) /\ e.buf = c.buf /\ e.href = MarkedLink(x, c.href) /\ e.inTitle = MarkedTitle(x, c.inTitle)
          /\ e.blocks \in {c.blocks, Append(c.blocks, Gap)}
      BY <2>2, <2>3, <3>1, HtmlTagIs
    <3> QED BY <1>1, <1>3, <2>2, <3>1, <3>2
  <2>5. PICK t : ShowsTexts(t, c.blocks) /\ HasCollected(t, k - 1, Texts(tokens), Styled(tokens))
    BY <1>6, <2>1, BeforeTagWrites
  <2>6. k \notin Texts(tokens)
    BY <1>6, TextsAre
  <2>7. HasCollected(t, k, Texts(tokens), Styled(tokens))
    BY <1>2, <2>5, <2>6, TextsAre, CollectStep
  <2>8. Gap.text = ""
    BY DEF Gap, Block
  <2>9. ShowsTexts(t, e.blocks)
    BY <2>4, <2>5, <2>8, AppendShown
  <2>10. ~Pending(tokens, k) /\ WrittenUpTo(tokens, k) = k
    BY <1>6 DEF Pending, WrittenUpTo
  <2> QED BY <1>4, <2>4, <2>7, <2>9, <2>10 DEF ParsedUpTo
<1> QED BY <1>5, <1>6

(* The blocks of a file have its texts, each in the style it stands in. *)
HasTexts(blocks, tokens) ==
  /\ Cardinality(Written(blocks)) = Cardinality(Texts(tokens))
  /\ \A i \in Texts(tokens), j \in Written(blocks) :
       Rank(i, Texts(tokens)) = Rank(j, Written(blocks))
         => blocks[j] = Block(tokens[i].text, StyleLink(tokens, i))

LEMMA AllWritten ==
  ASSUME NEW tokens, tokens \in Seq(Tokens), Tokenized(tokens), NEW blocks, NEW t, ShowsTexts(t, blocks),
         HasCollected(t, Len(tokens), Texts(tokens), Styled(tokens))
  PROVE  HasTexts(blocks, tokens)
<1>1. PICK n, m, texts, shown : n = Len(tokens) /\ m = Len(blocks) /\ texts = Texts(tokens) /\ shown = Written(blocks)
  OBVIOUS
<1>2. m \in Nat /\ \A j \in shown : j \in 1 .. m
  <2>1. IsSeq(blocks)
    BY DEF ShowsTexts
  <2>2. m \in Nat /\ DOMAIN blocks = 1 .. m
    BY <1>1, <2>1, SeqFacts
  <2> QED BY <1>1, <2>2 DEF Written
<1>3. n \in Nat /\ DOMAIN tokens = 1 .. n /\ \A j \in texts : j \in 1 .. n
  BY <1>1, TextsAre
<1>4. HasCollected(t, n, texts, Styled(tokens)) /\ HasCollected(t, m, shown, blocks)
  BY <1>1 DEF ShowsTexts
<1>5. Len(t) = Cardinality(texts) /\ Len(t) = Cardinality(shown)
  BY <1>2, <1>3, <1>4, AllRanked DEF HasCollected
<1>6. ASSUME NEW i \in texts, NEW j \in shown, Rank(i, texts) = Rank(j, shown)
      PROVE  blocks[j] = Block(tokens[i].text, StyleLink(tokens, i))
  <2>1. t[Rank(i, texts)] = Styled(tokens)[i]
    BY <1>3, <1>4 DEF HasCollected
  <2>2. t[Rank(j, shown)] = blocks[j]
    BY <1>2, <1>4 DEF HasCollected
  <2>3. Styled(tokens)[i] = Block(tokens[i].text, StyleLink(tokens, i))
    BY <1>3 DEF Styled
  <2> QED BY <1>6, <2>1, <2>2, <2>3
<1> QED BY <1>1, <1>5, <1>6 DEF HasTexts

LEMMA HtmlShows ==
  ASSUME NEW tokens, tokens \in Seq(Tokens), Tokenized(tokens)
  PROVE  HasTexts(Html(tokens).blocks, tokens)
<1>1. PICK h : Parsed(h, tokens)
  BY HtmlTrace
<1>2. PICK n : n = Len(tokens)
  OBVIOUS
<1>3. PICK A : A = {k \in 0 .. n : ParsedUpTo(h[k], tokens, k)}
  OBVIOUS
<1>4. n \in Nat
  BY <1>2, TextsAre
<1>5. 0 \in A
  <2>1. h[0] = HtmlStart /\ DocForm(h[0])
    BY <1>1, <1>2, <1>4 DEF Parsed
  <2>2. InTitle(tokens, 0) = FALSE /\ StyleLink(tokens, 0) = NoRef
    <3>1. 1 \in Nat \ {0}
      OBVIOUS
    <3> QED BY <3>1, MarksStep
  <2>3. ~Pending(tokens, 0) /\ WrittenUpTo(tokens, 0) = 0
    BY DEF Pending, WrittenUpTo
  <2>4. HasCollected(<<>>, 0, Texts(tokens), Styled(tokens))
    BY TextsAre, NoneCollected
  <2>5. ShowsTexts(<<>>, <<>>)
    <3>1. <<>> \in Seq({}) /\ Len(<<>>) = 0 /\ DOMAIN <<>> = {}
      OBVIOUS
    <3>2. \A j \in Written(<<>>) : j \in Nat \ {0}
      BY <3>1 DEF Written
    <3> QED BY <3>1, <3>2, NoneCollected DEF ShowsTexts, IsSeq
  <2>6. ParsedUpTo(h[0], tokens, 0)
    <3>1. HtmlStart.blocks = <<>> /\ HtmlStart.buf = "" /\ HtmlStart.href = NoRef /\ HtmlStart.inTitle = FALSE
      BY DEF HtmlStart
    <3>2. h[0].inTitle = InTitle(tokens, 0) /\ h[0].href = StyleLink(tokens, 0) /\ h[0].buf = ""
      BY <2>1, <2>2, <3>1
    <3>3. ShowsTexts(<<>>, h[0].blocks)
      BY <2>1, <2>5, <3>1
    <3> QED BY <2>1, <2>3, <2>4, <3>2, <3>3 DEF ParsedUpTo
  <2> QED BY <1>3, <1>4, <2>6
<1>6. ASSUME NEW k \in 1 .. n, k - 1 \in A  PROVE k \in A
  <2>1. ParsedUpTo(h[k - 1], tokens, k - 1) /\ h[k] = HtmlStep(h[k - 1], tokens[k])
    BY <1>1, <1>2, <1>3, <1>6 DEF Parsed
  <2>2. ParsedUpTo(h[k], tokens, k)
    BY <1>2, <2>1, TokenKeeps
  <2> QED BY <1>3, <1>4, <2>2
<1>7. ParsedUpTo(h[n], tokens, n)
  <2>1. \A k \in 0 .. n : k \in A
    BY <1>4, <1>5, <1>6, Stepwise
  <2> QED BY <1>3, <1>4, <2>1
<1>8. PICK d : d = h[n]
  OBVIOUS
<1>9. PICK t : ShowsTexts(t, d.blocks) /\ HasCollected(t, WrittenUpTo(tokens, n), Texts(tokens), Styled(tokens))
  BY <1>7, <1>8 DEF ParsedUpTo
<1>10. Html(tokens).blocks = FlushedBlocks(d) /\ d.href = StyleLink(tokens, n)
  BY <1>1, <1>2, <1>7, <1>8, FlushIs DEF Parsed, ParsedUpTo
<1>11. CASE ~Pending(tokens, n)
  <2>1. d.buf = "" /\ WrittenUpTo(tokens, n) = n
    BY <1>7, <1>8, <1>11 DEF ParsedUpTo, WrittenUpTo
  <2>2. Html(tokens).blocks = d.blocks
    BY <1>10, <2>1 DEF FlushedBlocks
  <2> QED BY <1>2, <1>9, <2>1, <2>2, AllWritten
<1>12. CASE Pending(tokens, n)
  <2>1. /\ n \in Nat \ {0} /\ n \in DOMAIN tokens /\ d.buf = tokens[n].text
        /\ HasCollected(t, n - 1, Texts(tokens), Styled(tokens))
    <3>1. DOMAIN tokens = 1 .. Len(tokens)
      BY TextsAre
    <3>2. n \in Nat \ {0} /\ n \in DOMAIN tokens
      <4>1. n > 0
        BY <1>12 DEF Pending
      <4>2. n \in Nat \ {0} /\ n \in 1 .. n
        BY <1>4, <4>1
      <4> QED BY <1>2, <3>1, <4>2
    <3>3. d.buf = tokens[n].text
      BY <1>7, <1>8, <1>12 DEF ParsedUpTo
    <3>4. WrittenUpTo(tokens, n) = n - 1
      BY <1>12 DEF WrittenUpTo
    <3> QED BY <1>9, <3>2, <3>3, <3>4
  <2>2. ~Closed(tokens, n)
    <3>1. \A j \in n + 1 .. Len(tokens) : FALSE
      BY <1>2, <1>4
    <3> QED BY <3>1 DEF Closed
  <2>3. n \in Texts(tokens) <=> d.buf # ""
    BY <2>1, <2>2 DEF Texts
  <2>4. /\ n \in Texts(tokens) => HasCollected(Append(t, Styled(tokens)[n]), n, Texts(tokens), Styled(tokens))
        /\ n \notin Texts(tokens) => HasCollected(t, n, Texts(tokens), Styled(tokens))
    BY <2>1, TextsAre, CollectStep
  <2>5. CASE d.buf # ""
    <3>1. PICK x : x = Block(d.buf, d.href)
      OBVIOUS
    <3>2. Styled(tokens)[n] = x /\ x.text # ""
      BY <1>10, <2>1, <2>5, <3>1 DEF Styled, Block
    <3>3. Html(tokens).blocks = Append(d.blocks, x)
      BY <1>10, <2>5, <3>1 DEF FlushedBlocks
    <3>4. ShowsTexts(Append(t, x), Append(d.blocks, x))
      BY <1>9, <3>2, AppendShown
    <3> QED BY <1>2, <2>3, <2>4, <2>5, <3>2, <3>3, <3>4, AllWritten
  <2>6. CASE d.buf = ""
    <3>1. Html(tokens).blocks = d.blocks
      BY <1>10, <2>6 DEF FlushedBlocks
    <3> QED BY <1>2, <1>9, <2>3, <2>4, <2>6, <3>1, AllWritten
  <2> QED BY <2>5, <2>6
<1> QED BY <1>11, <1>12

(* That style has the link a text stands in, unless a block began or ended   *)
(* in the link, which leaves a style with none.                              *)
LEMMA StyleIs ==
  ASSUME NEW tokens, NEW n \in Nat
  PROVE  StyleLink(tokens, n) = LinkAround(tokens, n) \/ (BlockInLink(tokens, n) /\ StyleLink(tokens, n) = NoRef)
<1> DEFINE a(k) == Latest(tokens, k, {"a", "/a"})
           b(k) == Latest(tokens, k, BlockTags)
           m(k) == Latest(tokens, k, LinkMarks)
           Fits(k) == /\ a(k) \in 0 .. k /\ b(k) \in 0 .. k
                      /\ m(k) = a(k) \/ (m(k) = b(k) /\ b(k) > a(k) /\ tokens[b(k)].tag \in BlockTags)
<1>1. LinkMarks = BlockTags \cup {"a", "/a"} /\ "a" \notin BlockTags /\ "/a" \notin BlockTags
  BY DEF LinkMarks, BlockTags, Resetting
<1>2. PICK A : A = {k \in 0 .. n : Fits(k)}
  OBVIOUS
<1>3. 0 \in A
  <2>1. a(0) = 0 /\ b(0) = 0 /\ m(0) = 0
    <3>1. 1 \in Nat \ {0}
      OBVIOUS
    <3> QED BY <3>1, LatestStep
  <2>2. Fits(0)
    BY <2>1
  <2> QED BY <1>2, <2>2
<1>4. ASSUME NEW k \in 1 .. n, k - 1 \in A  PROVE k \in A
  <2>1. PICK p \in Nat : p = k - 1
    OBVIOUS
  <2>2. Fits(p) /\ k \in Nat \ {0} /\ k = p + 1
    BY <1>2, <1>4, <2>1
  <2>3. /\ a(k) = IF tokens[k].tag \in {"a", "/a"} THEN k ELSE a(p)
        /\ b(k) = IF tokens[k].tag \in BlockTags THEN k ELSE b(p)
        /\ m(k) = IF tokens[k].tag \in LinkMarks THEN k ELSE m(p)
    BY <2>1, <2>2, LatestStep
  <2> HIDE DEF a, b, m
  <2>4. CASE tokens[k].tag \in {"a", "/a"}
    <3>1. a(k) = k /\ m(k) = k /\ b(k) = b(p)
      BY <1>1, <2>3, <2>4
    <3> QED BY <1>2, <2>2, <3>1
  <2>5. CASE tokens[k].tag \in BlockTags
    <3>1. a(k) = a(p) /\ m(k) = k /\ b(k) = k
      BY <1>1, <2>3, <2>5
    <3>2. Fits(k)
      BY <2>2, <2>5, <3>1
    <3> QED BY <1>2, <3>2
  <2>6. CASE tokens[k].tag \notin LinkMarks
    <3>1. a(k) = a(p) /\ m(k) = m(p) /\ b(k) = b(p)
      BY <1>1, <2>3, <2>6
    <3>2. Fits(k)
      BY <2>2, <3>1
    <3> QED BY <1>2, <3>2
  <2> QED BY <1>1, <2>4, <2>5, <2>6
<1>5. Fits(n)
  <2>1. \A k \in 0 .. n : k \in A
    BY <1>3, <1>4, Stepwise
  <2> QED BY <1>2, <2>1
<1>6. CASE m(n) = a(n)
  BY <1>6 DEF StyleLink, LinkAround
<1>7. CASE m(n) = b(n) /\ b(n) > a(n) /\ tokens[b(n)].tag \in BlockTags
  <2>1. StyleLink(tokens, n) = NoRef
    BY <1>1, <1>7 DEF StyleLink
  <2> QED BY <1>7, <2>1 DEF BlockInLink
<1> QED BY <1>5, <1>6, <1>7

(* Answers, whole and broken off. *)
OnlyLinksLead(body) == \A i \in DOMAIN body : body[i].kind # "link" => body[i].ref = NoRef

LEMMA AnswerIs ==
  ASSUME NEW url
  PROVE  /\ Answer(url).meta \in Refs /\ Answer(url).body \in Seq(GemLines) /\ OnlyLinksLead(Answer(url).body)
         /\ Len(Answer(url).body) \in Nat
<1>1. CASE url \in DOMAIN Site
  <2>1. /\ Answer(url).meta \in Refs /\ Answer(url).body \in Seq(GemLines)
        /\ \A line \in LinesOf(Answer(url)) : line.kind # "link" => line.ref = NoRef
    BY <1>1, GeminiAssumption DEF Answer
  <2>2. \A i \in DOMAIN Answer(url).body : Answer(url).body[i] \in LinesOf(Answer(url))
    BY DEF LinesOf, Range
  <2> QED BY <2>1, <2>2 DEF OnlyLinksLead
<1>2. CASE url \notin DOMAIN Site
  <2>1. Answer(url).meta = NoRef /\ Answer(url).body = <<>>
    BY <1>2 DEF Answer, NotFound
  <2>2. <<>> \in Seq(GemLines) /\ DOMAIN <<>> = {} /\ Len(<<>>) = 0
    OBVIOUS
  <2> QED BY <2>1, <2>2, NoRefTyped DEF OnlyLinksLead
<1> QED BY <1>1, <1>2

LEMMA PrefixIs ==
  ASSUME NEW body, body \in Seq(GemLines), OnlyLinksLead(body), NEW n, n \in 0 .. Len(body)
  PROVE  /\ SubSeq(body, 1, n) \in Seq(GemLines) /\ Len(SubSeq(body, 1, n)) = n
         /\ OnlyLinksLead(SubSeq(body, 1, n))
<1>1. PICK p : p = SubSeq(body, 1, n)
  OBVIOUS
<1>2. n \in Nat /\ n <= Len(body) /\ \A k \in 1 .. n : body[k] \in GemLines
  OBVIOUS
<1>3. /\ p \in Seq(GemLines) /\ Len(p) = (IF 1 <= n THEN n - 1 + 1 ELSE 0)
      /\ \A k \in 1 .. n - 1 + 1 : p[k] = body[1 + k - 1]
  BY <1>1, <1>2, SubSeqProperties
<1>4. Len(p) = n /\ DOMAIN p = 1 .. n /\ \A k \in 1 .. n : p[k] = body[k]
  BY <1>2, <1>3
<1>5. OnlyLinksLead(p)
  <2>1. \A k \in 1 .. n : k \in DOMAIN body
    BY <1>2
  <2> QED BY <1>4, <2>1 DEF OnlyLinksLead
<1> QED BY <1>1, <1>3, <1>4, <1>5

LEMMA LinesAre ==
  ASSUME NEW url, NEW line \in LinesOf(Answer(url))
  PROVE  line \in GemLines
<1>1. PICK body : body = Answer(url).body
  OBVIOUS
<1>2. body \in Seq(GemLines)
  BY <1>1, AnswerIs
<1>3. CASE line \in Range(body)
  BY <1>2, <1>3 DEF Range
<1>4. CASE line \notin Range(body)
  <2>1. PICK whole \in Range(body) : line \in Fragments[whole]
    BY <1>1, <1>4 DEF LinesOf
  <2>2. body # <<>>
    BY <2>1 DEF Range
  <2>3. url \in DOMAIN Site /\ body = Site[url].body
    BY <1>1, <2>2 DEF Answer, NotFound
  <2> QED BY <2>1, <2>3, GeminiAssumption
<1> QED BY <1>3, <1>4

(* What is read of an answer: whole lines of it, and of the last perhaps     *)
(* only a part.                                                              *)
LEMMA BeginningIs ==
  ASSUME NEW url, NEW n \in Nat \ {0}, NEW body \in Received(Answer(url), n)
  PROVE  /\ body \in Seq(GemLines) /\ OnlyLinksLead(body)
         /\ \A i \in DOMAIN body : body[i] \in LinesOf(Answer(url))
<1>1. PICK answer, whole : answer = Answer(url) /\ whole = answer.body
  OBVIOUS
<1>2. whole \in Seq(GemLines) /\ OnlyLinksLead(whole) /\ Len(whole) \in Nat
  BY <1>1, AnswerIs
<1>3. \A i \in DOMAIN whole : whole[i] \in LinesOf(answer)
  BY <1>1 DEF LinesOf, Range
<1>4. CASE n > Len(whole)
  <2>1. body = whole
    BY <1>1, <1>4 DEF Received
  <2> QED BY <1>1, <1>2, <1>3, <2>1
<1>5. CASE n <= Len(whole)
  <2>1. PICK part, lines : /\ part \in Fragments[whole[n]] /\ lines = SubSeq(whole, 1, n - 1)
                           /\ body = Append(lines, part)
    <3>1. n \in Nat /\ ~(n > Len(whole))
      BY <1>2, <1>5
    <3>2. Received(answer, n) = {Append(SubSeq(whole, 1, n - 1), part) : part \in Fragments[whole[n]]}
      BY <1>1, <3>1, Zenon DEF Received
    <3>3. body \in {Append(SubSeq(whole, 1, n - 1), part) : part \in Fragments[whole[n]]}
      BY <1>1, <3>2
    <3>4. PICK part \in Fragments[whole[n]] : body = Append(SubSeq(whole, 1, n - 1), part)
      BY <3>3
    <3> QED BY <3>4
  <2>2. n \in DOMAIN whole /\ n - 1 \in 0 .. Len(whole)
    BY <1>2, <1>5
  <2>3. lines \in Seq(GemLines) /\ Len(lines) = n - 1 /\ OnlyLinksLead(lines)
    BY <1>2, <2>1, <2>2, PrefixIs
  <2>4. \A i \in 1 .. n - 1 : lines[i] = whole[i]
    BY <1>2, <2>1, <2>2
  <2>5. part \in GemLines /\ part \in LinesOf(answer) /\ (part.kind # "link" => part.ref = NoRef)
    <3>1. whole # <<>>
      BY <1>2, <2>2
    <3>2. url \in DOMAIN Site /\ answer = Site[url]
      BY <1>1, <3>1 DEF Answer, NotFound
    <3>3. whole[n] \in Range(answer.body)
      BY <1>1, <2>2 DEF Range
    <3>4. part \in LinesOf(answer)
      BY <2>1, <3>3 DEF LinesOf
    <3>5. Fragments[whole[n]] \subseteq GemLines
      BY <3>2, <3>3, GeminiAssumption
    <3>6. \A line \in LinesOf(answer) : line.kind # "link" => line.ref = NoRef
      BY <3>2, GeminiAssumption
    <3> QED BY <2>1, <3>4, <3>5, <3>6
  <2>6. /\ body \in Seq(GemLines) /\ Len(body) = n /\ DOMAIN body = 1 .. n
        /\ body[n] = part /\ \A i \in 1 .. n - 1 : body[i] = whole[i]
    BY <2>1, <2>3, <2>4, <2>5
  <2>7. \A i \in 1 .. n : i = n \/ (i \in 1 .. n - 1 /\ i \in DOMAIN whole)
    BY <1>2, <1>5
  <2>8. OnlyLinksLead(body)
    BY <1>2, <2>5, <2>6, <2>7 DEF OnlyLinksLead
  <2>9. \A i \in DOMAIN body : body[i] \in LinesOf(answer)
    BY <1>3, <2>5, <2>6, <2>7
  <2> QED BY <1>1, <2>6, <2>8, <2>9
<1> QED BY <1>2, <1>4, <1>5

LEMMA BeginningsAre ==
  ASSUME NEW url, NEW body \in Beginnings(Answer(url))
  PROVE  /\ body \in Seq(GemLines) /\ OnlyLinksLead(body)
         /\ \A i \in DOMAIN body : body[i] \in LinesOf(Answer(url))
<1>1. PICK n \in 1 .. Len(Answer(url).body) + 1 : body \in Received(Answer(url), n)
  BY DEF Beginnings
<1>2. n \in Nat \ {0}
  BY AnswerIs
<1> QED BY <1>1, <1>2, BeginningIs

(* The lines of a page as it is shown, and its links, are those of its body. *)
LEMMA PlacesKept ==
  ASSUME NEW body, body \in Seq(GemLines), OnlyLinksLead(body), NEW lines, lines = Gemtext(body)
  PROVE  /\ lines \in Seq(GemLines) /\ Len(lines) = Len(body)
         /\ {i \in 1 .. Len(lines) : lines[i].kind = "link"} = LinkPlaces(body)
         /\ {i \in 1 .. Len(lines) : lines[i].kind # "toggle"} = ShownPlaces(body)
         /\ \A i \in LinkPlaces(body) : lines[i] = body[i]
         /\ \A i \in ShownPlaces(body) : lines[i].ref = IF i \in LinkPlaces(body) THEN body[i].ref ELSE NoRef
<1>1. /\ lines \in Seq(GemLines) /\ Len(lines) = Len(body) /\ DOMAIN body = 1 .. Len(body)
      /\ \A i \in 1 .. Len(body) : lines[i] = Plain(body, i)
  BY GemtextIs
<1>2. TextLine.kind = "text" /\ TextLine.ref = NoRef
  BY DEF TextLine, GemLine
<1>3. ASSUME NEW i \in 1 .. Len(body)
      PROVE  /\ lines[i].kind = "link" <=> i \in LinkPlaces(body)
             /\ lines[i].kind # "toggle" <=> i \in ShownPlaces(body)
             /\ i \in LinkPlaces(body) => lines[i] = body[i]
             /\ i \in ShownPlaces(body) => lines[i].ref = IF i \in LinkPlaces(body) THEN body[i].ref ELSE NoRef
  <2>1. CASE body[i].kind # "toggle" /\ Preformatted(body, i)
    <3>1. lines[i] = TextLine
      BY <1>1, <2>1 DEF Plain
    <3> QED BY <1>1, <1>2, <2>1, <3>1 DEF LinkPlaces, ShownPlaces
  <2>2. CASE ~(body[i].kind # "toggle" /\ Preformatted(body, i))
    <3>1. lines[i] = body[i]
      BY <1>1, <2>2 DEF Plain
    <3> QED BY <1>1, <2>2, <3>1 DEF LinkPlaces, ShownPlaces, OnlyLinksLead
  <2> QED BY <2>1, <2>2
<1>4. ASSUME NEW i  PROVE (i \in LinkPlaces(body) => i \in 1 .. Len(body)) /\ (i \in ShownPlaces(body) => i \in 1 .. Len(body))
  BY <1>1 DEF LinkPlaces, ShownPlaces
<1>5. {i \in 1 .. Len(lines) : lines[i].kind = "link"} = LinkPlaces(body)
  BY <1>1, <1>3, <1>4
<1>6. {i \in 1 .. Len(lines) : lines[i].kind # "toggle"} = ShownPlaces(body)
  BY <1>1, <1>3, <1>4
<1>7. \A i \in LinkPlaces(body) : lines[i] = body[i]
  BY <1>3, <1>4
<1>8. \A i \in ShownPlaces(body) : lines[i].ref = IF i \in LinkPlaces(body) THEN body[i].ref ELSE NoRef
  BY <1>3, <1>4
<1> QED BY <1>1, <1>5, <1>6, <1>7, <1>8

LEMMA LinksMade ==
  ASSUME NEW body, body \in Seq(GemLines), OnlyLinksLead(body), NEW links, links = CollectLinks(Gemtext(body)),
         NEW places, places = LinkPlaces(body), NEW url, url = Base
  PROVE  /\ IsSeq(links) /\ Len(links) = Cardinality(places)
         /\ \A i \in places : links[Rank(i, places)] = Absolute(url, body[i].ref)
         /\ \A m \in 1 .. Len(links) : \E i \in DOMAIN body : links[m] = Absolute(url, body[i].ref)
<1>1. PICK lines, n : lines = Gemtext(body) /\ n = Len(lines)
  OBVIOUS
<1>2. /\ lines \in Seq(GemLines) /\ n = Len(body) /\ n \in Nat
      /\ {i \in 1 .. n : lines[i].kind = "link"} = places
      /\ \A i \in places : lines[i] = body[i]
  BY <1>1, PlacesKept
<1>3. PICK v : v = [i \in 1 .. n |-> Absolute(Base, lines[i].ref)]
  OBVIOUS
<1>4. HasCollected(links, n, places, v)
  BY <1>1, <1>2, <1>3, LinksAre
<1>5. \A j \in places : j \in 1 .. n
  BY <1>2
<1>6. Rank(n, places) = Cardinality(places)
  BY <1>2, <1>5, AllRanked
<1>7. \A i \in places : v[i] = Absolute(url, body[i].ref) /\ i <= n /\ i \in DOMAIN body
  BY <1>2, <1>3, <1>5
<1> QED BY <1>1, <1>4, <1>6, <1>7 DEF HasCollected

LEMMA BlocksMade ==
  ASSUME NEW body, body \in Seq(GemLines), OnlyLinksLead(body), NEW blocks, blocks = ToBlocks(Gemtext(body))
  PROVE  /\ IsSeq(blocks) /\ Len(blocks) = Cardinality(ShownPlaces(body))
         /\ \A i \in ShownPlaces(body) :
              blocks[Rank(i, ShownPlaces(body))].href = IF i \in LinkPlaces(body) THEN body[i].ref ELSE NoRef
<1>1. PICK lines, n, places : lines = Gemtext(body) /\ n = Len(lines) /\ places = ShownPlaces(body)
  OBVIOUS
<1>2. /\ lines \in Seq(GemLines) /\ n = Len(body) /\ n \in Nat
      /\ {i \in 1 .. n : lines[i].kind # "toggle"} = places
      /\ \A i \in places : lines[i].ref = IF i \in LinkPlaces(body) THEN body[i].ref ELSE NoRef
  BY <1>1, PlacesKept
<1>3. PICK v : v = [i \in 1 .. n |-> Block("line", lines[i].ref)]
  OBVIOUS
<1>4. HasCollected(blocks, n, places, v)
  BY <1>1, <1>2, <1>3, BlocksAre
<1>5. \A j \in places : j \in 1 .. n
  BY <1>2
<1>6. Rank(n, places) = Cardinality(places)
  BY <1>2, <1>5, AllRanked
<1>7. \A i \in places : v[i].href = lines[i].ref /\ i <= n
  BY <1>2, <1>3, <1>5 DEF Block
<1> QED BY <1>1, <1>2, <1>4, <1>6, <1>7 DEF HasCollected

-------------------------------------------------------------------------------
(* A fetch: its url is the one that was asked for, taken apart, its host is  *)
(* known as soon as there is a connection, and what has come is a beginning  *)
(* of what that url answers.                                                 *)

Called == fetch.url = ParseUrl(nav.url) /\ ~BadUrl(nav.url)
Known == Host(fetch.url) \in Hosts \cup Literals
BodyOf(url) == Answer(url).body
ResultFits ==
  /\ fetch.result.status = Answer(fetch.url).status /\ fetch.result.meta = Answer(fetch.url).meta
  /\ fetch.result.body \in Beginnings(Answer(fetch.url))

NavForm(n) == n = [mode |-> n.mode, url |-> n.url, push |-> n.push, depth |-> n.depth, prev |-> n.prev]
FetchForm(f) == f = [phase |-> f.phase, url |-> f.url, spins |-> f.spins, got |-> f.got, result |-> f.result]
PeerForm(p) == p = [more |-> p.more, closed |-> p.closed]

NavFits == NavForm(nav) /\ (nav.mode = "keys" => nav = NoNav)
CallFits ==
  /\ fetch.phase # "idle" => nav.mode = "fetch"
  /\ fetch.phase \in {"resolve", "connect", "handshake", "request", "read"} => Called
  /\ fetch.phase \in {"connect", "handshake", "request", "read"} => Known
  /\ fetch.phase = "done" /\ fetch.result.ok => Called /\ Known /\ ResultFits
CountsFit ==
  /\ fetch.phase \in {"resolve", "connect", "handshake", "request"} => fetch.got = 0
  /\ fetch.phase = "read" => fetch.got \in 0 .. Len(BodyOf(fetch.url)) + 1
ProtoInv == FetchForm(fetch) /\ PeerForm(peer) /\ NavFits /\ CallFits /\ CountsFit

LEMMA IdleFits ==
  ASSUME NavFits', fetch' = Idle, peer' = NoPeer
  PROVE  ProtoInv'
<1>1. fetch'.phase = "idle" /\ FetchForm(fetch') /\ PeerForm(peer')
  BY DEF Idle, NoPeer, FetchForm, PeerForm
<1> QED BY <1>1 DEF ProtoInv, CallFits, CountsFit

LEMMA ProtoStarts == ProtoInit => ProtoInv
<1>1. SUFFICES ASSUME ProtoInit  PROVE ProtoInv
  OBVIOUS
<1>2. NavForm(nav)
  BY <1>1 DEF ProtoInit, NoNav, NavForm
<1>3. fetch.phase = "idle" /\ FetchForm(fetch) /\ PeerForm(peer)
  BY <1>1 DEF ProtoInit, Idle, NoPeer, FetchForm, PeerForm
<1> QED BY <1>1, <1>2, <1>3 DEF ProtoInv, NavFits, CallFits, CountsFit, ProtoInit

(* Between the fetches the clients may do with the navigation what they want. *)
LEMMA QuietKeepsProto ==
  ASSUME ProtoInv, fetch.phase = "idle", NavFits', UNCHANGED <<fetch, peer>>
  PROVE  ProtoInv'
<1>1. fetch' = fetch /\ peer' = peer
  OBVIOUS
<1> QED BY <1>1 DEF ProtoInv, CallFits, CountsFit

LEMMA NoResultIs == NoResult.ok = FALSE /\ \A e : Failure(e).ok = FALSE
<1>1. \A e : Failure(e).ok = FALSE
  BY DEF Failure, NoResult
<1> QED BY <1>1 DEF NoResult

LEMMA BeginKeeps == ProtoInv /\ Begin => ProtoInv'
<1>1. SUFFICES ASSUME ProtoInv, Begin  PROVE ProtoInv'
  OBVIOUS
<1>2. nav' = nav /\ peer' = peer /\ nav.mode = "fetch"
  BY <1>1 DEF Begin
<1>3. CASE fetch'.phase = "done" /\ FetchForm(fetch') /\ fetch'.result.ok = FALSE
  BY <1>1, <1>2, <1>3 DEF ProtoInv, NavFits, CallFits, CountsFit
<1>4. CASE /\ ~BadUrl(nav.url) /\ FetchForm(fetch') /\ fetch'.phase = "resolve"
           /\ fetch'.url = ParseUrl(nav.url) /\ fetch'.got = 0
  BY <1>1, <1>2, <1>4 DEF ProtoInv, NavFits, CallFits, CountsFit, Called
<1>5. CASE BadUrl(nav.url)
  <2>1. fetch' = [Idle EXCEPT !.phase = "done", !.result = Failure("BadUrl")]
    BY <1>1, <1>5 DEF Begin
  <2>2. fetch'.phase = "done" /\ FetchForm(fetch') /\ fetch'.result = Failure("BadUrl")
    BY <2>1 DEF Idle, FetchForm
  <2> QED BY <1>3, <2>2, NoResultIs
<1>6. CASE ~BadUrl(nav.url)
  <2>1. PICK called : called = [Idle EXCEPT !.url = ParseUrl(nav.url)]
    OBVIOUS
  <2>2. \/ fetch' = [called EXCEPT !.phase = "resolve"]
        \/ fetch' = [called EXCEPT !.phase = "done", !.result = Failure("NoNic")]
    BY <1>1, <1>6, <2>1 DEF Begin
  <2>3. called = [phase |-> "idle", url |-> ParseUrl(nav.url), spins |-> 0, got |-> 0, result |-> NoResult]
    BY <2>1 DEF Idle
  <2>4. CASE fetch' = [called EXCEPT !.phase = "resolve"]
    <3>1. FetchForm(fetch') /\ fetch'.phase = "resolve" /\ fetch'.url = ParseUrl(nav.url) /\ fetch'.got = 0
      BY <2>3, <2>4 DEF FetchForm
    <3> QED BY <1>4, <1>6, <3>1
  <2>5. CASE fetch' = [called EXCEPT !.phase = "done", !.result = Failure("NoNic")]
    <3>1. fetch'.phase = "done" /\ FetchForm(fetch') /\ fetch'.result = Failure("NoNic")
      BY <2>3, <2>5 DEF FetchForm
    <3> QED BY <1>3, <3>1, NoResultIs
  <2> QED BY <2>2, <2>4, <2>5
<1> QED BY <1>5, <1>6

(* What the steps of a fetch do with it. *)
LEMMA FetchMoves ==
  ASSUME FetchForm(fetch)
  PROVE  /\ \A phase : Enter(phase) => /\ FetchForm(fetch') /\ fetch'.phase = phase /\ fetch'.url = fetch.url
                                       /\ fetch'.got = fetch.got /\ fetch'.result = fetch.result
         /\ \A error : Fail(error) => FetchForm(fetch') /\ fetch'.phase = "done" /\ fetch'.result.ok = FALSE
         /\ Spin => /\ FetchForm(fetch') /\ fetch'.phase = fetch.phase /\ fetch'.url = fetch.url
                    /\ fetch'.got = fetch.got /\ fetch'.result = fetch.result
<1>1. ASSUME NEW phase, Enter(phase)
      PROVE  /\ FetchForm(fetch') /\ fetch'.phase = phase /\ fetch'.url = fetch.url
             /\ fetch'.got = fetch.got /\ fetch'.result = fetch.result
  BY <1>1 DEF Enter, FetchForm
<1>2. ASSUME NEW error, Fail(error)
      PROVE  FetchForm(fetch') /\ fetch'.phase = "done" /\ fetch'.result.ok = FALSE
  <2>1. FetchForm(fetch') /\ fetch'.phase = "done" /\ fetch'.result = Failure(error)
    BY <1>2 DEF Fail, FetchForm
  <2> QED BY <2>1, NoResultIs
<1>3. ASSUME Spin
      PROVE  /\ FetchForm(fetch') /\ fetch'.phase = fetch.phase /\ fetch'.url = fetch.url
             /\ fetch'.got = fetch.got /\ fetch'.result = fetch.result
  BY <1>3 DEF Spin, FetchForm
<1> QED BY <1>1, <1>2, <1>3

(* A fetch that failed, or that waits. *)
LEMMA FailKeeps ==
  ASSUME ProtoInv, fetch.phase # "idle", nav' = nav, peer' = peer, NEW error, Fail(error)
  PROVE  ProtoInv'
<1>1. FetchForm(fetch') /\ fetch'.phase = "done" /\ fetch'.result.ok = FALSE
  BY FetchMoves DEF ProtoInv
<1> QED BY <1>1 DEF ProtoInv, NavFits, CallFits, CountsFit

LEMMA SpinKeeps ==
  ASSUME ProtoInv, nav' = nav, peer' = peer, Spin
  PROVE  ProtoInv'
<1>1. /\ FetchForm(fetch') /\ fetch'.phase = fetch.phase /\ fetch'.url = fetch.url
      /\ fetch'.got = fetch.got /\ fetch'.result = fetch.result
  BY FetchMoves DEF ProtoInv
<1> QED BY <1>1 DEF ProtoInv, NavFits, CallFits, CountsFit, Called, Known, ResultFits

LEMMA ResolveKeeps == ProtoInv /\ Resolve => ProtoInv'
<1>1. SUFFICES ASSUME ProtoInv, Resolve  PROVE ProtoInv'
  OBVIOUS
<1>2. nav' = nav /\ peer' = peer /\ fetch.phase = "resolve" /\ FetchForm(fetch)
  BY <1>1 DEF Resolve, ProtoInv
<1>3. CASE Known /\ Enter("connect")
  <2>1. /\ FetchForm(fetch') /\ fetch'.phase = "connect" /\ fetch'.url = fetch.url /\ fetch'.got = fetch.got
    BY <1>2, <1>3, FetchMoves
  <2> QED BY <1>1, <1>2, <1>3, <2>1 DEF ProtoInv, NavFits, CallFits, CountsFit, Called, Known
<1>4. CASE Spin
  BY <1>1, <1>2, <1>4, SpinKeeps
<1>5. CASE Fail("DnsFailed")
  BY <1>1, <1>2, <1>5, FailKeeps
<1> QED BY <1>1, <1>3, <1>4, <1>5 DEF Resolve, Known

LEMMA ConnectKeeps == ProtoInv /\ Connect => ProtoInv'
<1>1. SUFFICES ASSUME ProtoInv, Connect  PROVE ProtoInv'
  OBVIOUS
<1>2. nav' = nav /\ peer' = peer /\ fetch.phase = "connect" /\ FetchForm(fetch)
  BY <1>1 DEF Connect, ProtoInv
<1>3. CASE Enter("handshake")
  <2>1. /\ FetchForm(fetch') /\ fetch'.phase = "handshake" /\ fetch'.url = fetch.url /\ fetch'.got = fetch.got
    BY <1>2, <1>3, FetchMoves
  <2> QED BY <1>1, <1>2, <2>1 DEF ProtoInv, NavFits, CallFits, CountsFit, Called, Known
<1>4. CASE Spin
  BY <1>1, <1>2, <1>4, SpinKeeps
<1>5. ASSUME NEW error, Fail(error)  PROVE ProtoInv'
  BY <1>1, <1>2, <1>5, FailKeeps
<1> QED BY <1>1, <1>3, <1>4, <1>5 DEF Connect

LEMMA HandshakeKeeps == ProtoInv /\ (Handshake \/ SendRequest) => ProtoInv'
<1>1. SUFFICES ASSUME ProtoInv, Handshake \/ SendRequest  PROVE ProtoInv'
  OBVIOUS
<1>2. nav' = nav /\ peer' = peer /\ fetch.phase \in {"handshake", "request"} /\ FetchForm(fetch)
  BY <1>1 DEF Handshake, SendRequest, ProtoInv
<1>3. ASSUME NEW phase \in {"request", "read"}, Enter(phase)  PROVE ProtoInv'
  <2>1. /\ FetchForm(fetch') /\ fetch'.phase = phase /\ fetch'.url = fetch.url /\ fetch'.got = fetch.got
    BY <1>2, <1>3, FetchMoves
  <2>2. fetch'.got = 0 /\ Called' /\ Known'
    BY <1>1, <1>2, <2>1 DEF ProtoInv, CallFits, CountsFit, Called, Known
  <2>3. CountsFit'
    <3>1. 0 \in 0 .. Len(BodyOf(fetch'.url)) + 1
      BY AnswerIs DEF BodyOf
    <3> QED BY <2>1, <2>2, <3>1 DEF CountsFit
  <2>4. NavFits' /\ CallFits'
    BY <1>1, <1>2, <2>1, <2>2 DEF ProtoInv, NavFits, CallFits
  <2> QED BY <1>1, <1>2, <2>1, <2>3, <2>4 DEF ProtoInv
<1>4. CASE Spin
  BY <1>1, <1>2, <1>4, SpinKeeps
<1>5. CASE Fail("Tls")
  BY <1>1, <1>2, <1>5, FailKeeps
<1> QED BY <1>1, <1>3, <1>4, <1>5 DEF Handshake, SendRequest

(* The answer comes block by block, and its end takes what has come apart. *)
LEMMA ReadingKeeps == ProtoInv /\ (ReadBlock \/ ReadNothing \/ ReadEnd) => ProtoInv'
<1>1. SUFFICES ASSUME ProtoInv, ReadBlock \/ ReadNothing \/ ReadEnd  PROVE ProtoInv'
  OBVIOUS
<1>2. nav' = nav /\ fetch.phase = "read" /\ FetchForm(fetch) /\ PeerForm(peer) /\ Called /\ Known
  BY <1>1 DEF ReadBlock, ReadNothing, ReadEnd, ReadEnds, ProtoInv, CallFits
<1>3. PICK answer, most : answer = Answer(fetch.url) /\ most = Len(answer.body) + 1
  OBVIOUS
<1>4. most \in Nat /\ fetch.got \in 0 .. most /\ Complete(fetch.url) \in Nat /\ Complete(fetch.url) <= most
  <2>1. Len(answer.body) \in Nat
    BY <1>3, AnswerIs
  <2>2. fetch.got \in 0 .. most
    BY <1>1, <1>2, <1>3 DEF ProtoInv, CountsFit, BodyOf
  <2> QED BY <1>3, <2>1, <2>2 DEF Complete
<1>5. CASE ReadBlock
  <2>1. PICK n \in fetch.got .. Complete(fetch.url) : fetch' = [fetch EXCEPT !.got = n, !.spins = 0]
    BY <1>5 DEF ReadBlock
  <2>2. FetchForm(fetch') /\ fetch'.phase = "read" /\ fetch'.url = fetch.url /\ fetch'.got = n
    BY <1>2, <2>1 DEF FetchForm
  <2>3. n \in 0 .. most
    BY <1>4
  <2>4. CountsFit'
    BY <1>3, <2>2, <2>3 DEF CountsFit, BodyOf
  <2>5. NavFits' /\ CallFits'
    BY <1>1, <1>2, <2>2 DEF ProtoInv, NavFits, CallFits, Called, Known
  <2>6. PeerForm(peer')
    BY <1>2, <1>5 DEF ReadBlock, PeerForm
  <2> QED BY <2>2, <2>4, <2>5, <2>6 DEF ProtoInv
<1>6. CASE ReadNothing
  <2>1. Spin /\ peer' = peer
    BY <1>6 DEF ReadNothing
  <2> QED BY <1>1, <1>2, <2>1, SpinKeeps
<1>7. CASE ReadEnd
  <2>1. PICK result \in Results(fetch.got) : fetch' = [fetch EXCEPT !.phase = "done", !.result = result]
    BY <1>7 DEF ReadEnd
  <2>2. FetchForm(fetch') /\ fetch'.phase = "done" /\ fetch'.url = fetch.url /\ fetch'.result = result
    BY <1>2, <2>1 DEF FetchForm
  <2>3. ASSUME fetch'.result.ok  PROVE ResultFits'
    <3>1. fetch.got # 0
      <4>1. fetch.got = 0 => result = Failure("BadResponse")
        BY DEF Results
      <4> QED BY <2>2, <2>3, <4>1, NoResultIs
    <3>2. PICK body \in Received(answer, fetch.got) :
            result = [ok |-> TRUE, error |-> "", status |-> answer.status, meta |-> answer.meta, body |-> body]
      BY <1>3, <3>1, Zenon DEF Results
    <3>3. result.status = answer.status /\ result.meta = answer.meta /\ result.body = body
      BY <3>2
    <3>4. fetch.got \in 1 .. Len(answer.body) + 1
      BY <1>3, <1>4, <3>1
    <3>5. body \in Beginnings(answer)
      BY <3>2, <3>4 DEF Beginnings
    <3> QED BY <1>3, <2>2, <3>3, <3>5 DEF ResultFits
  <2>4. NavFits' /\ CallFits'
    BY <1>1, <1>2, <2>2, <2>3 DEF ProtoInv, NavFits, CallFits, Called, Known
  <2>5. CountsFit'
    BY <2>2 DEF CountsFit
  <2>6. PeerForm(peer')
    BY <1>2, <1>7 DEF ReadEnd
  <2> QED BY <2>2, <2>4, <2>5, <2>6 DEF ProtoInv
<1> QED BY <1>1, <1>5, <1>6, <1>7

LEMMA FetchKeepsProto == ProtoInv /\ FetchStep => ProtoInv' /\ nav' = nav
<1>1. FetchStep => nav' = nav
  BY DEF FetchStep, Begin, Resolve, Connect, Handshake, SendRequest, ReadBlock, ReadNothing, ReadEnd
<1> QED BY <1>1, BeginKeeps, ResolveKeeps, ConnectKeeps, HandshakeKeeps, ReadingKeeps DEF FetchStep

LEMMA PeerKeepsProto == ProtoInv /\ Peer => ProtoInv' /\ nav' = nav /\ fetch' = fetch
<1>1. SUFFICES ASSUME ProtoInv, Peer  PROVE ProtoInv' /\ nav' = nav /\ fetch' = fetch
  OBVIOUS
<1>2. nav' = nav /\ fetch' = fetch /\ fetch.phase = "read" /\ PeerForm(peer)
  BY <1>1 DEF Peer, PeerSends, PeerCloses, ProtoInv
<1>3. PeerForm(peer')
  <2>1. CASE PeerSends
    BY <1>2, <2>1 DEF PeerSends, PeerForm
  <2>2. CASE PeerCloses
    BY <2>2 DEF PeerCloses, PeerForm
  <2> QED BY <1>1, <2>1, <2>2 DEF Peer
<1>4. CountsFit'
  BY <1>1, <1>2 DEF ProtoInv, CountsFit, BodyOf
<1>5. NavFits' /\ CallFits'
  BY <1>1, <1>2 DEF ProtoInv, NavFits, CallFits, Called, Known, ResultFits
<1> QED BY <1>1, <1>2, <1>3, <1>4, <1>5 DEF ProtoInv

-------------------------------------------------------------------------------
(* The clients. *)

ConForm(c) == c = [open |-> c.open, history |-> c.history, base |-> c.base, links |-> c.links,
                   rows |-> c.rows, scroll |-> c.scroll, digits |-> c.digits]
WinForm(w) == w = [open |-> w.open, query |-> w.query, viewing |-> w.viewing, searched |-> w.searched,
                   doc |-> w.doc, current |-> w.current, scroll |-> w.scroll, height |-> w.height, hits |-> w.hits]

(* One of them runs, or none, and then nothing is under way. *)
OneRuns ==
  /\ con.open \in BOOLEAN /\ win.open \in BOOLEAN /\ ~(con.open /\ win.open)
  /\ ~con.open => con = NoConsole
  /\ ~win.open => win = NoWindow
  /\ ~con.open /\ ~win.open => nav = NoNav

AllRefs(s) == IsSeq(s) /\ \A i \in 1 .. Len(s) : IsRef(s[i])
Found(ref) == ~BadUrl(ref) /\ Category(Answer(ParseUrl(ref)).status) = 2

(* The history has what has been found. *)
NavRefs == IsRef(nav.url) /\ IsRef(nav.prev)
HistoryFits == AllRefs(con.history) /\ \A i \in 1 .. Len(con.history) : Found(con.history[i])
PageFits ==
  /\ AllRefs(con.links)
  /\ con.base # NoUrl => IsRef(con.base) /\ Len(con.base.segs) >= 2 /\ Host(con.base) \in Hosts \cup Literals
  /\ ConsolePage

(* What is asked for without an entry of its own is the last entry, as far   *)
(* as that one is absolute.                                                  *)
EntryFits ==
  /\ nav.push => nav.prev = NoRef
  /\ nav.mode \in {"fetch", "answer"} /\ ~nav.push =>
       /\ con.history # <<>> /\ nav.prev \in {NoRef, Last(con.history)}
       /\ Last(con.history).scheme # "" => nav.mode = "fetch" /\ nav.url = Last(con.history)
ConsoleFits == NavRefs /\ HistoryFits /\ PageFits /\ EntryFits

ScrollFits(w) == w.scroll = 0 \/ w.scroll + View <= Len(w.doc.blocks)
HitsFit(w) ==
  /\ w.doc = Doc(w.doc.kind, w.doc.source, w.doc.blocks) /\ IsSeq(w.doc.blocks)
  /\ w.scroll \in Nat /\ w.height \in Nat /\ w.viewing \in BOOLEAN
  /\ w.viewing /\ w.doc # NoDoc => w.hits = Hits(w) /\ w.height = Len(w.doc.blocks) /\ ScrollFits(w)
WindowFits == HitsFit(win) /\ WindowPage /\ win.query \in Queries \cup {NoQuery}

GeminiInv ==
  /\ ProtoInv /\ ConForm(con) /\ WinForm(win) /\ OneRuns
  /\ con.open => ConsoleFits
  /\ WindowFits

-------------------------------------------------------------------------------
(* Parts that stay as they are. *)

LEMMA SamePage ==
  ASSUME PageFits, con'.base = con.base, con'.links = con.links, con'.rows = con.rows
  PROVE  PageFits'
BY DEF PageFits, ConsolePage

LEMMA SameDoc ==
  ASSUME WindowPage, win'.doc = win.doc, win'.current = win.current
  PROVE  WindowPage'
BY DEF WindowPage

LEMMA Idles ==
  ASSUME ProtoInv, nav.mode # "fetch"
  PROVE  fetch.phase = "idle"
BY DEF ProtoInv, CallFits

LEMMA NoRefIs == IsRef(NoRef) /\ NoRef.scheme = "" /\ NavForm(NoNav) /\ NoNav.mode = "keys"
                 /\ NoNav.url = NoRef /\ NoNav.prev = NoRef /\ NoNav.push = FALSE
<1>1. IsRef(NoRef)
  BY NoRefTyped, RefsAre
<1>2. NoRef.scheme = ""
  BY DEF NoRef, Ref
<1>3. /\ NavForm(NoNav) /\ NoNav.mode = "keys" /\ NoNav.url = NoRef /\ NoNav.prev = NoRef /\ NoNav.push = FALSE
  BY DEF NoNav, NavForm
<1> QED BY <1>1, <1>2, <1>3

(* Where navigate_inner goes. *)
LEMMA NavigateIs ==
  ASSUME NEW ref, IsRef(ref), NEW push, NEW depth, NEW prev, IsRef(prev), PageFits, NavigateTo(ref, push, depth, prev)
  PROVE  /\ NavFits' /\ nav'.mode = "fetch" /\ nav'.push = push /\ nav'.prev = prev /\ NavRefs'
         /\ ref.scheme # "" => nav'.url = ref
<1>1. PICK url : url = IF con.base # NoUrl THEN Absolute(con.base, ref) ELSE ref
  OBVIOUS
<1>2. nav' = [mode |-> "fetch", push |-> push, depth |-> depth, prev |-> prev, url |-> url]
  BY <1>1 DEF NavigateTo
<1>3. NavFits' /\ nav'.mode = "fetch" /\ nav'.push = push /\ nav'.prev = prev /\ nav'.url = url
  BY <1>2 DEF NavFits, NavForm
<1>4. IsRef(url) /\ (ref.scheme # "" => url = ref)
  <2>1. CASE con.base # NoUrl
    <3>1. IsRef(con.base) /\ Len(con.base.segs) >= 2
      BY <2>1 DEF PageFits
    <3>2. IsRef(Absolute(con.base, ref)) /\ (ref.scheme # "" => Absolute(con.base, ref) = ref)
      BY <3>1, AbsoluteIs DEF Absolute
    <3> QED BY <1>1, <2>1, <3>2
  <2>2. CASE con.base = NoUrl
    BY <1>1, <2>2
  <2> QED BY <2>1, <2>2
<1> QED BY <1>3, <1>4 DEF NavRefs

LEMMA LastIs ==
  ASSUME NEW s, AllRefs(s), s # <<>>
  PROVE  Last(s) = s[Len(s)] /\ Len(s) \in 1 .. Len(s) /\ Len(s) \in Nat /\ IsRef(Last(s))
<1>1. Len(s) \in Nat /\ Len(s) >= 1
  BY SeqFacts DEF AllRefs
<1> QED BY <1>1 DEF AllRefs, Last

LEMMA WithQueryIs ==
  ASSUME NEW ref, IsRef(ref)
  PROVE  IsRef(WithQuery(ref))
<1>1. IsSeq(Front(ref.segs))
  <2>1. CASE ref.segs # <<>>
    BY <2>1, SeqFacts DEF IsRef
  <2>2. CASE ref.segs = <<>>
    <3>1. SubSeq(<<>>, 1, 0 - 1) = <<>>
      BY SubSeqEmpty
    <3>2. Front(<<>>) = <<>>
      BY <3>1 DEF Front
    <3> QED BY <2>2, <3>2 DEF IsRef
  <2> QED BY <2>1, <2>2
<1>2. PICK segs : segs = Append(Front(ref.segs), Last(ref.segs) \o "?")
  OBVIOUS
<1>3. IsSeq(segs)
  BY <1>1, <1>2, SeqFacts
<1>4. WithQuery(ref) = [ref EXCEPT !.segs = segs]
  BY <1>2 DEF WithQuery
<1>5. ref = [scheme |-> ref.scheme, port |-> ref.port, segs |-> ref.segs]
  BY DEF IsRef, Ref
<1>6. WithQuery(ref) = Ref(ref.scheme, ref.port, segs)
  BY <1>4, <1>5 DEF Ref
<1> QED BY <1>3, <1>6, RefFields

-------------------------------------------------------------------------------
(* The steps of the console. *)

LEMMA StartFits == GInit => GeminiInv
<1>1. SUFFICES ASSUME GInit  PROVE GeminiInv
  OBVIOUS
<1>2. ConForm(con) /\ con = NoConsole /\ con.open = FALSE
  BY <1>1 DEF GInit, NoConsole, ConForm
<1>3. /\ WinForm(win) /\ win = NoWindow /\ win.open = FALSE /\ win.doc = NoDoc /\ win.viewing = FALSE
      /\ win.scroll = 0 /\ win.height = 0 /\ win.query = NoQuery
  BY <1>1 DEF GInit, NoWindow, WinForm
<1>4. NoDoc = Doc(NoDoc.kind, NoDoc.source, NoDoc.blocks) /\ NoDoc.blocks = <<>> /\ NoDoc.kind = "none"
  BY DEF NoDoc, Doc
<1>5. <<>> \in Seq({})
  OBVIOUS
<1>6. HitsFit(win)
  <2>1. win.doc = Doc(win.doc.kind, win.doc.source, win.doc.blocks)
    BY <1>3, <1>4
  <2>2. IsSeq(win.doc.blocks)
    BY <1>3, <1>4, <1>5 DEF IsSeq
  <2>3. win.viewing \in BOOLEAN /\ ~win.viewing
    BY <1>3, Zenon
  <2>4. win.scroll \in Nat /\ win.height \in Nat
    BY <1>3
  <2> QED BY <2>1, <2>2, <2>3, <2>4 DEF HitsFit
<1>7. WindowPage
  BY <1>3, <1>4 DEF WindowPage
<1>8. ProtoInv /\ nav = NoNav
  BY <1>1, ProtoStarts DEF GInit, ProtoInit
<1> QED BY <1>2, <1>3, <1>6, <1>7, <1>8 DEF GeminiInv, OneRuns, WindowFits

LEMMA SameWindow ==
  ASSUME GeminiInv, win' = win
  PROVE  WinForm(win') /\ WindowFits'
<1>1. WindowPage'
  BY SameDoc DEF GeminiInv, WindowFits
<1>2. WinForm(win') /\ HitsFit(win') /\ win'.query \in Queries \cup {NoQuery}
  BY DEF GeminiInv, WindowFits
<1> QED BY <1>1, <1>2 DEF WindowFits

(* What is left to show of a step of the console. *)
LEMMA ConsoleKeeps ==
  ASSUME GeminiInv, ~win.open, win' = win, ProtoInv', ConForm(con'), con'.open = TRUE, ConsoleFits'
  PROVE  GeminiInv'
<1>1. WinForm(win') /\ WindowFits'
  BY SameWindow
<1>2. OneRuns'
  BY DEF OneRuns, GeminiInv
<1> QED BY <1>1, <1>2 DEF GeminiInv

(* The history and the page stay, navigate has returned. *)
LEMMA ReturnFits ==
  ASSUME ConsoleFits, con'.history = con.history, con'.base = con.base, con'.links = con.links,
         con'.rows = con.rows, nav' = NoNav
  PROVE  ConsoleFits'
<1>1. PageFits'
  BY SamePage DEF ConsoleFits
<1>2. HistoryFits'
  BY DEF ConsoleFits, HistoryFits
<1>3. NavRefs'
  BY NoRefIs DEF NavRefs
<1>4. EntryFits'
  BY NoRefIs DEF EntryFits
<1> QED BY <1>1, <1>2, <1>3, <1>4 DEF ConsoleFits

LEMMA IdleNav == nav' = NoNav => NavFits'
BY NoRefIs DEF NavFits

(* A page that back fetches has its entry, nothing is put there twice. *)
LEMMA BackChangesNothing ==
  ASSUME EntryFits, nav.mode \in {"fetch", "answer"}, NEW c, ConForm(c), nav.push \/ c.history = con.history
  PROVE  AfterBack(c) = c
<1>1. CASE nav.prev = NoRef
  BY <1>1 DEF AfterBack
<1>2. CASE nav.prev # NoRef
  <2>1. ~nav.push /\ con.history # <<>> /\ nav.prev = Last(con.history) /\ c.history = con.history
    BY <1>2 DEF EntryFits
  <2>2. Pushed(c.history, nav.prev) = c.history
    BY <2>1 DEF Pushed
  <2>3. AfterBack(c) = [c EXCEPT !.history = Pushed(c.history, nav.prev)]
    BY <1>2 DEF AfterBack
  <2>4. [c EXCEPT !.history = c.history] = c
    BY DEF ConForm
  <2> QED BY <2>2, <2>3, <2>4
<1> QED BY <1>1, <1>2

LEMMA ConsoleStarts == GeminiInv /\ ~win.open /\ win' = win /\ StartConsole => GeminiInv'
<1>1. SUFFICES ASSUME GeminiInv, ~win.open, win' = win, StartConsole  PROVE GeminiInv'
  OBVIOUS
<1>2. ~con.open /\ nav = NoNav /\ ProtoInv /\ UNCHANGED <<fetch, peer>>
  BY <1>1 DEF StartConsole, GeminiInv, OneRuns
<1>3. /\ ConForm(con') /\ con'.open = TRUE /\ con'.history = <<>> /\ con'.base = NoUrl /\ con'.links = <<>>
  <2>1. con' = [NoConsole EXCEPT !.open = TRUE]
    BY <1>1 DEF StartConsole
  <2> QED BY <2>1 DEF NoConsole, ConForm
<1>4. <<>> \in Seq({}) /\ Len(<<>>) = 0
  OBVIOUS
<1>5. AllRefs(<<>>) /\ \A i \in 1 .. Len(<<>>) : FALSE
  BY <1>4 DEF AllRefs, IsSeq
<1>6. HistoryFits' /\ PageFits'
  BY <1>3, <1>5 DEF HistoryFits, PageFits, ConsolePage
<1>7. CASE nav' = nav
  <2>1. NavFits' /\ NavRefs' /\ EntryFits'
    BY <1>2, <1>7, IdleNav, NoRefIs DEF NavRefs, EntryFits
  <2> QED BY <1>1, <1>2, <1>3, <1>6, <2>1, NoRefIs, Idles, QuietKeepsProto, ConsoleKeeps DEF ConsoleFits
<1>8. ASSUME NEW ref \in Typed, nav' = [NoNav EXCEPT !.mode = "fetch", !.url = ref, !.push = TRUE]
      PROVE  GeminiInv'
  <2>1. NavForm(nav') /\ nav'.mode = "fetch" /\ nav'.url = ref /\ nav'.push = TRUE /\ nav'.prev = NoRef
    BY <1>8 DEF NoNav, NavForm
  <2>2. IsRef(ref)
    BY RefsAre, GeminiAssumption
  <2>3. NavFits' /\ NavRefs' /\ EntryFits'
    BY <2>1, <2>2, NoRefIs DEF NavFits, NavRefs, EntryFits
  <2> QED BY <1>1, <1>2, <1>3, <1>6, <2>3, NoRefIs, Idles, QuietKeepsProto, ConsoleKeeps DEF ConsoleFits
<1> QED BY <1>1, <1>7, <1>8 DEF StartConsole

(* A navigation begins while a key is waited for, or another one goes on. *)
LEMMA NavigateFits ==
  ASSUME ConsoleFits, con'.base = con.base, con'.links = con.links, con'.rows = con.rows, HistoryFits',
         NEW ref, IsRef(ref), NEW push, NEW depth, NEW prev, NavigateTo(ref, push, depth, prev),
         IsRef(prev), push => prev = NoRef,
         ~push => /\ con'.history # <<>> /\ prev \in {NoRef, Last(con'.history)}
                  /\ Last(con'.history).scheme # "" => ref = Last(con'.history)
  PROVE  ConsoleFits' /\ NavFits'
<1>1. /\ NavFits' /\ nav'.mode = "fetch" /\ nav'.push = push /\ nav'.prev = prev /\ NavRefs'
      /\ ref.scheme # "" => nav'.url = ref
  BY NavigateIs DEF ConsoleFits
<1>2. PageFits'
  BY SamePage DEF ConsoleFits
<1>3. EntryFits'
  BY <1>1 DEF EntryFits
<1> QED BY <1>1, <1>2, <1>3 DEF ConsoleFits

LEMMA KeyKeeps == GeminiInv /\ win' = win /\ Key => GeminiInv'
<1>1. SUFFICES ASSUME GeminiInv, win' = win, Key  PROVE GeminiInv'
  OBVIOUS
<1>2. /\ con.open /\ nav.mode = "keys" /\ ~win.open /\ ProtoInv /\ ConForm(con) /\ ConsoleFits /\ OneRuns
      /\ UNCHANGED <<fetch, peer>> /\ fetch.phase = "idle" /\ nav = NoNav /\ con.open = TRUE
  BY <1>1, Idles DEF Key, Waiting, GeminiInv, OneRuns, ProtoInv, NavFits
<1>3. ASSUME NavFits', ConForm(con'), con'.open = TRUE, ConsoleFits'  PROVE GeminiInv'
  BY <1>1, <1>2, <1>3, QuietKeepsProto, ConsoleKeeps
<1>4. NavFits /\ HistoryFits /\ AllRefs(con.history) /\ AllRefs(con.links)
  BY <1>2 DEF ProtoInv, ConsoleFits, HistoryFits, PageFits
<1>5. ASSUME nav' = nav, ConForm(con'), con'.open = TRUE, con'.history = con.history, con'.base = con.base,
             con'.links = con.links, con'.rows = con.rows
      PROVE  GeminiInv'
  BY <1>2, <1>3, <1>5, IdleNav, ReturnFits
<1>6. CASE ScrollKey \/ DigitKey
  <2>1. nav' = nav
    BY <1>6 DEF ScrollKey, DigitKey
  <2>2. ASSUME NEW digits, NEW scroll,
               \/ con' = [con EXCEPT !.digits = digits, !.scroll = scroll]
               \/ con' = [con EXCEPT !.scroll = scroll]
               \/ con' = [con EXCEPT !.digits = digits]
        PROVE  /\ ConForm(con') /\ con'.open = TRUE /\ con'.history = con.history /\ con'.base = con.base
               /\ con'.links = con.links /\ con'.rows = con.rows
    BY <1>2, <2>2 DEF ConForm
  <2>3. \E digits, scroll :
          \/ con' = [con EXCEPT !.digits = digits, !.scroll = scroll]
          \/ con' = [con EXCEPT !.scroll = scroll]
          \/ con' = [con EXCEPT !.digits = digits]
    <3>1. CASE ScrollKey
      BY <3>1, Zenon DEF ScrollKey
    <3>2. CASE DigitKey
      BY <3>2, Zenon DEF DigitKey
    <3> QED BY <1>6, <3>1, <3>2
  <2>4. /\ ConForm(con') /\ con'.open = TRUE /\ con'.history = con.history /\ con'.base = con.base
        /\ con'.links = con.links /\ con'.rows = con.rows
    BY <2>2, <2>3
  <2> QED BY <1>5, <2>1, <2>4
<1>7. CASE EnterKey
  <2>1. PICK n : n = Number(con.digits)
    OBVIOUS
  <2>2. /\ con' = [con EXCEPT !.digits = <<>>]
        /\ IF n \in DOMAIN con.links THEN Navigate(con.links[n], TRUE) ELSE nav' = nav
    BY <1>7, <2>1 DEF EnterKey
  <2>3. /\ ConForm(con') /\ con'.open = TRUE /\ con'.history = con.history /\ con'.base = con.base
        /\ con'.links = con.links /\ con'.rows = con.rows
    BY <1>2, <2>2 DEF ConForm
  <2>4. CASE n \in DOMAIN con.links
    <3>1. PICK ref : ref = con.links[n]
      OBVIOUS
    <3>2. IsRef(ref)
      BY <1>4, <2>4, <3>1, SeqFacts DEF AllRefs
    <3>3. NavigateTo(ref, TRUE, 0, NoRef)
      BY <2>2, <2>4, <3>1 DEF Navigate
    <3>4. HistoryFits'
      BY <1>4, <2>3 DEF HistoryFits
    <3>5. ConsoleFits' /\ NavFits'
      BY <1>2, <2>3, <3>2, <3>3, <3>4, NoRefIs, NavigateFits
    <3> QED BY <1>3, <2>3, <3>5
  <2>5. CASE n \notin DOMAIN con.links
    BY <1>5, <2>2, <2>3, <2>5
  <2> QED BY <2>4, <2>5
<1>8. CASE BackKey
  <2>1. CASE Len(con.history) > 1
    <3>1. PICK front, prev : front = Front(con.history) /\ prev = Last(front)
      OBVIOUS
    <3>2. con' = [con EXCEPT !.history = front] /\ NavigateTo(prev, FALSE, 0, prev)
      BY <1>8, <2>1, <3>1 DEF BackKey
    <3>3. /\ ConForm(con') /\ con'.open = TRUE /\ con'.history = front /\ con'.base = con.base
          /\ con'.links = con.links /\ con'.rows = con.rows
      BY <1>2, <3>2 DEF ConForm
    <3>4. /\ Len(con.history) \in Nat /\ IsSeq(front) /\ Len(front) = Len(con.history) - 1
          /\ \A k \in 1 .. Len(con.history) - 1 : front[k] = con.history[k]
      <4>1. con.history # <<>> /\ IsSeq(con.history)
        <5>1. Len(<<>>) = 0
          OBVIOUS
        <5> QED BY <1>4, <2>1, <5>1 DEF AllRefs
      <4> QED BY <3>1, <4>1, SeqFacts
    <3>5. AllRefs(front) /\ front # <<>> /\ \A k \in 1 .. Len(front) : Found(front[k])
      <4>1. \A k \in 1 .. Len(front) : front[k] = con.history[k] /\ k \in 1 .. Len(con.history)
        BY <3>4
      <4>2. Len(front) # 0 /\ Len(<<>>) = 0
        BY <2>1, <3>4
      <4> QED BY <1>4, <3>4, <4>1, <4>2 DEF AllRefs, HistoryFits
    <3>6. IsRef(prev)
      BY <3>1, <3>5, LastIs
    <3>7. HistoryFits'
      BY <3>3, <3>5 DEF HistoryFits
    <3>8. ConsoleFits' /\ NavFits'
      BY <1>2, <3>1, <3>2, <3>3, <3>5, <3>6, <3>7, NavigateFits
    <3> QED BY <1>3, <3>3, <3>8
  <2>2. CASE ~(Len(con.history) > 1)
    <3>1. UNCHANGED <<con, nav>>
      BY <1>8, <2>2 DEF BackKey, Say
    <3> QED BY <1>2, <1>5, <3>1
  <2> QED BY <2>1, <2>2
<1>9. CASE ReloadKey
  <2>1. CASE con.history # <<>>
    <3>1. PICK last : last = Last(con.history)
      OBVIOUS
    <3>2. con' = con /\ NavigateTo(last, FALSE, 0, NoRef)
      BY <1>9, <2>1, <3>1 DEF ReloadKey, Navigate
    <3>3. IsRef(last)
      BY <1>4, <2>1, <3>1, LastIs
    <3>4. HistoryFits'
      BY <1>4, <3>2 DEF HistoryFits
    <3>5. ConsoleFits' /\ NavFits'
      BY <1>2, <2>1, <3>1, <3>2, <3>3, <3>4, NoRefIs, NavigateFits
    <3> QED BY <1>2, <1>3, <3>2, <3>5
  <2>2. CASE con.history = <<>>
    <3>1. UNCHANGED <<con, nav>>
      BY <1>9, <2>2 DEF ReloadKey, Say
    <3> QED BY <1>2, <1>5, <3>1
  <2> QED BY <2>1, <2>2
<1>10. CASE AddressKey
  <2>1. con' = con /\ nav' = [nav EXCEPT !.mode = "address"]
    BY <1>10 DEF AddressKey
  <2>2. NavFits' /\ nav'.mode = "address" /\ nav'.url = NoRef /\ nav'.prev = NoRef /\ nav'.push = FALSE
    BY <1>2, <2>1 DEF NoNav, NavFits, NavForm
  <2>3. NavRefs' /\ EntryFits'
    BY <2>2, NoRefIs DEF NavRefs, EntryFits
  <2>4. PageFits' /\ HistoryFits'
    BY <1>2, <1>4, <2>1, SamePage DEF ConsoleFits, HistoryFits
  <2> QED BY <1>2, <1>3, <2>1, <2>2, <2>3, <2>4 DEF ConsoleFits
<1>11. CASE QuitKey
  <2>1. con' = NoConsole /\ nav' = nav
    BY <1>11 DEF QuitKey
  <2>2. ConForm(con') /\ con'.open = FALSE
    BY <2>1 DEF NoConsole, ConForm
  <2>3. ProtoInv'
    BY <1>2, <2>1, IdleNav, QuietKeepsProto
  <2>4. OneRuns'
    BY <1>1, <1>2, <2>1, <2>2 DEF OneRuns
  <2> QED BY <1>1, <2>2, <2>3, <2>4, SameWindow DEF GeminiInv
<1> QED BY <1>1, <1>6, <1>7, <1>8, <1>9, <1>10, <1>11 DEF Key

LEMMA AddressKeeps == GeminiInv /\ win' = win /\ GiveAddress => GeminiInv'
<1>1. SUFFICES ASSUME GeminiInv, win' = win, GiveAddress  PROVE GeminiInv'
  OBVIOUS
<1>2. /\ con.open = TRUE /\ ~win.open /\ ProtoInv /\ ConForm(con) /\ ConsoleFits
      /\ con' = con /\ UNCHANGED <<fetch, peer>> /\ fetch.phase = "idle"
  BY <1>1, Idles DEF GiveAddress, GeminiInv, OneRuns
<1>3. ASSUME NavFits', ConsoleFits'  PROVE GeminiInv'
  BY <1>1, <1>2, <1>3, QuietKeepsProto, ConsoleKeeps
<1>4. CASE nav' = NoNav
  BY <1>2, <1>3, <1>4, IdleNav, ReturnFits
<1>5. ASSUME NEW ref \in Typed, Navigate(ref, TRUE)  PROVE GeminiInv'
  <2>1. IsRef(ref) /\ NavigateTo(ref, TRUE, 0, NoRef)
    BY <1>5, RefsAre, GeminiAssumption DEF Navigate
  <2>2. HistoryFits'
    BY <1>2 DEF ConsoleFits, HistoryFits
  <2> QED BY <1>2, <1>3, <2>1, <2>2, NoRefIs, NavigateFits
<1> QED BY <1>1, <1>4, <1>5 DEF GiveAddress

(* A further step of a navigation: to a page that was not the last entry. *)
LEMMA FollowFits ==
  ASSUME ConForm(con), ConsoleFits, nav.mode \in {"fetch", "answer"}, NEW ref, IsRef(ref), Follow(ref),
         ~nav.push => nav.mode = "answer" \/ nav.url # Last(con.history)
  PROVE  ConsoleFits' /\ NavFits' /\ con' = con
<1>1. CASE Deeper > MaxRedirects
  <2>1. Returns(con)
    BY <1>1 DEF Follow
  <2>2. AfterBack(con) = con
    BY BackChangesNothing DEF ConsoleFits
  <2>3. con' = con /\ nav' = NoNav
    BY <2>1, <2>2 DEF Returns
  <2> QED BY <2>3, IdleNav, ReturnFits
<1>2. CASE ~(Deeper > MaxRedirects)
  <2>1. NavigateTo(ref, nav.push, Deeper, nav.prev) /\ con' = con
    BY <1>2 DEF Follow
  <2>2. IsRef(nav.prev) /\ HistoryFits' /\ EntryFits
    BY <2>1 DEF ConsoleFits, NavRefs, HistoryFits
  <2>3. nav.push => nav.prev = NoRef
    BY <2>2 DEF EntryFits
  <2>4. ~nav.push => /\ con'.history # <<>> /\ nav.prev \in {NoRef, Last(con'.history)}
                     /\ Last(con'.history).scheme # "" => ref = Last(con'.history)
    BY <2>1, <2>2 DEF EntryFits
  <2> QED BY <2>1, <2>2, <2>3, <2>4, NavigateFits
<1> QED BY <1>1, <1>2

LEMMA GivenAnswerKeeps == GeminiInv /\ win' = win /\ GiveAnswer => GeminiInv'
<1>1. SUFFICES ASSUME GeminiInv, win' = win, GiveAnswer  PROVE GeminiInv'
  OBVIOUS
<1>2. /\ con.open = TRUE /\ ~win.open /\ ProtoInv /\ ConForm(con) /\ ConsoleFits /\ nav.mode = "answer"
      /\ UNCHANGED <<fetch, peer>> /\ fetch.phase = "idle"
  BY <1>1, Idles DEF GiveAnswer, GeminiInv, OneRuns
<1>3. PICK ref : ref = WithQuery(nav.url)
  OBVIOUS
<1>4. IsRef(ref) /\ Follow(ref)
  BY <1>1, <1>2, <1>3, WithQueryIs DEF GiveAnswer, ConsoleFits, NavRefs
<1>5. ConsoleFits' /\ NavFits' /\ con' = con
  BY <1>2, <1>4, FollowFits
<1> QED BY <1>1, <1>2, <1>5, QuietKeepsProto, ConsoleKeeps

(* What an answer that was found says of the url that was asked for. *)
LEMMA FoundIs ==
  ASSUME ProtoInv, Answered, fetch.result.ok
  PROVE  /\ nav.mode = "fetch" /\ Called /\ Known /\ ResultFits
         /\ Found(nav.url) <=> Category(fetch.result.status) = 2
<1>1. nav.mode = "fetch" /\ Called /\ Known /\ ResultFits
  BY DEF ProtoInv, CallFits, Answered
<1> QED BY <1>1 DEF Called, ResultFits, Found

(* The page that comes is a beginning of what its url answers. *)
LEMMA PageComes ==
  ASSUME ResultFits, Known, Called, IsRef(nav.url), NEW c, c.base = Base, c.rows = Gemtext(fetch.result.body),
         c.links = CollectLinks(c.rows), Category(fetch.result.status) = 2, con' = c
  PROVE  PageFits'
<1>1. PICK url, part : url = fetch.url /\ part = fetch.result.body
  OBVIOUS
<1>2. part \in Beginnings(Answer(url))
  BY <1>1 DEF ResultFits
<1>3. part \in Seq(GemLines) /\ OnlyLinksLead(part)
  BY <1>2, BeginningsAre
<1>4. PICK n : n = Len(part)
  OBVIOUS
<1>5. Len(c.rows) = n
  BY <1>1, <1>3, <1>4, GemtextIs
<1>6. IsRef(url) /\ Len(url.segs) >= 2 /\ Base = url
  BY <1>1, ParseUrlIs DEF Called, Base
<1>7. PICK links : links = c.links /\ links = CollectLinks(Gemtext(part))
  BY <1>1
<1>8. PICK places : places = LinkPlaces(part)
  OBVIOUS
<1>9. /\ IsSeq(links) /\ Len(links) = Cardinality(places)
      /\ \A i \in places : links[Rank(i, places)] = Absolute(url, part[i].ref)
      /\ \A m \in 1 .. Len(links) : \E i \in DOMAIN part : links[m] = Absolute(url, part[i].ref)
  <2>1. url = Base
    BY <1>6
  <2>2. part \in Seq(GemLines) /\ OnlyLinksLead(part) /\ links = CollectLinks(Gemtext(part))
    BY <1>3, <1>7
  <2> QED BY <1>8, <2>1, <2>2, LinksMade
<1>10. ASSUME NEW m \in 1 .. Len(links)  PROVE IsRef(links[m])
  <2>1. PICK i \in DOMAIN part : links[m] = Absolute(url, part[i].ref)
    BY <1>9
  <2>2. part[i].ref \in Refs
    <3>1. part[i] \in GemLines
      BY <1>3
    <3> QED BY <3>1 DEF GemLines
  <2> QED BY <1>6, <2>1, <2>2, RefsAre, AbsoluteIs
<1>11. AllRefs(c.links)
  BY <1>7, <1>9, <1>10 DEF AllRefs
<1>12. Category(Answer(url).status) = 2 /\ Host(url) \in Hosts \cup Literals
  BY <1>1 DEF ResultFits, Known
<1>13. ConsolePage'
  <2>1. con'.base = url /\ con'.links = links /\ Len(con'.rows) = Len(part)
    BY <1>1, <1>4, <1>5, <1>6, <1>7
  <2>2. PICK answer : answer = Answer(con'.base)
    OBVIOUS
  <2>3. part \in Beginnings(answer) /\ Category(answer.status) = 2
    BY <1>2, <1>12, <2>1, <2>2
  <2>4. Len(con'.links) = Cardinality(places)
    BY <1>9, <2>1
  <2>5. \A i \in places : con'.links[Rank(i, places)] = Absolute(con'.base, part[i].ref)
    BY <1>9, <2>1
  <2> QED BY <1>8, <2>1, <2>2, <2>3, <2>4, <2>5, Zenon DEF ConsolePage
<1> QED BY <1>6, <1>11, <1>12, <1>13 DEF PageFits

LEMMA PushedIs ==
  ASSUME NEW s, AllRefs(s), \A i \in 1 .. Len(s) : Found(s[i]), NEW ref, IsRef(ref), Found(ref)
  PROVE  /\ AllRefs(Pushed(s, ref)) /\ \A i \in 1 .. Len(Pushed(s, ref)) : Found(Pushed(s, ref)[i])
         /\ Pushed(s, ref) # <<>> /\ Last(Pushed(s, ref)) = ref
<1>1. CASE s # <<>> /\ Last(s) = ref
  BY <1>1 DEF Pushed
<1>2. CASE ~(s # <<>> /\ Last(s) = ref)
  <2>1. PICK t : t = Append(s, ref)
    OBVIOUS
  <2>2. /\ IsSeq(t) /\ Len(t) = Len(s) + 1 /\ Len(s) \in Nat
        /\ t[Len(s) + 1] = ref /\ \A k \in 1 .. Len(s) : t[k] = s[k]
    BY <2>1, SeqFacts DEF AllRefs
  <2>3. ASSUME NEW i \in 1 .. Len(t)  PROVE IsRef(t[i]) /\ Found(t[i])
    <3>1. CASE i = Len(s) + 1
      BY <2>2, <3>1
    <3>2. CASE i # Len(s) + 1
      <4>1. i \in 1 .. Len(s)
        BY <2>2, <3>2
      <4> QED BY <2>2, <4>1 DEF AllRefs
    <3> QED BY <3>1, <3>2
  <2>4. t # <<>> /\ Last(t) = ref
    <3>1. Len(<<>>) = 0 /\ Len(t) # 0
      BY <2>2
    <3> QED BY <2>2, <3>1 DEF Last
  <2>5. Pushed(s, ref) = t
    BY <1>2, <2>1 DEF Pushed
  <2> QED BY <2>2, <2>3, <2>4, <2>5 DEF AllRefs
<1> QED BY <1>1, <1>2

(* What a page that was found does to the console. *)
LEMMA SuccessMakes ==
  ASSUME ProtoInv, ConForm(con), ConsoleFits, Answered, fetch.result.ok, Success
  PROVE  /\ nav' = NoNav /\ ConForm(con') /\ con'.open = con.open /\ con'.base = Base
         /\ con'.rows = Gemtext(fetch.result.body) /\ con'.links = CollectLinks(con'.rows)
         /\ con'.history = IF nav.push THEN Pushed(con.history, nav.url) ELSE con.history
<1>1. PICK lines, history, links, base :
        /\ lines = Gemtext(fetch.result.body) /\ links = CollectLinks(lines) /\ base = Base
        /\ history = IF nav.push THEN Pushed(con.history, nav.url) ELSE con.history
  OBVIOUS
<1>2. PICK c : c = [con EXCEPT !.history = history, !.base = base, !.links = links, !.rows = lines, !.scroll = 0]
  OBVIOUS
<1>3. /\ ConForm(c) /\ c.open = con.open /\ c.base = base /\ c.rows = lines /\ c.links = links
      /\ c.history = history
  BY <1>2 DEF ConForm
<1>4. Returns(c)
  BY <1>1, <1>2 DEF Success
<1>5. AfterBack(c) = c
  BY <1>1, <1>3, FoundIs, BackChangesNothing DEF ConsoleFits
<1>6. con' = c /\ nav' = NoNav
  BY <1>4, <1>5 DEF Returns
<1> QED BY <1>1, <1>3, <1>6

LEMMA ResponseKeeps == GeminiInv /\ win' = win /\ HandleResponse => GeminiInv'
<1>1. SUFFICES ASSUME GeminiInv, win' = win, HandleResponse  PROVE GeminiInv'
  OBVIOUS
<1>2. /\ con.open = TRUE /\ ~win.open /\ ProtoInv /\ ConForm(con) /\ ConsoleFits /\ Answered
      /\ fetch' = Idle /\ peer' = NoPeer
  BY <1>1 DEF HandleResponse, GeminiInv, OneRuns, Taken
<1>3. ASSUME NavFits', ConsoleFits', ConForm(con'), con'.open = TRUE  PROVE GeminiInv'
  BY <1>1, <1>2, <1>3, IdleFits, ConsoleKeeps
<1>4. nav.mode = "fetch" /\ EntryFits /\ NavRefs /\ HistoryFits /\ PageFits
  BY <1>2 DEF ConsoleFits, ProtoInv, CallFits, Answered
<1>5. ASSUME Returns(con)  PROVE GeminiInv'
  <2>1. AfterBack(con) = con
    BY <1>2, <1>4, BackChangesNothing
  <2>2. con' = con /\ nav' = NoNav
    BY <1>5, <2>1 DEF Returns
  <2> QED BY <1>2, <1>3, <2>2, IdleNav, ReturnFits
<1>6. CASE ~fetch.result.ok
  BY <1>1, <1>5, <1>6 DEF HandleResponse
<1>7. ASSUME fetch.result.ok, Success  PROVE GeminiInv'
  <2>1. /\ nav' = NoNav /\ ConForm(con') /\ con'.open = TRUE /\ con'.base = Base
        /\ con'.rows = Gemtext(fetch.result.body) /\ con'.links = CollectLinks(con'.rows)
        /\ con'.history = IF nav.push THEN Pushed(con.history, nav.url) ELSE con.history
    BY <1>2, <1>7, SuccessMakes
  <2>2. Called /\ Known /\ ResultFits /\ Category(fetch.result.status) = 2 /\ Found(nav.url) /\ IsRef(nav.url)
    BY <1>2, <1>4, <1>7, FoundIs DEF Success, NavRefs
  <2>3. PageFits'
    BY <2>1, <2>2, PageComes
  <2>4. HistoryFits'
    BY <1>4, <2>1, <2>2, PushedIs DEF HistoryFits
  <2>5. NavRefs' /\ EntryFits' /\ NavFits'
    BY <2>1, NoRefIs, IdleNav DEF NavRefs, EntryFits
  <2> QED BY <1>3, <2>1, <2>3, <2>4, <2>5 DEF ConsoleFits
<1>8. ASSUME fetch.result.ok, Category(fetch.result.status) # 2
      PROVE  ~nav.push => Last(con.history).scheme = "" /\ nav.url # Last(con.history)
  <2>1. ~Found(nav.url)
    BY <1>2, <1>8, FoundIs
  <2>2. ASSUME ~nav.push  PROVE nav.url # Last(con.history)
    <3>1. AllRefs(con.history) /\ con.history # <<>>
      BY <1>4, <2>2 DEF HistoryFits, EntryFits
    <3>2. Found(Last(con.history))
      BY <1>4, <3>1, LastIs DEF HistoryFits
    <3> QED BY <2>1, <3>2
  <2> QED BY <1>4, <2>2 DEF EntryFits
<1>9. ASSUME fetch.result.ok, AskInput  PROVE GeminiInv'
  <2>1. con' = con /\ nav' = [nav EXCEPT !.mode = "answer"] /\ Category(fetch.result.status) = 1
    BY <1>9 DEF AskInput
  <2>2. /\ NavForm(nav') /\ nav'.mode = "answer" /\ nav'.url = nav.url /\ nav'.push = nav.push
        /\ nav'.prev = nav.prev
    BY <1>2, <2>1 DEF NavForm, ProtoInv, NavFits
  <2>3. NavFits' /\ NavRefs'
    BY <1>4, <2>2 DEF NavFits, NavRefs
  <2>4. EntryFits'
    <3>1. Category(fetch.result.status) # 2
      BY <2>1
    <3>2. ~nav.push => Last(con.history).scheme = ""
      BY <1>8, <1>9, <3>1, Zenon
    <3> QED BY <1>4, <2>1, <2>2, <3>2 DEF EntryFits
  <2>5. PageFits' /\ HistoryFits'
    BY <1>4, <2>1, SamePage DEF HistoryFits
  <2> QED BY <1>2, <1>3, <2>1, <2>3, <2>4, <2>5 DEF ConsoleFits
<1>10. ASSUME fetch.result.ok, Redirect  PROVE GeminiInv'
  <2>1. /\ Category(fetch.result.status) = 3
        /\ IF fetch.result.meta = NoRef THEN Returns(con) ELSE Follow(Absolute(fetch.url, fetch.result.meta))
    BY <1>10 DEF Redirect
  <2>2. PICK ref : ref = Absolute(fetch.url, fetch.result.meta)
    OBVIOUS
  <2>3. IsRef(ref)
    <3>1. IsRef(fetch.url) /\ Len(fetch.url.segs) >= 2
      BY <1>2, <1>4, <1>10, FoundIs, ParseUrlIs DEF Called, NavRefs
    <3>2. fetch.result.meta \in Refs
      BY <1>2, <1>10, FoundIs, AnswerIs DEF ResultFits
    <3> QED BY <2>2, <3>1, <3>2, RefsAre, AbsoluteIs
  <2>4. CASE Follow(ref)
    <3>1. ~nav.push => nav.url # Last(con.history)
      <4>1. Category(fetch.result.status) # 2
        BY <2>1
      <4> QED BY <1>8, <1>10, <4>1, Zenon
    <3>2. ConsoleFits' /\ NavFits' /\ con' = con
      BY <1>2, <1>4, <2>3, <2>4, <3>1, FollowFits
    <3> QED BY <1>2, <1>3, <3>2
  <2> QED BY <1>5, <2>1, <2>2, <2>4
<1>11. ASSUME Refused  PROVE GeminiInv'
  BY <1>5, <1>11 DEF Refused
<1>12. CASE fetch.result.ok
  <2>1. Success \/ AskInput \/ Redirect \/ Refused
    BY <1>1, <1>12 DEF HandleResponse
  <2> QED BY <1>7, <1>9, <1>10, <1>11, <1>12, <2>1
<1> QED BY <1>6, <1>12

-------------------------------------------------------------------------------
(* The steps of the window. *)

(* What is left to show of a step of the window. *)
LEMMA WindowKeeps ==
  ASSUME GeminiInv, ~con.open, con' = con, ProtoInv', WinForm(win'), win'.open = TRUE, WindowFits'
  PROVE  GeminiInv'
<1>1. OneRuns'
  BY DEF OneRuns, GeminiInv
<1> QED BY <1>1 DEF GeminiInv

(* A drawing notes the links of the page at their rows. *)
DrawnReady(w) ==
  /\ WinForm(w) /\ w.doc = Doc(w.doc.kind, w.doc.source, w.doc.blocks) /\ IsSeq(w.doc.blocks)
  /\ w.open = TRUE /\ w.query \in Queries \cup {NoQuery}
  /\ w.scroll \in Nat /\ w.height \in Nat /\ w.viewing \in BOOLEAN
  /\ w.viewing /\ w.doc # NoDoc => ScrollFits(w)

LEMMA DrawnIs ==
  ASSUME NEW w, DrawnReady(w)
  PROVE  /\ WinForm(Drawn(w)) /\ Drawn(w).open = TRUE /\ Drawn(w).doc = w.doc /\ Drawn(w).current = w.current
         /\ Drawn(w).query = w.query /\ HitsFit(Drawn(w))
<1>1. PICK d : d = Drawn(w)
  OBVIOUS
<1>2. CASE ~w.viewing
  <2>1. d = w
    BY <1>1, <1>2 DEF Drawn
  <2> QED BY <1>1, <1>2, <2>1 DEF HitsFit, DrawnReady
<1>3. CASE w.viewing /\ w.doc = NoDoc
  <2>1. d = [w EXCEPT !.height = 0]
    BY <1>1, <1>3 DEF Drawn
  <2>2. /\ WinForm(d) /\ d.open = w.open /\ d.doc = w.doc /\ d.current = w.current /\ d.scroll = w.scroll
        /\ d.viewing = w.viewing /\ d.height = 0 /\ d.query = w.query
    BY <2>1 DEF WinForm, DrawnReady
  <2> QED BY <1>1, <1>3, <2>2 DEF HitsFit, DrawnReady
<1>4. CASE w.viewing /\ w.doc # NoDoc
  <2>1. PICK hits, height : hits = Hits(w) /\ height = Len(w.doc.blocks)
    OBVIOUS
  <2>2. d = [w EXCEPT !.height = height, !.hits = hits]
    BY <1>1, <1>4, <2>1 DEF Drawn
  <2>3. /\ WinForm(d) /\ d.open = w.open /\ d.doc = w.doc /\ d.current = w.current /\ d.scroll = w.scroll
        /\ d.viewing = w.viewing /\ d.hits = hits /\ d.height = height /\ d.query = w.query
    BY <2>2 DEF WinForm, DrawnReady
  <2>4. d.hits = Hits(d) /\ ScrollFits(d) /\ height \in Nat
    BY <1>4, <2>1, <2>3, SeqFacts DEF Hits, ScrollFits, DrawnReady
  <2> QED BY <1>1, <1>4, <2>1, <2>3, <2>4 DEF HitsFit, DrawnReady
<1> QED BY <1>2, <1>3, <1>4

(* The same page again, a message or nothing, or a file without a url. *)
LEMMA PageShown ==
  ASSUME NEW w, DrawnReady(w), win' = Drawn(w),
         \/ w.doc = win.doc /\ w.current = win.current /\ WindowPage
         \/ w.doc.kind \in {"none", "message"}
         \/ w.doc.kind = "html" /\ w.current = NoUrl
  PROVE  WinForm(win') /\ win'.open = TRUE /\ WindowFits'
<1>1. /\ WinForm(win') /\ win'.open = TRUE /\ win'.doc = w.doc /\ win'.current = w.current
      /\ win'.query = w.query /\ HitsFit(win')
  BY DrawnIs
<1>2. CASE w.doc = win.doc /\ w.current = win.current /\ WindowPage
  BY <1>1, <1>2, SameDoc DEF WindowFits, DrawnReady
<1>3. CASE w.doc.kind \in {"none", "message"} \/ (w.doc.kind = "html" /\ w.current = NoUrl)
  <2>1. WindowPage'
    BY <1>1, <1>3 DEF WindowPage
  <2> QED BY <1>1, <2>1 DEF WindowFits, DrawnReady
<1> QED BY <1>2, <1>3

(* What the window opens while nothing is fetched. *)
LEMMA WindowQuiet ==
  ASSUME GeminiInv, Ready, con' = con, UNCHANGED <<fetch, peer>>, NavFits',
         \/ win' = win
         \/ WinForm(win') /\ win'.open = TRUE /\ WindowFits'
  PROVE  GeminiInv'
<1>1. win.open = TRUE /\ ~con.open /\ fetch.phase = "idle" /\ ProtoInv
  BY Idles DEF Ready, GeminiInv, OneRuns
<1>2. ProtoInv'
  BY <1>1, QuietKeepsProto
<1>3. WinForm(win') /\ win'.open = TRUE /\ WindowFits'
  BY <1>1, SameWindow
<1> QED BY <1>1, <1>2, <1>3, WindowKeeps

LEMMA StaysFit == GeminiInv /\ nav' = nav => NavFits'
BY DEF GeminiInv, ProtoInv, NavFits

LEMMA OpenGeminiKeeps ==
  ASSUME GeminiInv, Ready, con' = con, UNCHANGED <<fetch, peer>>, NEW ref, OpenGemini(ref)
  PROVE  GeminiInv'
<1>1. NavFits' /\ win' = win
  BY DEF OpenGemini, NoNav, NavFits, NavForm
<1> QED BY <1>1, WindowQuiet

LEMMA MessageIs == Message = Doc(Message.kind, Message.source, Message.blocks) /\ IsSeq(Message.blocks) /\ Message.kind = "message"
<1>1. PICK m : m = MessageBlocks
  OBVIOUS
<1>2. IsSeq(m)
  BY <1>1, SingletonIsSeq DEF MessageBlocks
<1>3. Message = Doc("message", <<>>, m)
  BY <1>1 DEF Message
<1> QED BY <1>2, <1>3 DEF Doc

LEMMA ShowMessageKeeps ==
  ASSUME GeminiInv, Ready, con' = con, UNCHANGED <<fetch, peer>>, ShowMessage
  PROVE  GeminiInv'
<1>1. PICK w, doc : w = [win EXCEPT !.doc = doc, !.viewing = TRUE, !.scroll = 0] /\ doc = Message
  OBVIOUS
<1>2. WinForm(win) /\ HitsFit(win) /\ win.query \in Queries \cup {NoQuery} /\ win.open = TRUE
  BY DEF GeminiInv, WindowFits, OneRuns, Ready
<1>3. /\ WinForm(w) /\ w.doc = doc /\ w.viewing = TRUE /\ w.scroll = 0 /\ w.open = TRUE
      /\ w.query = win.query /\ w.height = win.height
  BY <1>1, <1>2 DEF WinForm
<1>4. DrawnReady(w)
  BY <1>1, <1>2, <1>3, MessageIs DEF DrawnReady, HitsFit, ScrollFits
<1>5. win' = Drawn(w) /\ nav' = nav
  BY <1>1 DEF ShowMessage
<1>6. w.doc.kind = "message"
  BY <1>1, <1>3, MessageIs
<1>7. WinForm(win') /\ win'.open = TRUE /\ WindowFits'
  BY <1>4, <1>5, <1>6, PageShown
<1> QED BY <1>5, <1>7, StaysFit, WindowQuiet

LEMMA OpenHtmlKeeps ==
  ASSUME GeminiInv, Ready, con' = con, UNCHANGED <<fetch, peer>>, NEW name, OpenHtml(name)
  PROVE  GeminiInv'
<1>1. PICK doc : doc = IF name \in DOMAIN HtmlFiles
                       THEN Doc("html", HtmlFiles[name], Html(HtmlFiles[name]).blocks) ELSE NoDoc
  OBVIOUS
<1>2. PICK w : w = [win EXCEPT !.doc = doc, !.viewing = TRUE, !.scroll = 0, !.current = NoUrl]
  OBVIOUS
<1>3. WinForm(win) /\ HitsFit(win) /\ win.query \in Queries \cup {NoQuery} /\ win.open = TRUE
  BY DEF GeminiInv, WindowFits, OneRuns, Ready
<1>4. /\ WinForm(w) /\ w.doc = doc /\ w.viewing = TRUE /\ w.scroll = 0 /\ w.open = TRUE /\ w.current = NoUrl
      /\ w.query = win.query /\ w.height = win.height
  BY <1>2, <1>3 DEF WinForm
<1>5. doc = Doc(doc.kind, doc.source, doc.blocks) /\ IsSeq(doc.blocks) /\ doc.kind \in {"none", "html"}
  <2>1. CASE name \in DOMAIN HtmlFiles
    <3>1. PICK tokens, blocks : tokens = HtmlFiles[name] /\ blocks = Html(tokens).blocks
      OBVIOUS
    <3>2. IsSeq(blocks)
      BY <2>1, <3>1, HtmlIs, GeminiAssumption
    <3>3. doc = Doc("html", tokens, blocks)
      BY <1>1, <2>1, <3>1
    <3> QED BY <3>2, <3>3 DEF Doc
  <2>2. CASE name \notin DOMAIN HtmlFiles
    <3>1. doc = NoDoc /\ <<>> \in Seq({})
      BY <1>1, <2>2
    <3> QED BY <3>1 DEF NoDoc, Doc, IsSeq
  <2> QED BY <2>1, <2>2
<1>6. DrawnReady(w)
  <2>1. w.doc = Doc(w.doc.kind, w.doc.source, w.doc.blocks) /\ IsSeq(w.doc.blocks)
    BY <1>4, <1>5
  <2>2. w.viewing \in BOOLEAN /\ w.open = TRUE
    BY <1>4, Zenon
  <2>3. w.height \in Nat
    BY <1>3, <1>4 DEF HitsFit
  <2> QED BY <1>3, <1>4, <2>1, <2>2, <2>3 DEF DrawnReady, ScrollFits
<1>7. win' = Drawn(w) /\ nav' = nav
  BY <1>1, <1>2 DEF OpenHtml, OpenedHtml
<1>8. WinForm(win') /\ win'.open = TRUE /\ WindowFits'
  BY <1>4, <1>5, <1>6, <1>7, PageShown
<1> QED BY <1>7, <1>8, StaysFit, WindowQuiet

LEMMA DoSearchKeeps ==
  ASSUME GeminiInv, Ready, con' = con, UNCHANGED <<fetch, peer>>, DoSearch
  PROVE  GeminiInv'
<1>1. WinForm(win) /\ HitsFit(win) /\ win.query \in Queries \cup {NoQuery} /\ win.open = TRUE /\ WindowPage
  BY DEF GeminiInv, WindowFits, OneRuns, Ready
<1>2. win.query.kind \in {"none", "gemini", "file", "words"}
  BY <1>1, GeminiAssumption DEF NoQuery
<1>3. CASE win.query.kind = "none"
  <2>1. win' = win /\ nav' = nav
    BY <1>3 DEF DoSearch
  <2> QED BY <2>1, StaysFit, WindowQuiet
<1>4. CASE win.query.kind = "gemini"
  <2>1. OpenGemini(win.query.ref)
    BY <1>4 DEF DoSearch
  <2> QED BY <2>1, OpenGeminiKeeps
<1>5. CASE win.query.kind = "file"
  <2>1. OpenHtml(NameOf(win.query.ref))
    BY <1>5 DEF DoSearch
  <2> QED BY <2>1, OpenHtmlKeeps
<1>6. CASE win.query.kind = "words"
  <2>1. win' = [win EXCEPT !.viewing = FALSE, !.scroll = 0, !.searched = TRUE] /\ nav' = nav
    BY <1>6 DEF DoSearch
  <2>2. /\ WinForm(win') /\ win'.open = TRUE /\ win'.doc = win.doc /\ win'.current = win.current
        /\ win'.viewing = FALSE /\ win'.scroll = 0 /\ win'.query = win.query /\ win'.height = win.height
    BY <1>1, <2>1 DEF WinForm
  <2>3. HitsFit(win')
    <3>1. win'.viewing \in BOOLEAN /\ ~win'.viewing
      BY <2>2, Zenon
    <3> QED BY <1>1, <2>2, <3>1 DEF HitsFit
  <2>4. WindowPage'
    BY <1>1, <2>2, SameDoc
  <2> QED BY <1>1, <2>1, <2>2, <2>3, <2>4, StaysFit, WindowQuiet DEF WindowFits
<1> QED BY <1>2, <1>3, <1>4, <1>5, <1>6

LEMMA NavigateLinkKeeps ==
  ASSUME GeminiInv, Ready, con' = con, UNCHANGED <<fetch, peer>>, NEW href, NavigateLink(href)
  PROVE  GeminiInv'
<1>1. (\E ref : OpenGemini(ref)) \/ ShowMessage \/ (\E name : OpenHtml(name))
  BY Zenon DEF NavigateLink
<1> QED BY <1>1, OpenGeminiKeeps, ShowMessageKeeps, OpenHtmlKeeps

(* The window is opened and closed, and the page is moved. *)
LEMMA FrameKeeps == GeminiInv /\ con' = con /\ ((OpenWindow /\ ~con.open) \/ CloseWindow) => GeminiInv'
<1>1. SUFFICES ASSUME GeminiInv, con' = con, (OpenWindow /\ ~con.open) \/ CloseWindow  PROVE GeminiInv'
  OBVIOUS
<1>2. /\ ~con.open /\ nav = NoNav /\ nav' = nav /\ ProtoInv /\ UNCHANGED <<fetch, peer>> /\ fetch.phase = "idle"
      /\ con.open = FALSE
  <2>1. CASE OpenWindow /\ ~con.open
    BY <1>1, <2>1, NoRefIs, Idles DEF OpenWindow, GeminiInv, OneRuns
  <2>2. CASE CloseWindow
    BY <1>1, <2>2, Idles DEF CloseWindow, Ready, GeminiInv, OneRuns, ProtoInv, NavFits
  <2> QED BY <1>1, <2>1, <2>2
<1>3. ProtoInv'
  BY <1>2, IdleNav, QuietKeepsProto
<1>4. /\ WinForm(win') /\ win'.open \in BOOLEAN /\ win'.doc = NoDoc /\ win'.viewing = FALSE /\ win'.scroll = 0
      /\ win'.height = 0 /\ win'.query = NoQuery /\ (~win'.open => win' = NoWindow)
  <2>1. CASE OpenWindow
    <3>1. win' = [NoWindow EXCEPT !.open = TRUE]
      BY <2>1 DEF OpenWindow
    <3> QED BY <3>1 DEF NoWindow, WinForm
  <2>2. CASE CloseWindow
    <3>1. win' = NoWindow
      BY <2>2 DEF CloseWindow
    <3> QED BY <3>1 DEF NoWindow, WinForm
  <2> QED BY <1>1, <2>1, <2>2
<1>5. NoDoc = Doc(NoDoc.kind, NoDoc.source, NoDoc.blocks) /\ IsSeq(NoDoc.blocks) /\ NoDoc.kind = "none"
  <2>1. <<>> \in Seq({})
    OBVIOUS
  <2> QED BY <2>1 DEF NoDoc, Doc, IsSeq
<1>6. WindowPage'
  BY <1>4, <1>5 DEF WindowPage
<1>7. HitsFit(win')
  <2>1. win'.viewing \in BOOLEAN /\ ~win'.viewing
    BY <1>4, Zenon
  <2>2. win'.doc = Doc(win'.doc.kind, win'.doc.source, win'.doc.blocks) /\ IsSeq(win'.doc.blocks)
    BY <1>4, <1>5
  <2> QED BY <1>4, <2>1, <2>2 DEF HitsFit
<1>8. OneRuns'
  BY <1>1, <1>2, <1>4 DEF OneRuns, GeminiInv
<1> QED BY <1>1, <1>2, <1>3, <1>4, <1>6, <1>7, <1>8 DEF GeminiInv, WindowFits

LEMMA TypeQueryKeeps == GeminiInv /\ con' = con /\ TypeQuery => GeminiInv'
<1>1. SUFFICES ASSUME GeminiInv, con' = con, TypeQuery  PROVE GeminiInv'
  OBVIOUS
<1>2. Ready /\ nav' = nav /\ UNCHANGED <<fetch, peer>>
  BY <1>1 DEF TypeQuery
<1>3. PICK query \in Queries \cup {NoQuery} : win' = Drawn([win EXCEPT !.query = query])
  BY <1>1 DEF TypeQuery
<1>4. PICK w : w = [win EXCEPT !.query = query]
  OBVIOUS
<1>5. WinForm(win) /\ HitsFit(win) /\ WindowPage /\ win.open = TRUE
  BY <1>1, <1>2 DEF GeminiInv, WindowFits, OneRuns, Ready
<1>6. /\ WinForm(w) /\ w.doc = win.doc /\ w.viewing = win.viewing /\ w.scroll = win.scroll /\ w.open = TRUE
      /\ w.query = query /\ w.height = win.height /\ w.current = win.current
  BY <1>4, <1>5 DEF WinForm
<1>7. DrawnReady(w)
  BY <1>5, <1>6 DEF DrawnReady, HitsFit, ScrollFits
<1>8. WinForm(win') /\ win'.open = TRUE /\ WindowFits'
  BY <1>3, <1>4, <1>5, <1>6, <1>7, PageShown
<1> QED BY <1>1, <1>2, <1>8, StaysFit, WindowQuiet

(* A page that is moved by scroll is not moved past its end. *)
LEMMA ScrollPageKeeps == GeminiInv /\ con' = con /\ ScrollPage => GeminiInv'
<1>1. SUFFICES ASSUME GeminiInv, con' = con, ScrollPage  PROVE GeminiInv'
  OBVIOUS
<1>2. Ready /\ nav' = nav /\ UNCHANGED <<fetch, peer>>
  BY <1>1 DEF ScrollPage
<1>3. PICK delta \in {-1, 1} : win' = Drawn([win EXCEPT !.scroll = ScrollTo(delta)])
  BY <1>1 DEF ScrollPage
<1>4. PICK scroll : scroll = ScrollTo(delta)
  OBVIOUS
<1>5. PICK w : w = [win EXCEPT !.scroll = scroll]
  OBVIOUS
<1>6. /\ WinForm(win) /\ HitsFit(win) /\ WindowPage /\ win.open = TRUE /\ win.viewing
      /\ win.query \in Queries \cup {NoQuery}
  BY <1>1, <1>2 DEF GeminiInv, WindowFits, OneRuns, Ready, ScrollPage
<1>7. /\ WinForm(w) /\ w.doc = win.doc /\ w.viewing = win.viewing /\ w.scroll = scroll /\ w.open = TRUE
      /\ w.query = win.query /\ w.height = win.height /\ w.current = win.current
  BY <1>5, <1>6 DEF WinForm
<1>8. scroll \in Nat /\ (scroll = 0 \/ scroll + View <= win.height)
  <2>1. win.height \in Nat /\ win.scroll \in Nat /\ View \in Nat \ {0} /\ delta \in Int
    BY <1>6, WindowAssumption DEF HitsFit
  <2> QED BY <1>4, <2>1 DEF ScrollTo
<1>9. w.doc # NoDoc => ScrollFits(w)
  BY <1>6, <1>7, <1>8 DEF HitsFit, ScrollFits
<1>10. DrawnReady(w)
  BY <1>6, <1>7, <1>8, <1>9 DEF DrawnReady, HitsFit
<1>11. WinForm(win') /\ win'.open = TRUE /\ WindowFits'
  BY <1>3, <1>4, <1>5, <1>6, <1>7, <1>10, PageShown
<1> QED BY <1>1, <1>2, <1>11, StaysFit, WindowQuiet

LEMMA ClickKeeps == GeminiInv /\ con' = con /\ (Click \/ EnterQuery) => GeminiInv'
<1>1. SUFFICES ASSUME GeminiInv, con' = con, Click \/ EnterQuery  PROVE GeminiInv'
  OBVIOUS
<1>2. Ready /\ UNCHANGED <<fetch, peer>>
  BY <1>1 DEF Click, EnterQuery
<1>3. DoSearch \/ (\E href : NavigateLink(href)) \/ UNCHANGED <<win, nav>>
  BY <1>1, Zenon DEF Click, EnterQuery
<1>4. ASSUME UNCHANGED <<win, nav>>  PROVE GeminiInv'
  <2>1. win' = win /\ nav' = nav
    BY <1>4
  <2> QED BY <1>1, <1>2, <2>1, StaysFit, WindowQuiet
<1> QED BY <1>1, <1>2, <1>3, <1>4, DoSearchKeeps, NavigateLinkKeeps

(* A page that was found, as the window shows it. *)
LEMMA GemPageComes ==
  ASSUME ResultFits, Category(fetch.result.status) = 2, NEW source, NEW blocks,
         source = <<fetch.url, Len(fetch.result.body)>>, blocks = ToBlocks(Gemtext(fetch.result.body)),
         win'.doc = Doc("gemini", source, blocks), win'.current = Current
  PROVE  WindowPage' /\ IsSeq(blocks)
<1>1. PICK url, part : url = fetch.url /\ part = fetch.result.body
  OBVIOUS
<1>2. part \in Beginnings(Answer(url))
  BY <1>1 DEF ResultFits
<1>3. part \in Seq(GemLines) /\ OnlyLinksLead(part)
  BY <1>2, BeginningsAre
<1>4. PICK n : n = Len(part)
  OBVIOUS
<1>5. PICK places : places = ShownPlaces(part)
  OBVIOUS
<1>6. /\ IsSeq(blocks) /\ Len(blocks) = Cardinality(places)
      /\ \A i \in places : blocks[Rank(i, places)].href = IF i \in LinkPlaces(part) THEN part[i].ref ELSE NoRef
  BY <1>1, <1>3, <1>5, BlocksMade
<1>7. source[1] = url /\ source[2] = n
  BY <1>1, <1>4
<1>8. PICK doc : doc = win'.doc
  OBVIOUS
<1>9. doc.kind = "gemini" /\ doc.source = source /\ doc.blocks = blocks
  BY <1>8 DEF Doc
<1>10. Category(Answer(url).status) = 2 /\ win'.current = url
  BY <1>1 DEF ResultFits, Current
<1>11. WindowPage'
  <2>1. win'.doc.kind = "gemini" /\ win'.doc.source[1] = url /\ win'.doc.blocks = blocks
    BY <1>7, <1>8, <1>9
  <2>2. Len(part) = win'.doc.source[2]
    BY <1>4, <1>7, <1>8, <1>9
  <2> QED BY <1>2, <1>5, <1>6, <1>10, <2>1, <2>2, Zenon DEF WindowPage
<1> QED BY <1>6, <1>11

LEMMA WindowResponseKeeps == GeminiInv /\ con' = con /\ WindowResponse => GeminiInv'
<1>1. SUFFICES ASSUME GeminiInv, con' = con, WindowResponse  PROVE GeminiInv'
  OBVIOUS
<1>2. /\ ~con.open /\ ProtoInv /\ Answered /\ fetch' = Idle /\ peer' = NoPeer
      /\ WinForm(win) /\ HitsFit(win) /\ WindowPage /\ win.open = TRUE /\ win.query \in Queries \cup {NoQuery}
  BY <1>1 DEF WindowResponse, GeminiInv, OneRuns, WindowFits, Taken
<1>3. ASSUME NavFits', WinForm(win'), win'.open = TRUE, WindowFits'  PROVE GeminiInv'
  BY <1>1, <1>2, <1>3, IdleFits, WindowKeeps
<1>4. PICK result : result = fetch.result
  OBVIOUS
<1>5. CASE result.ok /\ Category(result.status) = 2
  <2>1. PICK source, blocks : source = <<fetch.url, Len(result.body)>> /\ blocks = ToBlocks(Gemtext(result.body))
    OBVIOUS
  <2>2. PICK doc, current : doc = Doc("gemini", source, blocks) /\ current = Current
    OBVIOUS
  <2>3. PICK v : v = [win EXCEPT !.doc = doc, !.current = current]
    OBVIOUS
  <2>4. Shows(v)
    BY <1>1, <1>4, <1>5, <2>1, <2>2, <2>3 DEF WindowResponse
  <2>5. PICK w : w = [v EXCEPT !.viewing = TRUE, !.scroll = 0]
    OBVIOUS
  <2>6. /\ WinForm(w) /\ w.doc = doc /\ w.viewing = TRUE /\ w.scroll = 0 /\ w.open = TRUE /\ w.current = current
        /\ w.query = win.query /\ w.height = win.height
    BY <1>2, <2>3, <2>5 DEF WinForm
  <2>7. win' = Drawn(w) /\ nav' = NoNav
    BY <2>4, <2>5 DEF Shows
  <2>8. ResultFits
    BY <1>2, <1>4, <1>5, FoundIs
  <2>9. IsSeq(blocks)
    <3>1. fetch.result.body \in Seq(GemLines) /\ OnlyLinksLead(fetch.result.body)
      BY <2>8, BeginningsAre DEF ResultFits
    <3> QED BY <1>4, <2>1, <3>1, BlocksMade
  <2>10. DrawnReady(w)
    <3>1. w.doc = Doc(w.doc.kind, w.doc.source, w.doc.blocks) /\ IsSeq(w.doc.blocks)
      BY <2>2, <2>6, <2>9 DEF Doc
    <3>2. w.viewing \in BOOLEAN /\ w.open = TRUE
      BY <2>6, Zenon
    <3>3. w.height \in Nat
      BY <1>2, <2>6 DEF HitsFit
    <3> QED BY <1>2, <2>6, <3>1, <3>2, <3>3 DEF DrawnReady, ScrollFits
  <2>11. /\ WinForm(win') /\ win'.open = TRUE /\ win'.doc = doc /\ win'.current = current
         /\ win'.query = win.query /\ HitsFit(win')
    BY <2>6, <2>7, <2>10, DrawnIs
  <2>12. WindowPage'
    BY <1>4, <1>5, <2>1, <2>2, <2>8, <2>11, GemPageComes
  <2> QED BY <1>2, <1>3, <2>7, <2>11, <2>12, IdleNav DEF WindowFits
<1>6. CASE result.ok /\ Category(result.status) = 3 /\ WindowDeeper <= MaxRedirects
  <2>1. nav' = [nav EXCEPT !.url = RedirectTarget(result.meta), !.depth = WindowDeeper] /\ win' = win
    BY <1>1, <1>4, <1>6 DEF WindowResponse
  <2>2. nav.mode = "fetch"
    BY <1>2, <1>4, <1>6, FoundIs
  <2>3. NavFits'
    BY <1>2, <2>1, <2>2 DEF ProtoInv, NavFits, NavForm
  <2> QED BY <1>1, <1>2, <1>3, <2>1, <2>3, SameWindow
<1>7. CASE ~(result.ok /\ Category(result.status) = 2) /\ ~(result.ok /\ Category(result.status) = 3 /\ WindowDeeper <= MaxRedirects)
  <2>1. Shows([win EXCEPT !.doc = Message])
    BY <1>1, <1>4, <1>7 DEF WindowResponse
  <2>2. PICK doc : doc = Message
    OBVIOUS
  <2>3. PICK v : v = [win EXCEPT !.doc = doc]
    OBVIOUS
  <2>4. PICK w : w = [v EXCEPT !.viewing = TRUE, !.scroll = 0]
    OBVIOUS
  <2>5. /\ WinForm(w) /\ w.doc = doc /\ w.viewing = TRUE /\ w.scroll = 0 /\ w.open = TRUE
        /\ w.query = win.query /\ w.height = win.height
    BY <1>2, <2>3, <2>4 DEF WinForm
  <2>6. win' = Drawn(w) /\ nav' = NoNav
    BY <2>1, <2>2, <2>3, <2>4 DEF Shows
  <2>7. DrawnReady(w)
    <3>1. w.doc = Doc(w.doc.kind, w.doc.source, w.doc.blocks) /\ IsSeq(w.doc.blocks)
      BY <2>2, <2>5, MessageIs
    <3>2. w.viewing \in BOOLEAN /\ w.open = TRUE
      BY <2>5, Zenon
    <3>3. w.height \in Nat
      BY <1>2, <2>5 DEF HitsFit
    <3> QED BY <1>2, <2>5, <3>1, <3>2, <3>3 DEF DrawnReady, ScrollFits
  <2>8. WinForm(win') /\ win'.open = TRUE /\ WindowFits'
    BY <2>2, <2>5, <2>6, <2>7, MessageIs, PageShown
  <2> QED BY <1>3, <2>6, <2>8, IdleNav
<1> QED BY <1>5, <1>6, <1>7

-------------------------------------------------------------------------------
(* All steps. *)

LEMMA NetworkKeeps ==
  ASSUME GeminiInv, con' = con, win' = win, FetchStep \/ Peer
  PROVE  GeminiInv'
<1>1. ProtoInv' /\ nav' = nav
  BY FetchKeepsProto, PeerKeepsProto DEF GeminiInv
<1>2. WinForm(win') /\ WindowFits'
  BY SameWindow
<1>3. ConForm(con') /\ OneRuns'
  BY <1>1 DEF GeminiInv, OneRuns
<1>4. ASSUME con'.open  PROVE ConsoleFits'
  <2>1. ConsoleFits
    BY <1>4 DEF GeminiInv
  <2>2. PageFits'
    BY <2>1, SamePage DEF ConsoleFits
  <2>3. NavRefs' /\ HistoryFits' /\ EntryFits'
    BY <1>1, <2>1 DEF ConsoleFits, NavRefs, HistoryFits, EntryFits
  <2> QED BY <2>2, <2>3 DEF ConsoleFits
<1> QED BY <1>1, <1>2, <1>3, <1>4 DEF GeminiInv

LEMMA GeminiStep == GeminiInv /\ [GNext]_gvars => GeminiInv'
<1>1. SUFFICES ASSUME GeminiInv, [GNext]_gvars  PROVE GeminiInv'
  OBVIOUS
<1>2. CASE Console
  <2>1. win' = win /\ ((StartConsole /\ ~win.open) \/ Key \/ GiveAddress \/ GiveAnswer)
    BY <1>2 DEF Console
  <2> QED BY <1>1, <2>1, ConsoleStarts, KeyKeeps, AddressKeeps, GivenAnswerKeeps
<1>3. CASE Window
  <2>1. /\ con' = con
        /\ (OpenWindow /\ ~con.open) \/ CloseWindow \/ TypeQuery \/ EnterQuery \/ Click \/ ScrollPage
    BY <1>3 DEF Window
  <2> QED BY <1>1, <2>1, FrameKeeps, TypeQueryKeeps, ClickKeeps, ScrollPageKeeps
<1>4. CASE Fetching
  <2>1. \/ FetchStep /\ con' = con /\ win' = win
        \/ HandleResponse /\ win' = win
        \/ WindowResponse /\ con' = con
    BY <1>4 DEF Fetching
  <2> QED BY <1>1, <2>1, NetworkKeeps, ResponseKeeps, WindowResponseKeeps
<1>5. CASE Network
  BY <1>1, <1>5, NetworkKeeps DEF Network
<1>6. CASE UNCHANGED gvars
  <2>1. nav' = nav /\ fetch' = fetch /\ peer' = peer /\ con' = con /\ win' = win
    BY <1>6 DEF gvars
  <2>2. ProtoInv' /\ WinForm(win') /\ WindowFits'
    BY <1>1, <2>1, SameWindow DEF GeminiInv, ProtoInv, NavFits, CallFits, CountsFit, Called, Known, ResultFits
  <2>3. ConForm(con') /\ OneRuns'
    BY <1>1, <2>1 DEF GeminiInv, OneRuns
  <2>4. ASSUME con'.open  PROVE ConsoleFits'
    <3>1. ConsoleFits
      BY <1>1, <2>1, <2>4 DEF GeminiInv
    <3>2. PageFits'
      BY <2>1, <3>1, SamePage DEF ConsoleFits
    <3>3. NavRefs' /\ HistoryFits' /\ EntryFits'
      BY <2>1, <3>1 DEF ConsoleFits, NavRefs, HistoryFits, EntryFits
    <3> QED BY <3>2, <3>3 DEF ConsoleFits
  <2> QED BY <2>2, <2>3, <2>4 DEF GeminiInv
<1> QED BY <1>1, <1>2, <1>3, <1>4, <1>5, <1>6 DEF GNext

LEMMA GeminiAlways == GSpec => []GeminiInv
<1>1. GInit => GeminiInv
  BY StartFits
<1>2. GeminiInv /\ [GNext]_gvars => GeminiInv'
  BY GeminiStep
<1> QED BY <1>1, <1>2, PTL DEF GSpec

LEMMA ClosedHasNoPage == OneRuns /\ con.base # NoUrl => con.open
<1>1. NoConsole.base = NoUrl
  BY DEF NoConsole
<1> QED BY <1>1 DEF OneRuns

(* The page in the console is what the server answers for its url, to where  *)
(* that broke off, the last line then perhaps only the beginning of one; and *)
(* its links are numbered in the order of these lines and lead where they    *)
(* lead from there: handle_response keeps rows, links and url together,      *)
(* however the page was come to.                                             *)
THEOREM ConsolePageTheorem == GSpec => []ConsolePage
<1>1. GeminiInv => ConsolePage
  <2>1. SUFFICES ASSUME GeminiInv  PROVE ConsolePage
    OBVIOUS
  <2>2. CASE con.base # NoUrl
    BY <2>1, <2>2, ClosedHasNoPage DEF GeminiInv, ConsoleFits, PageFits
  <2>3. CASE con.base = NoUrl
    BY <2>3 DEF ConsolePage
  <2> QED BY <2>2, <2>3
<1> QED BY <1>1, GeminiAlways, PTL

(* A link without a scheme stays on the server and the port of its page, and *)
(* has no ".." in its path, for every page a server can answer, wherever it  *)
(* breaks off: resolve and normalize_path stop at the root.                  *)
THEOREM LinksStayTheorem == GSpec => []LinksStayBelowRoot
<1>1. GeminiInv => LinksStayBelowRoot
  <2>1. SUFFICES ASSUME GeminiInv, con.base # NoUrl, NEW i \in DOMAIN con.links,
                        NEW line \in LinesOf(Answer(con.base)), line.ref.scheme = "",
                        con.links[i] = Absolute(con.base, line.ref)
                 PROVE  /\ Host(con.links[i]) = Host(con.base) /\ con.links[i].port = con.base.port
                        /\ ".." \notin Range(con.links[i].segs)
    BY DEF LinksStayBelowRoot
  <2>2. IsRef(con.base) /\ Len(con.base.segs) >= 2 /\ Host(con.base) \in Hosts \cup Literals
    BY <2>1, ClosedHasNoPage DEF GeminiInv, ConsoleFits, PageFits
  <2>3. IsRef(line.ref)
    <3>1. line \in GemLines
      BY <2>1, LinesAre
    <3>2. line.ref \in Refs
      BY <3>1 DEF GemLines
    <3> QED BY <3>2, RefsAre
  <2>4. PICK u : u = ResolveRelative(con.base, line.ref)
    OBVIOUS
  <2>5. /\ IsRef(u) /\ u.port = con.base.port /\ Host(u) = Host(con.base)
        /\ Len(u.segs) \in Nat /\ \A k \in 2 .. Len(u.segs) : u.segs[k] # ".."
    BY <2>2, <2>3, <2>4, ResolvedIs
  <2>6. con.links[i] = u
    BY <2>1, <2>4 DEF Absolute
  <2>7. u.segs[1] # ".."
    BY <2>2, <2>5, GeminiAssumption DEF Host
  <2>8. DOMAIN u.segs = 1 .. Len(u.segs)
    BY <2>5, SeqFacts DEF IsRef
  <2>9. \A k \in DOMAIN u.segs : u.segs[k] # ".."
    BY <2>5, <2>7, <2>8
  <2> QED BY <2>5, <2>6, <2>9 DEF Range
<1> QED BY <1>1, GeminiAlways, PTL

(* A page in the window has its links where the answer of its url has them,  *)
(* to where that broke off, the last line then perhaps only the beginning of *)
(* one, and is resolved against that url; a file is resolved against none.   *)
THEOREM WindowPageTheorem == GSpec => []WindowPage
<1>1. GeminiInv => WindowPage
  BY DEF GeminiInv, WindowFits
<1> QED BY <1>1, GeminiAlways, PTL

(* While a page is shown, the places where a click finds a link are exactly  *)
(* those where the links of that page are drawn, and the page is not moved   *)
(* past its end, however it was opened, moved, redrawn or searched from.     *)
THEOREM HitsMatchTheorem == GSpec => []HitsMatchPage
<1>1. GeminiInv => HitsMatchPage
  BY DEF GeminiInv, WindowFits, HitsFit, ScrollFits, Hits, HitsMatchPage
<1> QED BY <1>1, GeminiAlways, PTL

(* Where a page of html comes from. *)
FromFile(doc) ==
  doc.kind = "html" =>
    \E name \in DOMAIN HtmlFiles : doc.source = HtmlFiles[name] /\ doc.blocks = Html(HtmlFiles[name]).blocks

LEMMA DrawnDoc ==
  ASSUME NEW w, WinForm(w)
  PROVE  Drawn(w).doc = w.doc
<1>1. PICK hits, height : hits = Hits(w) /\ height = Len(w.doc.blocks)
  OBVIOUS
<1>2. /\ [w EXCEPT !.height = 0].doc = w.doc
      /\ [w EXCEPT !.height = height, !.hits = hits].doc = w.doc
  BY DEF WinForm
<1>3. Drawn(w) = w \/ Drawn(w) = [w EXCEPT !.height = 0] \/ Drawn(w) = [w EXCEPT !.height = height, !.hits = hits]
  BY <1>1, Zenon DEF Drawn
<1> QED BY <1>2, <1>3

LEMMA MessageFits == FromFile(Message) /\ FromFile(NoDoc)
BY DEF FromFile, Message, NoDoc, Doc

LEMMA OpenedFits ==
  ASSUME WinForm(win), NEW name, OpenHtml(name)
  PROVE  FromFile(win'.doc)
<1>1. PICK doc : doc = IF name \in DOMAIN HtmlFiles
                       THEN Doc("html", HtmlFiles[name], Html(HtmlFiles[name]).blocks) ELSE NoDoc
  OBVIOUS
<1>2. PICK w : w = [win EXCEPT !.doc = doc, !.viewing = TRUE, !.scroll = 0, !.current = NoUrl]
  OBVIOUS
<1>3. WinForm(w) /\ w.doc = doc
  BY <1>2 DEF WinForm
<1>4. win'.doc = doc
  <2>1. win' = Drawn(w)
    BY <1>1, <1>2 DEF OpenHtml, OpenedHtml
  <2> QED BY <1>3, <2>1, DrawnDoc
<1>5. CASE name \in DOMAIN HtmlFiles
  <2>1. doc = Doc("html", HtmlFiles[name], Html(HtmlFiles[name]).blocks)
    BY <1>1, <1>5
  <2>2. doc.source = HtmlFiles[name] /\ doc.blocks = Html(HtmlFiles[name]).blocks
    BY <2>1 DEF Doc
  <2> QED BY <1>4, <1>5, <2>2 DEF FromFile
<1>6. CASE name \notin DOMAIN HtmlFiles
  BY <1>1, <1>4, <1>6, MessageFits
<1> QED BY <1>5, <1>6

LEMMA ShownMessageFits ==
  ASSUME WinForm(win), ShowMessage
  PROVE  FromFile(win'.doc)
<1>1. PICK doc, w : doc = Message /\ w = [win EXCEPT !.doc = doc, !.viewing = TRUE, !.scroll = 0]
  OBVIOUS
<1>2. WinForm(w) /\ w.doc = doc
  BY <1>1 DEF WinForm
<1>3. win' = Drawn(w)
  BY <1>1 DEF ShowMessage
<1> QED BY <1>1, <1>2, <1>3, DrawnDoc, MessageFits

LEMMA SearchTurns ==
  ASSUME WinForm(win), win.query \in Queries \cup {NoQuery}, DoSearch
  PROVE  win'.doc = win.doc \/ FromFile(win'.doc)
<1>1. win.query.kind \in {"none", "gemini", "file", "words"}
  BY GeminiAssumption DEF NoQuery
<1>2. CASE win.query.kind \in {"none", "gemini"}
  <2>1. win' = win
    BY <1>2 DEF DoSearch, OpenGemini
  <2> QED BY <2>1
<1>3. CASE win.query.kind = "file"
  <2>1. OpenHtml(NameOf(win.query.ref))
    BY <1>3 DEF DoSearch
  <2> QED BY <2>1, OpenedFits
<1>4. CASE win.query.kind = "words"
  <2>1. win' = [win EXCEPT !.viewing = FALSE, !.scroll = 0, !.searched = TRUE]
    BY <1>4 DEF DoSearch
  <2> QED BY <2>1 DEF WinForm
<1> QED BY <1>1, <1>2, <1>3, <1>4

LEMMA LinkTurns ==
  ASSUME WinForm(win), NEW href, NavigateLink(href)
  PROVE  win'.doc = win.doc \/ FromFile(win'.doc)
<1>1. (\E ref : OpenGemini(ref)) \/ ShowMessage \/ (\E name : OpenHtml(name))
  BY Zenon DEF NavigateLink
<1>2. ASSUME NEW ref, OpenGemini(ref)  PROVE win'.doc = win.doc
  BY <1>2 DEF OpenGemini
<1> QED BY <1>1, <1>2, OpenedFits, ShownMessageFits

LEMMA ResponseTurns ==
  ASSUME WinForm(win), WindowResponse
  PROVE  win'.doc = win.doc \/ FromFile(win'.doc)
<1>1. ASSUME NEW v, WinForm(v), Shows(v)  PROVE win'.doc = v.doc
  <2>1. PICK w : w = [v EXCEPT !.viewing = TRUE, !.scroll = 0]
    OBVIOUS
  <2>2. WinForm(w) /\ w.doc = v.doc
    BY <1>1, <2>1 DEF WinForm
  <2>3. win' = Drawn(w)
    BY <1>1, <2>1 DEF Shows
  <2> QED BY <2>2, <2>3, DrawnDoc
<1>2. CASE \E source, lines : Shows([win EXCEPT !.doc = Doc("gemini", source, ToBlocks(lines)), !.current = Current])
  <2>1. PICK source, lines : Shows([win EXCEPT !.doc = Doc("gemini", source, ToBlocks(lines)), !.current = Current])
    BY <1>2
  <2>2. PICK doc, current : doc = Doc("gemini", source, ToBlocks(lines)) /\ current = Current
    OBVIOUS
  <2>3. PICK v : v = [win EXCEPT !.doc = doc, !.current = current]
    OBVIOUS
  <2>4. WinForm(v) /\ v.doc = doc
    BY <2>3 DEF WinForm
  <2>5. win'.doc = doc
    BY <1>1, <2>1, <2>2, <2>3, <2>4
  <2> QED BY <2>2, <2>5 DEF FromFile, Doc
<1>3. CASE Shows([win EXCEPT !.doc = Message])
  <2>1. PICK doc : doc = Message
    OBVIOUS
  <2>2. PICK v : v = [win EXCEPT !.doc = doc]
    OBVIOUS
  <2>3. WinForm(v) /\ v.doc = doc
    BY <2>2 DEF WinForm
  <2>4. win'.doc = doc
    BY <1>1, <1>3, <2>1, <2>2, <2>3
  <2> QED BY <2>1, <2>4, MessageFits
<1>4. \/ win' = win
      \/ \E source, lines : Shows([win EXCEPT !.doc = Doc("gemini", source, ToBlocks(lines)), !.current = Current])
      \/ Shows([win EXCEPT !.doc = Message])
  BY Zenon DEF WindowResponse
<1> QED BY <1>2, <1>3, <1>4

LEMMA DocTurns ==
  ASSUME GeminiInv, [GNext]_gvars
  PROVE  win'.doc = win.doc \/ FromFile(win'.doc)
<1>1. WinForm(win) /\ (win.open => win.query \in Queries \cup {NoQuery})
  BY DEF GeminiInv, WindowFits, OneRuns
<1>2. CASE OpenWindow \/ CloseWindow
  <2>1. win'.doc = NoDoc
    BY <1>2 DEF OpenWindow, CloseWindow, NoWindow
  <2> QED BY <2>1, MessageFits
<1>3. CASE TypeQuery \/ ScrollPage
  <2>1. PICK w : win' = Drawn(w) /\ ((\E query : w = [win EXCEPT !.query = query]) \/ (\E scroll : w = [win EXCEPT !.scroll = scroll]))
    BY <1>3, Zenon DEF TypeQuery, ScrollPage
  <2>2. WinForm(w) /\ w.doc = win.doc
    BY <1>1, <2>1 DEF WinForm
  <2> QED BY <2>1, <2>2, DrawnDoc
<1>4. CASE Click \/ EnterQuery
  <2>1. win.open
    BY <1>4 DEF Click, EnterQuery, Ready
  <2>2. DoSearch \/ (\E href : NavigateLink(href)) \/ UNCHANGED <<win, nav>>
    BY <1>4, Zenon DEF Click, EnterQuery
  <2> QED BY <1>1, <2>1, <2>2, SearchTurns, LinkTurns
<1>5. CASE WindowResponse
  BY <1>1, <1>5, ResponseTurns
<1>6. CASE win' = win
  BY <1>6
<1>7. OpenWindow \/ CloseWindow \/ TypeQuery \/ ScrollPage \/ Click \/ EnterQuery \/ WindowResponse \/ win' = win
  BY DEF GNext, Console, Window, Fetching, Network, gvars
<1> QED BY <1>2, <1>3, <1>4, <1>5, <1>6, <1>7

(* For every file the window can open, of any length: each text outside of   *)
(* its title is a block of the page, in order and once, and the block is     *)
(* that link in which the text stands by <a> and </a>, and none if it stands *)
(* in none (html.rs parse writes out what it read before each tag and at the *)
(* end).  Only after a heading, paragraph or list item that begins or ends   *)
(* in the link may the block be no link; it is never another one.            *)
THEOREM HtmlTextKeptTheorem == GSpec => []HtmlTextKept
<1>1. GInit => FromFile(win.doc)
  BY MessageFits DEF GInit, NoWindow
<1>2. GeminiInv /\ FromFile(win.doc) /\ [GNext]_gvars => FromFile(win.doc)'
  <2>1. SUFFICES ASSUME GeminiInv, FromFile(win.doc), [GNext]_gvars  PROVE FromFile(win'.doc)
    BY DEF FromFile
  <2>2. CASE win'.doc = win.doc
    <3>1. FromFile(win.doc)
      BY <2>1
    <3> QED BY <2>2, <3>1
  <2> QED BY <2>1, <2>2, DocTurns
<1>3. FromFile(win.doc) => HtmlTextKept
  <2>1. SUFFICES ASSUME FromFile(win.doc), win.doc.kind = "html"  PROVE HtmlTextKept
    BY DEF HtmlTextKept
  <2>2. PICK name \in DOMAIN HtmlFiles : win.doc.source = HtmlFiles[name] /\ win.doc.blocks = Html(HtmlFiles[name]).blocks
    BY <2>1 DEF FromFile
  <2>3. HtmlFiles[name] \in Seq(Tokens) /\ Tokenized(HtmlFiles[name])
    BY GeminiAssumption
  <2>4. PICK tokens, blocks : tokens = win.doc.source /\ blocks = win.doc.blocks
    OBVIOUS
  <2>5. HasTexts(blocks, tokens)
    BY <2>2, <2>3, <2>4, HtmlShows
  <2>6. ASSUME NEW i \in Texts(tokens), NEW j \in Written(blocks), Rank(i, Texts(tokens)) = Rank(j, Written(blocks))
        PROVE  /\ blocks[j].text = tokens[i].text
               /\ blocks[j].href = LinkAround(tokens, i) \/ (BlockInLink(tokens, i) /\ blocks[j].href = NoRef)
    <3>1. blocks[j] = Block(tokens[i].text, StyleLink(tokens, i))
      BY <2>5, <2>6 DEF HasTexts
    <3>2. blocks[j].text = tokens[i].text /\ blocks[j].href = StyleLink(tokens, i)
      BY <3>1 DEF Block
    <3>3. i \in Nat
      BY <2>2, <2>3, <2>4, TextsAre
    <3> QED BY <3>2, <3>3, StyleIs
  <2>7. Cardinality(Written(blocks)) = Cardinality(Texts(tokens))
    BY <2>5 DEF HasTexts
  <2> QED BY <2>4, <2>6, <2>7, Zenon DEF HtmlTextKept
<1> QED BY <1>1, <1>2, <1>3, GeminiAlways, PTL DEF GSpec

(* Of the keys, only the one that ends the client changes the page.          *)
LEMMA KeysKeepPage ==
  ASSUME ConForm(con), Key, con'.open
  PROVE  con'.base = con.base
<1>1. CASE QuitKey
  <2>1. con'.open = FALSE
    BY <1>1 DEF QuitKey, NoConsole
  <2> QED BY <2>1
<1>2. CASE ~QuitKey
  <2>1. \/ con' = con
        \/ \E digits : con' = [con EXCEPT !.digits = digits]
        \/ \E scroll : con' = [con EXCEPT !.scroll = scroll]
        \/ \E digits, scroll : con' = [con EXCEPT !.digits = digits, !.scroll = scroll]
        \/ \E history : con' = [con EXCEPT !.history = history]
    <3>1. ScrollKey \/ DigitKey \/ EnterKey \/ BackKey \/ ReloadKey \/ AddressKey
      BY <1>2 DEF Key
    <3>2. CASE ScrollKey
      BY <3>2, Zenon DEF ScrollKey
    <3>3. CASE DigitKey
      BY <3>3, Zenon DEF DigitKey
    <3>4. CASE EnterKey
      BY <3>4, Zenon DEF EnterKey
    <3>5. CASE BackKey
      BY <3>5, Zenon DEF BackKey, Say
    <3>6. CASE ReloadKey \/ AddressKey
      BY <3>6, Zenon DEF ReloadKey, AddressKey, Say
    <3> QED BY <3>1, <3>2, <3>3, <3>4, <3>5, <3>6
  <2> QED BY <2>1 DEF ConForm
<1> QED BY <1>1, <1>2

LEMMA PageTurns ==
  ASSUME GeminiInv, GNext, con.open, con'.open, con'.base # con.base, nav.push \/ Last(con.history).scheme # ""
  PROVE  con'.history # <<>> /\ ParseUrl(Last(con'.history)) = con'.base
<1>1. ConForm(con) /\ ConsoleFits /\ ProtoInv /\ ~win.open
  BY DEF GeminiInv, OneRuns
<1>2. con' # con
  OBVIOUS
<1>3. ASSUME NEW ref, Follow(ref), nav.mode \in {"fetch", "answer"}  PROVE FALSE
  <2>1. Returns(con) \/ con' = con
    BY <1>3 DEF Follow
  <2>2. AfterBack(con) = con
    BY <1>1, <1>3, BackChangesNothing DEF ConsoleFits
  <2> QED BY <1>2, <2>1, <2>2 DEF Returns
<1>4. HandleResponse
  <2>1. ~Key
    BY <1>1, KeysKeepPage
  <2>2. ~GiveAddress /\ ~StartConsole
    BY <1>2 DEF GiveAddress, StartConsole
  <2>3. ~GiveAnswer
    BY <1>3 DEF GiveAnswer
  <2>4. ~Console
    BY <2>1, <2>2, <2>3 DEF Console
  <2>5. ~Window /\ ~Network
    BY <1>2 DEF Window, Network
  <2> QED BY <1>2, <2>4, <2>5 DEF GNext, Fetching
<1>5. Answered /\ nav.mode = "fetch" /\ EntryFits /\ NavRefs /\ HistoryFits
  BY <1>1, <1>4 DEF HandleResponse, ProtoInv, CallFits, Answered, ConsoleFits
<1>6. ~Returns(con)
  <2>1. AfterBack(con) = con
    BY <1>1, <1>5, BackChangesNothing
  <2> QED BY <1>2, <2>1 DEF Returns
<1>7. fetch.result.ok /\ Success
  <2>1. ~AskInput /\ ~Refused
    BY <1>2, <1>6 DEF AskInput, Refused
  <2>2. ~Redirect
    BY <1>3, <1>5, <1>6 DEF Redirect
  <2> QED BY <1>4, <1>6, <2>1, <2>2 DEF HandleResponse
<1>8. con'.base = fetch.url /\ con'.history = IF nav.push THEN Pushed(con.history, nav.url) ELSE con.history
  BY <1>1, <1>5, <1>7, SuccessMakes DEF Base
<1>9. Called /\ Found(nav.url)
  BY <1>1, <1>5, <1>7, FoundIs DEF Success
<1>10. CASE nav.push
  <2>1. con'.history # <<>> /\ Last(con'.history) = nav.url
    BY <1>5, <1>8, <1>9, <1>10, PushedIs DEF HistoryFits, NavRefs
  <2> QED BY <1>8, <1>9, <2>1 DEF Called
<1>11. CASE ~nav.push
  <2>1. con'.history = con.history /\ con.history # <<>> /\ nav.url = Last(con.history)
    BY <1>5, <1>8, <1>11 DEF EntryFits
  <2> QED BY <1>8, <1>9, <2>1 DEF Called
<1> QED BY <1>10, <1>11

(* A page that appears in the console has the last entry of the history,     *)
(* whether it was come to by a link, an address, a redirect, an answer to    *)
(* the server, reload or back: reload asks for it again, and back goes to    *)
(* the one before it.                                                        *)
THEOREM PageHasEntryTheorem == GSpec => PageHasEntry
<1> DEFINE Turned ==
      con.open /\ con'.open /\ con'.base # con.base /\ (nav.push \/ Last(con.history).scheme # "")
        => con'.history # <<>> /\ ParseUrl(Last(con'.history)) = con'.base
<1>1. GeminiInv /\ [GNext]_gvars => [Turned]_gvars
  BY PageTurns
<1>2. GSpec => [][Turned]_gvars
  BY <1>1, GeminiAlways, PTL DEF GSpec
<1> QED BY <1>2, PTL DEF PageHasEntry
================================================================================
