--------------------------- MODULE PathOpsProofs ---------------------------
(***************************************************************************)
(* Proofs about PathOps, for all names, paths, mount paths and limits: cwd *)
(* and the path of an open directory stay normalized, every path is turned *)
(* into one that leads to the same place, and st_ino is the same however a *)
(* file is reached.                                                        *)
(*                                                                         *)
(* FoldLeft and FoldLeftDomain are followed component by component: their  *)
(* results for every prefix are a function (Trace) about which induction   *)
(* proves that the normalized string spells what walking leads to.         *)
(***************************************************************************)
EXTENDS PathOps, SequenceTheorems, WellFoundedInduction, TLAPS

-----------------------------------------------------------------------------
(* Numbers.                                                                *)

\* Induction, over a set: the library's takes a predicate.
LEMMA Induction ==
  ASSUME NEW S, 0 \in S, \A n \in Nat : n \in S => n + 1 \in S
  PROVE  \A n \in Nat : n \in S
<1> DEFINE less == OpToRel(<, Nat)
<1> DEFINE T == {n \in Nat : n \notin S}
<1>1. \A x, y \in Nat : <<y, x>> \in less <=> y < x
  BY DEF OpToRel
<1>2. IsWellFoundedOn(less, Nat)
  BY NatLessThanWellFounded
<1> HIDE DEF less
<1> SUFFICES ASSUME T # {} PROVE FALSE
  OBVIOUS
<1>3. PICK m \in T : \A k \in T : ~(<<k, m>> \in less)
  BY <1>2, WFMin
<1>4. \A k \in T : ~(k < m)
  BY <1>1, <1>3
<1>5. m # 0 /\ m - 1 \in Nat /\ m - 1 \notin T
  BY <1>4
<1> QED
  BY <1>5

LEMMA MaxIs ==
  ASSUME NEW k \in Nat, NEW S \in SUBSET (1 .. k), k \in S
  PROVE  Max(S) = k
<1>1. \A y \in S : k >= y
  OBVIOUS
<1>2. \A x \in S : (\A y \in S : x >= y) => x = k
  OBVIOUS
<1> QED
  BY <1>1, <1>2, Zenon DEF Max

-----------------------------------------------------------------------------
(* The folds, step by step.                                                *)

\* From a directory to what one component leads to.
Enter(node, c) ==
  CASE c \in {"", "."} -> node
    [] c = ".." -> IF node = <<>> THEN node ELSE Front(node)
    [] OTHER -> Append(node, c)

\* __fsa_normpath before its first component, and from one to the next.
NormStart == [out |-> <<>>, stack |-> 0, slash |-> TRUE, tooMany |-> FALSE]

Advance(s, acc, i) == IF acc.tooMany THEN acc ELSE NormStep(s, acc, i)

NormEnd(s) ==
  FoldLeftDomain(LAMBDA acc, i : IF acc.tooMany THEN acc ELSE NormStep(s, acc, i),
                 [out |-> <<>>, stack |-> 0, slash |-> TRUE, tooMany |-> FALSE], s)

\* What FoldLeft computes to walk along k components of s, or to normalize them:
\* the result for every set of positions.
FoldStep(fold, s, acc, i) ==
  IF fold = "walk" THEN Enter(acc, s[i]) ELSE Advance(s, acc, [j \in DOMAIN s |-> j][i])

Iter(g, fold, base, s, k) ==
  g = [S \in SUBSET (1 .. k) |->
         IF S = {} THEN base ELSE FoldStep(fold, s, g[S \ {Max(S)}], Max(S))]

LEMMA IterExists ==
  ASSUME NEW fold, NEW base, NEW s PROVE \A k \in Nat : \E g : Iter(g, fold, base, s, k)
<1> DEFINE K == {k \in Nat : \E g : Iter(g, fold, base, s, k)}
<1>1. 0 \in K
  <2> DEFINE g == [S \in SUBSET (1 .. 0) |-> base]
  <2>1. \A S \in SUBSET (1 .. 0) : S = {}
    OBVIOUS
  <2>2. Iter(g, fold, base, s, 0)
    BY <2>1 DEF Iter
  <2> QED
    BY <2>2
<1>2. ASSUME NEW k \in Nat, k \in K PROVE k + 1 \in K
  <2>1. PICK g : Iter(g, fold, base, s, k)
    BY <1>2
  <2> DEFINE h == [S \in SUBSET (1 .. (k + 1)) |->
                     IF k + 1 \in S THEN FoldStep(fold, s, g[S \ {k + 1}], k + 1) ELSE g[S]]
  <2>2. ASSUME NEW S \in SUBSET (1 .. (k + 1))
        PROVE  h[S] = IF S = {} THEN base ELSE FoldStep(fold, s, h[S \ {Max(S)}], Max(S))
    <3>1. CASE k + 1 \in S
      <4>1. Max(S) = k + 1
        BY <3>1, MaxIs
      <4>2. S \ {k + 1} \in SUBSET (1 .. (k + 1)) /\ k + 1 \notin S \ {k + 1}
        OBVIOUS
      <4>3. h[S \ {k + 1}] = g[S \ {k + 1}]
        BY <4>2
      <4> QED
        BY <3>1, <4>1, <4>3
    <3>2. CASE k + 1 \notin S
      <4>1. S \in SUBSET (1 .. k)
        BY <3>2
      <4>2. PICK m : m = Max(S)
        OBVIOUS
      <4>3. S \ {m} \in SUBSET (1 .. (k + 1)) /\ k + 1 \notin S \ {m}
        BY <3>2
      <4>4. h[S] = g[S] /\ h[S \ {Max(S)}] = g[S \ {Max(S)}]
        BY <3>2, <4>2, <4>3
      <4>5. g[S] = IF S = {} THEN base ELSE FoldStep(fold, s, g[S \ {Max(S)}], Max(S))
        BY <2>1, <4>1 DEF Iter
      <4> QED
        BY <4>4, <4>5
    <3> QED
      BY <3>1, <3>2
  <2>3. h = [S \in SUBSET (1 .. (k + 1)) |-> h[S]]
    OBVIOUS
  <2> HIDE DEF h
  <2>4. Iter(h, fold, base, s, k + 1)
    BY <2>2, <2>3 DEF Iter
  <2> QED
    BY <2>4
<1>3. \A k \in Nat : k \in K
  <2> HIDE DEF K
  <2> QED
    BY <1>1, <1>2, Induction
<1> QED
  BY <1>3

\* The results for the first k positions, for every k.
Trace(w, fold, base, s) ==
  /\ w[0] = base
  /\ \A k \in 1 .. Len(s) : w[k] = FoldStep(fold, s, w[k - 1], k)

LEMMA IterTrace ==
  ASSUME NEW fold, NEW base, NEW V, NEW s \in Seq(V), NEW g, Iter(g, fold, base, s, Len(s))
  PROVE  \E w : Trace(w, fold, base, s) /\ g[1 .. Len(s)] = w[Len(s)]
<1> DEFINE n == Len(s)
<1>1. n \in Nat /\ DOMAIN s = 1 .. n
  OBVIOUS
<1>2. Iter(g, fold, base, s, n)
  OBVIOUS
<1> HIDE DEF n
<1> DEFINE w == [k \in 0 .. n |-> g[1 .. k]]
<1>3. w[0] = base
  <2>1. 1 .. 0 = {} /\ 1 .. 0 \in SUBSET (1 .. n) /\ 0 \in 0 .. n
    BY <1>1
  <2> QED
    BY <1>2, <2>1 DEF Iter
<1>4. ASSUME NEW k \in 1 .. n PROVE w[k] = FoldStep(fold, s, w[k - 1], k)
  <2>1. 1 .. k \in SUBSET (1 .. n) /\ 1 .. k # {} /\ (1 .. k) \ {k} = 1 .. (k - 1)
    BY <1>1
  <2>2. Max(1 .. k) = k
    BY <1>1, MaxIs
  <2>3. k \in 0 .. n /\ k - 1 \in 0 .. n
    BY <1>1
  <2> QED
    BY <1>2, <2>1, <2>2, <2>3 DEF Iter
<1>5. g[1 .. n] = w[n]
  BY <1>1
<1> QED
  BY <1>3, <1>4, <1>5 DEF Trace, n

LEMMA WalkTrace ==
  ASSUME NEW at, NEW V, NEW s \in Seq(V)
  PROVE  \E w : Trace(w, "walk", at, s) /\ Walk(at, s) = w[Len(s)]
<1> DEFINE it == CHOOSE g : Iter(g, "walk", at, s, Len(s))
<1>1. Walk(at, s) = it[1 .. Len(s)]
  <2> DEFINE n == Len(s)
  <2>1. DOMAIN s = 1 .. n
    OBVIOUS
  <2> HIDE DEF n
  <2>2. Walk(at, s) = (CHOOSE g : Iter(g, "walk", at, s, n))[1 .. n]
    BY <2>1 DEF Walk, FoldLeft, MapThenFoldSet, Iter, FoldStep, Enter
  <2> QED
    BY <2>2 DEF n
<1>2. Iter(it, "walk", at, s, Len(s))
  <2>1. Len(s) \in Nat
    OBVIOUS
  <2>2. \E g : Iter(g, "walk", at, s, Len(s))
    BY <2>1, IterExists
  <2> QED
    BY <2>2, Zenon
<1> HIDE DEF it
<1> QED
  BY <1>1, <1>2, IterTrace

LEMMA NormTrace ==
  ASSUME NEW V, NEW s \in Seq(V)
  PROVE  \E w : Trace(w, "norm", NormStart, s) /\ NormEnd(s) = w[Len(s)]
<1> DEFINE it == CHOOSE g : Iter(g, "norm", NormStart, s, Len(s))
<1>1. NormEnd(s) = it[1 .. Len(s)]
  <2> DEFINE n == Len(s)
  <2>1. DOMAIN s = 1 .. n /\ DOMAIN [i \in DOMAIN s |-> i] = 1 .. n
    OBVIOUS
  <2> HIDE DEF n
  <2>2. NormEnd(s) = (CHOOSE g : Iter(g, "norm", NormStart, s, n))[1 .. n]
    BY <2>1 DEF NormEnd, FoldLeftDomain, FoldLeft, MapThenFoldSet, Iter, FoldStep, Advance,
       NormStart
  <2> QED
    BY <2>2 DEF n
<1>2. Iter(it, "norm", NormStart, s, Len(s))
  <2>1. Len(s) \in Nat
    OBVIOUS
  <2>2. \E g : Iter(g, "norm", NormStart, s, Len(s))
    BY <2>1, IterExists
  <2> QED
    BY <2>2, Zenon
<1> HIDE DEF it
<1> QED
  BY <1>1, <1>2, IterTrace

\* Two traces agree as long as their strings do.
LEMMA TracesAgree ==
  ASSUME NEW base, NEW V, NEW s \in Seq(V), NEW t \in Seq(V), NEW w, NEW v,
         Trace(w, "walk", base, s), Trace(v, "walk", base, t),
         NEW m \in Nat, m <= Len(s), m <= Len(t), \A k \in 1 .. m : s[k] = t[k]
  PROVE  w[m] = v[m]
<1> DEFINE K == {k \in Nat : k <= m => w[k] = v[k]}
<1>1. 0 \in K
  BY DEF Trace
<1>2. ASSUME NEW k \in Nat, k \in K PROVE k + 1 \in K
  <2> SUFFICES ASSUME k + 1 <= m PROVE w[k + 1] = v[k + 1]
    OBVIOUS
  <2>1. k + 1 \in 1 .. m /\ k + 1 \in 1 .. Len(s) /\ k + 1 \in 1 .. Len(t) /\ (k + 1) - 1 = k
    OBVIOUS
  <2>2. w[k] = v[k] /\ s[k + 1] = t[k + 1]
    BY <1>2, <2>1
  <2>3. w[k + 1] = Enter(w[k], s[k + 1]) /\ v[k + 1] = Enter(v[k], t[k + 1])
    BY <2>1 DEF Trace, FoldStep
  <2> QED
    BY <2>2, <2>3
<1>3. \A k \in Nat : k \in K
  <2> HIDE DEF K
  <2> QED
    BY <1>1, <1>2, Induction
<1> QED
  BY <1>3

-----------------------------------------------------------------------------
(* Walks.                                                                  *)

LEMMA WalkIs ==
  ASSUME NEW at, NEW V, NEW s \in Seq(V), NEW w, Trace(w, "walk", at, s)
  PROVE  Walk(at, s) = w[Len(s)]
<1>1. PICK v : Trace(v, "walk", at, s) /\ Walk(at, s) = v[Len(s)]
  BY WalkTrace
<1>2. v[Len(s)] = w[Len(s)]
  BY <1>1, TracesAgree
<1> QED
  BY <1>1, <1>2

\* To walk along two strings in a row is to walk along one and then the other.
LEMMA WalkConcat ==
  ASSUME NEW at, NEW V, NEW a \in Seq(V), NEW b \in Seq(V)
  PROVE  Walk(at, a \o b) = Walk(Walk(at, a), b)
<1>0. a \o b \in Seq(V)
  OBVIOUS
<1>1. PICK c \in Seq(V) : c = a \o b
  BY <1>0
<1>2. /\ Len(c) = Len(a) + Len(b) /\ Len(a) \in Nat /\ Len(b) \in Nat
      /\ \A k \in 1 .. Len(a) : c[k] = a[k]
      /\ \A k \in 1 .. Len(b) : c[Len(a) + k] = b[k]
  BY <1>1
<1>3. PICK w : Trace(w, "walk", at, c) /\ Walk(at, c) = w[Len(c)]
  BY WalkTrace
<1>4. PICK v : Trace(v, "walk", at, a) /\ Walk(at, a) = v[Len(a)]
  BY WalkTrace
<1>5. w[Len(a)] = v[Len(a)]
  <2>1. PICK m \in Nat : m = Len(a)
    BY <1>2
  <2>2. m <= Len(c) /\ m <= Len(a) /\ \A k \in 1 .. m : c[k] = a[k]
    BY <1>2, <2>1
  <2>3. w[m] = v[m]
    BY <1>3, <1>4, <2>1, <2>2, TracesAgree
  <2> QED
    BY <2>1, <2>3
<1> DEFINE u == [k \in 0 .. Len(b) |-> w[Len(a) + k]]
<1>6. u[0] = Walk(at, a) /\ u[Len(b)] = Walk(at, c)
  BY <1>2, <1>3, <1>4, <1>5
<1>7. ASSUME NEW k \in 1 .. Len(b) PROVE u[k] = Enter(u[k - 1], b[k])
  <2>1. /\ Len(a) + k \in 1 .. Len(c) /\ k \in 0 .. Len(b) /\ k - 1 \in 0 .. Len(b)
        /\ (Len(a) + k) - 1 = Len(a) + (k - 1)
    BY <1>2
  <2>2. w[Len(a) + k] = Enter(w[(Len(a) + k) - 1], c[Len(a) + k])
    BY <1>3, <2>1 DEF Trace, FoldStep
  <2> QED
    BY <1>2, <2>1, <2>2
<1> HIDE DEF u
<1>8. Trace(u, "walk", Walk(at, a), b)
  BY <1>6, <1>7 DEF Trace, FoldStep
<1> QED
  BY <1>1, <1>6, <1>8, WalkIs

LEMMA ComponentFacts ==
  /\ Names \subseteq Components /\ "" \in Components
  /\ \A n \in Names : n \notin {"", ".", ".."}
  /\ \A c \in Components : c \in Names \/ c \in {"", ".", ".."}
BY ConstantsOK DEF Components

LEMMA EnterType ==
  ASSUME NEW node \in Seq(Names), NEW c \in Components PROVE Enter(node, c) \in Seq(Names)
<1>1. CASE c \in {"", "."}
  BY <1>1 DEF Enter
<1>2. CASE c = ".."
  <2>1. node # <<>> => SubSeq(node, 1, Len(node) - 1) \in Seq(Names)
    OBVIOUS
  <2> QED
    BY <1>2, <2>1 DEF Enter, Front
<1>3. CASE c \in Names
  <2>1. Enter(node, c) = Append(node, c)
    BY <1>3, ComponentFacts DEF Enter
  <2> QED
    BY <1>3, <2>1
<1> QED
  BY <1>1, <1>2, <1>3, ComponentFacts

LEMMA TraceType ==
  ASSUME NEW at \in Seq(Names), NEW s \in Seq(Components), NEW w, Trace(w, "walk", at, s)
  PROVE  \A k \in 0 .. Len(s) : w[k] \in Seq(Names)
<1> DEFINE K == {k \in Nat : k <= Len(s) => w[k] \in Seq(Names)}
<1>1. 0 \in K
  BY DEF Trace
<1>2. ASSUME NEW k \in Nat, k \in K PROVE k + 1 \in K
  <2> SUFFICES ASSUME k + 1 <= Len(s) PROVE w[k + 1] \in Seq(Names)
    OBVIOUS
  <2>1. k + 1 \in 1 .. Len(s) /\ (k + 1) - 1 = k
    OBVIOUS
  <2>2. w[k] \in Seq(Names) /\ s[k + 1] \in Components
    BY <1>2, <2>1
  <2>3. w[k + 1] = Enter(w[k], s[k + 1])
    BY <2>1 DEF Trace, FoldStep
  <2> QED
    BY <2>2, <2>3, EnterType
<1>3. \A k \in Nat : k \in K
  <2> HIDE DEF K
  <2> QED
    BY <1>1, <1>2, Induction
<1> QED
  BY <1>3

\* A walk leads to a directory.
LEMMA WalkType ==
  ASSUME NEW at \in Seq(Names), NEW s \in Seq(Components) PROVE Walk(at, s) \in Seq(Names)
<1>1. PICK w : Trace(w, "walk", at, s) /\ Walk(at, s) = w[Len(s)]
  BY WalkTrace
<1> QED
  BY <1>1, TraceType

\* Names lead down.
LEMMA WalkNames ==
  ASSUME NEW at \in Seq(Names), NEW s \in Seq(Names) PROVE Walk(at, s) = at \o s
<1>1. PICK w : Trace(w, "walk", at, s) /\ Walk(at, s) = w[Len(s)]
  BY WalkTrace
<1> DEFINE K == {k \in Nat : k <= Len(s) => w[k] = at \o SubSeq(s, 1, k)}
<1>2. 0 \in K
  <2>1. at \o SubSeq(s, 1, 0) = at
    OBVIOUS
  <2> QED
    BY <1>1, <2>1 DEF Trace
<1>3. ASSUME NEW k \in Nat, k \in K PROVE k + 1 \in K
  <2> SUFFICES ASSUME k + 1 <= Len(s) PROVE w[k + 1] = at \o SubSeq(s, 1, k + 1)
    OBVIOUS
  <2>1. k + 1 \in 1 .. Len(s) /\ (k + 1) - 1 = k
    OBVIOUS
  <2>2. w[k] = at \o SubSeq(s, 1, k) /\ s[k + 1] \in Names
    BY <1>3, <2>1
  <2>3. w[k + 1] = Enter(w[k], s[k + 1])
    BY <1>1, <2>1 DEF Trace, FoldStep
  <2>4. Enter(w[k], s[k + 1]) = Append(w[k], s[k + 1])
    BY <2>2, ComponentFacts DEF Enter
  <2>5. SubSeq(s, 1, k + 1) = Append(SubSeq(s, 1, k), s[k + 1])
    BY <2>1
  <2>6. at \o Append(SubSeq(s, 1, k), s[k + 1]) = Append(at \o SubSeq(s, 1, k), s[k + 1])
    BY <2>2
  <2> QED
    BY <2>2, <2>3, <2>4, <2>5, <2>6
<1>4. \A k \in Nat : k \in K
  <2> HIDE DEF K
  <2> QED
    BY <1>2, <1>3, Induction
<1>5. SubSeq(s, 1, Len(s)) = s
  OBVIOUS
<1> QED
  BY <1>1, <1>4, <1>5

\* A separator leads nowhere.
LEMMA WalkSeparator ==
  ASSUME NEW at PROVE Walk(at, <<"">>) = at
<1>1. <<"">> \in Seq({""}) /\ Len(<<"">>) = 1 /\ <<"">>[1] = ""
  OBVIOUS
<1>2. PICK w : Trace(w, "walk", at, <<"">>) /\ Walk(at, <<"">>) = w[1]
  BY <1>1, WalkTrace
<1>3. 1 \in 1 .. 1 /\ 1 - 1 = 0
  OBVIOUS
<1>4. w[1] = Enter(w[0], "")
  BY <1>1, <1>2, <1>3 DEF Trace, FoldStep
<1> QED
  BY <1>2, <1>4 DEF Trace, Enter

-----------------------------------------------------------------------------
(* __fsa_normpath walks.                                                   *)

\* How far __fsa_normpath has come with the first components of an absolute
\* string, if there are not too many: it has written the names of the directory
\* they lead to.
Written(acc, node) ==
  /\ acc \in [out : Seq(Names), stack : Nat, slash : BOOLEAN, tooMany : BOOLEAN]
  /\ acc.tooMany \/ (acc.out = node /\ acc.stack = Len(node))

LEMMA WrittenStep ==
  ASSUME NEW s \in Seq(Components), IsAbsolute(s), NEW i \in 1 .. Len(s),
         NEW acc, NEW node \in Seq(Names), Written(acc, node)
  PROVE  /\ Written(Advance(s, acc, i), Enter(node, s[i]))
         /\ i = Len(s) /\ s[i] \in Names /\ ~Advance(s, acc, i).tooMany
              => ~Advance(s, acc, i).slash
<1>0. s[i] \in Components
  OBVIOUS
<1>1. CASE acc.tooMany
  <2>1. Advance(s, acc, i) = acc
    BY <1>1 DEF Advance
  <2> QED
    BY <1>1, <2>1 DEF Written
<1>2. CASE ~acc.tooMany /\ s[i] \in {"", "."}
  <2>1. Advance(s, acc, i) = acc /\ Enter(node, s[i]) = node
    BY <1>2 DEF Advance, NormStep, Enter
  <2> QED
    BY <1>2, <2>1, ComponentFacts
<1>3. CASE ~acc.tooMany /\ s[i] = ".." /\ acc.stack > 0
  <2>1. PICK a : a = [acc EXCEPT !.out = Front(@), !.stack = @ - 1, !.slash = TRUE]
    OBVIOUS
  <2>2. Advance(s, acc, i) = a
    BY <1>3, <2>1 DEF Advance, NormStep
  <2>3. acc.out = node /\ acc.stack = Len(node) /\ node # <<>>
    BY <1>3 DEF Written
  <2>4. Front(node) \in Seq(Names) /\ Len(Front(node)) = Len(node) - 1 /\ Len(node) - 1 \in Nat
    <3>1. Len(node) \in Nat /\ Len(node) # 0
      BY <2>3
    <3>2. Len(node) - 1 \in Nat /\ \A j \in 1 .. (Len(node) - 1) : node[j] \in Names
      BY <3>1
    <3>3. PICK m \in Nat : m = Len(node) - 1
      BY <3>2
    <3>4. 1 \in Int /\ m \in Int /\ \A j \in 1 .. m : node[j] \in Names
      BY <3>2, <3>3
    <3>5. /\ SubSeq(node, 1, m) \in Seq(Names)
          /\ Len(SubSeq(node, 1, m)) = IF 1 <= m THEN m - 1 + 1 ELSE 0
      BY <3>4, SubSeqProperties
    <3>6. Len(SubSeq(node, 1, m)) = m
      BY <3>5
    <3> QED
      BY <3>3, <3>5, <3>6 DEF Front
  <2>5. a = [out |-> Front(node), stack |-> Len(node) - 1, slash |-> TRUE, tooMany |-> FALSE]
    BY <1>3, <2>1, <2>3 DEF Written
  <2>6. Enter(node, s[i]) = Front(node)
    BY <1>3, <2>3 DEF Enter
  <2> QED
    <3>1. PICK f \in Seq(Names) : f = Front(node) /\ Len(f) = Len(node) - 1
      BY <2>4
    <3>2. Written(a, f)
      BY <2>4, <2>5, <3>1 DEF Written
    <3> QED
      BY <1>3, <2>2, <2>6, <3>1, <3>2, ComponentFacts
<1>4. CASE ~acc.tooMany /\ s[i] = ".." /\ ~(acc.stack > 0)
  <2>1. Advance(s, acc, i) = acc
    BY <1>4 DEF Advance, NormStep
  <2>2. node = <<>>
    BY <1>4 DEF Written
  <2>3. Enter(node, s[i]) = node
    BY <1>4, <2>2 DEF Enter
  <2> QED
    BY <1>4, <2>1, <2>3, ComponentFacts
<1>5. CASE ~acc.tooMany /\ s[i] \in Names /\ acc.stack + 1 >= CompMax
  <2>1. Advance(s, acc, i) = [acc EXCEPT !.tooMany = TRUE]
    BY <1>5, ComponentFacts DEF Advance, NormStep
  <2> QED
    BY <2>1 DEF Written
<1>6. CASE ~acc.tooMany /\ s[i] \in Names /\ ~(acc.stack + 1 >= CompMax)
  <2>1. PICK a : a = [acc EXCEPT !.out = Append(@, s[i]), !.stack = @ + 1, !.slash = i < Len(s)]
    OBVIOUS
  <2>2. Advance(s, acc, i) = a
    BY <1>6, <2>1, ComponentFacts DEF Advance, NormStep
  <2>3. acc.out = node /\ acc.stack = Len(node)
    BY <1>6 DEF Written
  <2>4. PICK b \in BOOLEAN : b = (i < Len(s))
    <3>1. CASE i < Len(s)
      <4>1. TRUE = (i < Len(s))
        BY <3>1, Zenon
      <4> QED
        BY <4>1, Zenon
    <3>2. CASE ~(i < Len(s))
      <4>1. (i < Len(s)) = FALSE
        BY <3>2
      <4> QED
        BY <4>1, Zenon
    <3> QED
      BY <3>1, <3>2
  <2>5. a = [acc EXCEPT !.out = Append(@, s[i]), !.stack = @ + 1, !.slash = b]
    BY <2>1, <2>4, Zenon
  <2>6. a = [out |-> Append(node, s[i]), stack |-> Len(node) + 1, slash |-> b,
             tooMany |-> FALSE]
    BY <1>6, <2>3, <2>5 DEF Written
  <2>7. Enter(node, s[i]) = Append(node, s[i])
    BY <1>6, ComponentFacts DEF Enter
  <2>8. Append(node, s[i]) \in Seq(Names) /\ Len(Append(node, s[i])) = Len(node) + 1
    BY <1>6
  <2>9. a.slash = b /\ (b => i # Len(s))
    <3>1. i < Len(s) => i # Len(s)
      OBVIOUS
    <3> QED
      BY <2>4, <2>6, <3>1
  <2> QED
    BY <2>2, <2>6, <2>7, <2>8, <2>9 DEF Written
<1> QED
  BY <1>0, <1>1, <1>2, <1>3, <1>4, <1>5, <1>6, ComponentFacts

\* A string that could be normalized leads where its normal form does, which
\* ends in a separator unless the string ends in a name.
LEMMA NormPathWalks ==
  ASSUME NEW s \in Seq(Components), IsAbsolute(s), NormPath(s) # <<>>
  PROVE  \/ NormPath(s) = <<"">> \o Walk(<<>>, s)
         \/ NormPath(s) = <<"">> \o Walk(<<>>, s) \o <<"">> /\ Last(s) \notin Names
<1>1. PICK v : Trace(v, "norm", NormStart, s) /\ NormEnd(s) = v[Len(s)]
  BY NormTrace
<1>2. PICK w : Trace(w, "walk", <<>>, s) /\ Walk(<<>>, s) = w[Len(s)]
  BY WalkTrace
<1> DEFINE K == {k \in Nat : k <= Len(s) =>
                   /\ Written(v[k], w[k])
                   /\ k = Len(s) /\ s[k] \in Names /\ ~v[k].tooMany => ~v[k].slash}
<1>3. 0 \in K
  <2>1. Written(NormStart, <<>>)
    BY DEF Written, NormStart
  <2>2. Len(s) # 0
    <3>1. Len(s) > 1
      BY DEF IsAbsolute
    <3> QED
      BY <3>1
  <2> QED
    BY <1>1, <1>2, <2>1, <2>2 DEF Trace
<1>4. ASSUME NEW k \in Nat, k \in K PROVE k + 1 \in K
  <2> SUFFICES ASSUME k + 1 <= Len(s)
               PROVE  /\ Written(v[k + 1], w[k + 1])
                      /\ k + 1 = Len(s) /\ s[k + 1] \in Names /\ ~v[k + 1].tooMany
                           => ~v[k + 1].slash
    OBVIOUS
  <2>1. k + 1 \in 1 .. Len(s) /\ (k + 1) - 1 = k /\ k \in 0 .. Len(s)
    OBVIOUS
  <2>2. w[k] \in Seq(Names)
    <3>1. <<>> \in Seq(Names)
      OBVIOUS
    <3> QED
      BY <1>2, <2>1, <3>1, TraceType
  <2>3. Written(v[k], w[k])
    BY <1>4, <2>1
  <2>4. w[k + 1] = Enter(w[k], s[k + 1])
    BY <1>2, <2>1 DEF Trace, FoldStep
  <2>5. v[k + 1] = Advance(s, v[k], k + 1)
    <3>1. [j \in DOMAIN s |-> j][k + 1] = k + 1
      BY <2>1
    <3> QED
      BY <1>1, <2>1, <3>1 DEF Trace, FoldStep
  <2> QED
    BY <2>1, <2>2, <2>3, <2>4, <2>5, WrittenStep
<1>5. \A k \in Nat : k \in K
  <2> HIDE DEF K
  <2> QED
    BY <1>3, <1>4, Induction
<1>6. /\ Written(NormEnd(s), Walk(<<>>, s))
      /\ Last(s) \in Names /\ ~NormEnd(s).tooMany => ~NormEnd(s).slash
  BY <1>1, <1>2, <1>5 DEF Last
<1>7. PICK end : end = NormEnd(s)
  OBVIOUS
<1>8. PICK node : node = Walk(<<>>, s)
  OBVIOUS
<1>9. NormPath(s) =
        LET tail == IF end.slash THEN <<"">> ELSE <<>>
        IN CASE end.tooMany -> <<>>
             [] ~end.tooMany /\ IsAbsolute(s) -> <<"">> \o end.out \o tail
             [] ~end.tooMany /\ ~IsAbsolute(s) /\ end.out = <<>> -> <<".", "">>
             [] OTHER -> end.out \o tail
  BY <1>7 DEF NormPath, NormEnd
<1>10. ~end.tooMany
  BY <1>9
<1>11. end.out = node /\ node \in Seq(Names) /\ end.slash \in BOOLEAN
  BY <1>6, <1>7, <1>8, <1>10 DEF Written
<1>12. NormPath(s) = <<"">> \o node \o (IF end.slash THEN <<"">> ELSE <<>>)
  BY <1>9, <1>10, <1>11
<1>13. (<<"">> \o node) \o <<>> = <<"">> \o node
  BY <1>11
<1> QED
  BY <1>6, <1>7, <1>8, <1>10, <1>11, <1>12, <1>13

-----------------------------------------------------------------------------
(* Strings that lead to a directory.                                       *)

\* The empty component, by a name: the SMT backend fails on "".
Sep == ""

\* What chdir and diropen keep of a path to a directory.
Base(at) == <<Sep>> \o at

\* After a FSAChangeDir that failed, the root has a separator more.
Leads(s, at) == at \in Seq(Names) /\ (s = Base(at) \/ (s = Root /\ at = <<>>))

LEMMA SepFacts ==
  /\ Sep \in Components /\ Sep \notin Names /\ Names \subseteq Components
  /\ Root = <<Sep, Sep>>
  /\ \A at : Walk(at, <<Sep>>) = at
  /\ \A s : IsAbsolute(s) <=> Len(s) > 1 /\ s[1] = Sep
<1>1. Sep \in Components /\ Names \subseteq Components
  BY ComponentFacts, Zenon DEF Sep
<1>2. Sep \notin Names
  BY ComponentFacts, Zenon DEF Sep
<1>3. \A s : IsAbsolute(s) <=> Len(s) > 1 /\ s[1] = Sep
  BY Zenon DEF Sep, IsAbsolute
<1>4. \A at : Walk(at, <<Sep>>) = at
  BY WalkSeparator, Zenon DEF Sep
<1> QED
  BY <1>1, <1>2, <1>3, <1>4, Zenon DEF Root, Sep

LEMMA ConstantFacts ==
  /\ \A p \in Paths : p \in Seq(Components) /\ p # <<>>
  /\ MountPath \in Seq(Names \cup {Sep}) /\ MountPath # <<>> /\ Head(MountPath) = Sep
  /\ \A i \in 2 .. Len(MountPath) : MountPath[i] # Sep
  /\ MaxPath \in Nat
<1>1. Paths \subseteq Seq(Components) \ {<<>>} /\ MaxPath \in Nat
  BY ConstantsOK, Zenon
<1>2. /\ MountPath \in Seq(Names \cup {Sep}) \ {<<>>} /\ Head(MountPath) = Sep
      /\ \A i \in 2 .. Len(MountPath) : MountPath[i] # Sep
  BY ConstantsOK, Zenon DEF Sep
<1> QED
  BY <1>1, <1>2, Zenon

LEMMA SeqNarrowed ==
  ASSUME NEW S, NEW T, NEW s \in Seq(S), \A i \in 1 .. Len(s) : s[i] \in T
  PROVE  s \in Seq(T)
<1>1. Len(s) \in Nat /\ s \in [1 .. Len(s) -> S]
  BY LenProperties
<1>2. s \in [1 .. Len(s) -> T]
  BY <1>1
<1> QED
  BY <1>1, <1>2, SeqDef

LEMMA Separator ==
  <<Sep>> \in Seq(Components) /\ Len(<<Sep>>) = 1 /\ <<Sep>>[1] = Sep
BY SepFacts

LEMMA NamesAreComponents == \A s \in Seq(Names) : s \in Seq(Components)
BY SepFacts, SeqMonotonic

LEMMA BaseFacts ==
  ASSUME NEW at \in Seq(Names)
  PROVE  /\ Base(at) \in Seq(Components) /\ Len(Base(at)) = Len(at) + 1 /\ Base(at)[1] = Sep
         /\ \A i \in 1 .. Len(at) : Base(at)[i + 1] = at[i]
<1>1. PICK q \in Seq(Components) : q = <<Sep>> /\ Len(q) = 1 /\ q[1] = Sep
  BY Separator
<1>2. at \in Seq(Components) /\ Len(at) \in Nat
  BY NamesAreComponents
<1>3. /\ q \o at \in Seq(Components) /\ Len(q \o at) = Len(q) + Len(at)
      /\ \A i \in 1 .. Len(q) + Len(at) :
           (q \o at)[i] = IF i <= Len(q) THEN q[i] ELSE at[i - Len(q)]
  BY <1>2, ConcatProperties
<1>4. (q \o at)[1] = Sep /\ \A i \in 1 .. Len(at) : (q \o at)[i + 1] = at[i]
  <2>1. 1 \in 1 .. Len(q) + Len(at) /\ 1 <= Len(q)
    BY <1>1, <1>2
  <2>2. ASSUME NEW i \in 1 .. Len(at) PROVE (q \o at)[i + 1] = at[i]
    <3>1. i + 1 \in 1 .. Len(q) + Len(at) /\ ~(i + 1 <= Len(q)) /\ (i + 1) - Len(q) = i
      BY <1>1, <1>2
    <3> QED
      BY <1>3, <3>1
  <2> QED
    BY <1>1, <1>3, <2>1, <2>2
<1> QED
  BY <1>1, <1>2, <1>3, <1>4 DEF Base

LEMMA RootIs == Root = <<Sep>> \o <<Sep>>
BY SepFacts

LEMMA LeadsFacts ==
  ASSUME NEW s, NEW at, Leads(s, at)
  PROVE  /\ s \in Seq(Components) /\ Len(s) \in Nat /\ Len(s) >= 1 /\ s[1] = Sep
         /\ at \in Seq(Names)
<1>0. at \in Seq(Names) /\ Len(at) \in Nat
  BY DEF Leads
<1>1. CASE s = Base(at)
  BY <1>0, <1>1, BaseFacts
<1>2. CASE s = Root
  BY <1>0, <1>2, SepFacts
<1> QED
  BY <1>1, <1>2 DEF Leads

\* To go on from a directory is to go on along the string that leads to it.
LEMMA LeadsWalk ==
  ASSUME NEW s, NEW at, Leads(s, at), NEW b \in Seq(Components)
  PROVE  Walk(<<>>, s \o b) = Walk(at, b)
<1>1. s \in Seq(Components) /\ at \in Seq(Names) /\ at \in Seq(Components)
  BY LeadsFacts, NamesAreComponents
<1>2. PICK q \in Seq(Components) : q = <<Sep>>
  BY Separator
<1>3. \A d : Walk(d, q) = d
  BY <1>2, SepFacts
<1>4. PICK top \in Seq(Names) : top = <<>>
  BY EmptySeq
<1>5. Walk(top, s) = at
  <2>1. CASE s = Base(at)
    <3>1. Walk(top, q \o at) = Walk(Walk(top, q), at)
      BY <1>1, WalkConcat
    <3>2. Walk(top, at) = top \o at
      BY <1>1, WalkNames
    <3>3. top \o at = at
      BY <1>1, <1>4
    <3> QED
      BY <1>2, <1>3, <2>1, <3>1, <3>2, <3>3 DEF Base
  <2>2. CASE s = Root /\ at = <<>>
    <3>1. Walk(top, q \o q) = Walk(Walk(top, q), q)
      BY WalkConcat
    <3> QED
      BY <1>2, <1>3, <1>4, <2>2, <3>1, RootIs
  <2> QED
    BY <2>1, <2>2 DEF Leads
<1>6. Walk(top, s \o b) = Walk(Walk(top, s), b)
  BY <1>1, WalkConcat
<1> QED
  BY <1>4, <1>5, <1>6

LEMMA MountLeads == Leads(MountPath, Tail(MountPath))
<1> DEFINE S == Names \cup {Sep}
<1>1. /\ MountPath \in Seq(S) /\ MountPath # <<>> /\ Head(MountPath) = Sep
      /\ \A i \in 2 .. Len(MountPath) : MountPath[i] # Sep
  BY ConstantFacts
<1>0. S \subseteq Components /\ \A c \in S : c # Sep => c \in Names
  BY SepFacts
<1> HIDE DEF S
<1>2. Len(MountPath) \in Nat /\ Len(MountPath) >= 1 /\ MountPath[1] = Sep
  BY <1>1, EmptySeq
<1>3. PICK t : t = Tail(MountPath)
  OBVIOUS
<1>4. /\ t \in Seq(S) /\ Len(t) = Len(MountPath) - 1
      /\ \A i \in 1 .. Len(t) : t[i] = MountPath[i + 1]
  BY <1>1, <1>3, HeadTailProperties
<1>5. t \in Seq(Names)
  <2>1. ASSUME NEW i \in 1 .. Len(t) PROVE t[i] \in Names
    <3>1. i + 1 \in 2 .. Len(MountPath) /\ i + 1 \in 1 .. Len(MountPath)
      BY <1>2, <1>4
    <3>2. MountPath[i + 1] # Sep /\ MountPath[i + 1] \in S
      BY <1>1, <3>1
    <3> QED
      BY <1>0, <1>4, <3>2
  <2> QED
    BY <1>4, <2>1, SeqNarrowed
<1>6. MountPath = Base(t)
  <2>1. /\ Base(t) \in Seq(Components) /\ Len(Base(t)) = Len(t) + 1 /\ Base(t)[1] = Sep
        /\ \A i \in 1 .. Len(t) : Base(t)[i + 1] = t[i]
    BY <1>5, BaseFacts
  <2>2. Len(Base(t)) = Len(MountPath)
    BY <1>2, <1>4, <2>1
  <2>3. ASSUME NEW i \in 1 .. Len(MountPath) PROVE MountPath[i] = Base(t)[i]
    <3>1. CASE i = 1
      BY <1>2, <2>1, <3>1
    <3>2. CASE i # 1
      <4>1. i - 1 \in 1 .. Len(t) /\ (i - 1) + 1 = i
        BY <1>2, <1>4, <3>2
      <4> QED
        BY <1>4, <2>1, <4>1
    <3> QED
      BY <3>1, <3>2
  <2>4. MountPath \in Seq(Components)
    BY <1>0, <1>1, SeqMonotonic
  <2> QED
    BY <2>1, <2>2, <2>3, <2>4, SeqEqual
<1> QED
  BY <1>3, <1>5, <1>6 DEF Leads

-----------------------------------------------------------------------------
(* Paths.                                                                  *)

LEMMA PathFacts ==
  ASSUME NEW p \in Paths
  PROVE  p \in Seq(Components) /\ p # <<>> /\ Len(p) \in Nat /\ Len(p) >= 1
<1>1. p \in Seq(Components) /\ p # <<>>
  BY ConstantFacts
<1> QED
  BY <1>1

\* A string that leads to a directory, and then another string.
LEMMA Glued ==
  ASSUME NEW s, NEW at, Leads(s, at), NEW b \in Seq(Components), Len(b) >= 1
  PROVE  /\ s \o b \in Seq(Components) /\ IsAbsolute(s \o b)
         /\ Walk(<<>>, s \o b) = Walk(at, b) /\ Walk(at, b) \in Seq(Names)
         /\ Last(s \o b) = Last(b)
<1>1. /\ s \in Seq(Components) /\ Len(s) \in Nat /\ Len(s) >= 1 /\ s[1] = Sep
      /\ at \in Seq(Names) /\ Len(b) \in Nat
  BY LeadsFacts
<1>2. PICK c : c = s \o b
  OBVIOUS
<1>3. /\ c \in Seq(Components) /\ Len(c) = Len(s) + Len(b)
      /\ \A i \in 1 .. Len(s) + Len(b) : c[i] = IF i <= Len(s) THEN s[i] ELSE b[i - Len(s)]
  BY <1>1, <1>2, ConcatProperties
<1>4. IsAbsolute(c)
  <2>1. Len(c) > 1 /\ c[1] = Sep
    BY <1>1, <1>3
  <2> QED
    BY <2>1, SepFacts
<1>5. Last(c) = Last(b)
  <2>1. /\ Len(c) \in 1 .. Len(s) + Len(b) /\ ~(Len(c) <= Len(s))
        /\ Len(c) - Len(s) = Len(b)
    BY <1>1, <1>3
  <2>2. c[Len(c)] = b[Len(b)]
    BY <1>3, <2>1
  <2> QED
    BY <2>2 DEF Last
<1>6. Walk(<<>>, s \o b) = Walk(at, b)
  BY LeadsWalk
<1>7. Walk(at, b) \in Seq(Names)
  BY <1>1, WalkType
<1> QED
  BY <1>2, <1>3, <1>4, <1>5, <1>6, <1>7

\* An absolute path is a separator and a string, which leads to the same place.
LEMMA AbsoluteTail ==
  ASSUME NEW p \in Seq(Components), IsAbsolute(p)
  PROVE  /\ Tail(p) \in Seq(Components) /\ Len(Tail(p)) >= 1 /\ Last(Tail(p)) = Last(p)
         /\ \A at : Walk(at, p) = Walk(at, Tail(p))
<1>1. Len(p) \in Nat /\ Len(p) > 1 /\ p[1] = Sep
  BY SepFacts
<1>2. PICK t : t = Tail(p)
  OBVIOUS
<1>3. /\ t \in Seq(Components) /\ Len(t) = Len(p) - 1
      /\ \A i \in 1 .. Len(t) : t[i] = p[i + 1]
  BY <1>1, <1>2
<1>4. Last(t) = Last(p)
  <2>1. Len(t) \in 1 .. Len(t) /\ Len(t) + 1 = Len(p)
    BY <1>1, <1>3
  <2> QED
    BY <1>3, <2>1 DEF Last
<1>5. p = <<Sep>> \o t
  <2>1. PICK q \in Seq(Components) : q = <<Sep>> /\ Len(q) = 1 /\ q[1] = Sep
    BY Separator
  <2>2. PICK c : c = q \o t
    OBVIOUS
  <2>3. /\ c \in Seq(Components) /\ Len(c) = Len(q) + Len(t)
        /\ \A i \in 1 .. Len(q) + Len(t) :
             c[i] = IF i <= Len(q) THEN q[i] ELSE t[i - Len(q)]
    BY <1>3, <2>2, ConcatProperties
  <2>4. Len(c) = Len(p)
    BY <1>1, <1>3, <2>1, <2>3
  <2>5. ASSUME NEW i \in 1 .. Len(p) PROVE p[i] = c[i]
    <3>1. CASE i = 1
      <4>1. 1 \in 1 .. Len(q) + Len(t) /\ 1 <= Len(q)
        BY <1>1, <1>3, <2>1
      <4> QED
        BY <1>1, <2>1, <2>3, <3>1, <4>1
    <3>2. CASE i # 1
      <4>1. /\ i \in 1 .. Len(q) + Len(t) /\ ~(i <= Len(q))
            /\ i - Len(q) \in 1 .. Len(t) /\ (i - Len(q)) + 1 = i
        BY <1>1, <1>3, <2>1, <3>2
      <4> QED
        BY <1>3, <2>3, <4>1
    <3> QED
      BY <3>1, <3>2
  <2>6. p = c
    BY <2>3, <2>4, <2>5, SeqEqual
  <2> QED
    BY <2>1, <2>2, <2>6
<1>6. ASSUME NEW at PROVE Walk(at, p) = Walk(at, t)
  <2>1. PICK q \in Seq(Components) : q = <<Sep>>
    BY Separator
  <2>2. Walk(at, q \o t) = Walk(Walk(at, q), t)
    BY <1>3, WalkConcat
  <2> QED
    BY <1>5, <2>1, <2>2, SepFacts
<1>7. Len(t) >= 1
  BY <1>1, <1>3
<1> QED
  BY <1>2, <1>3, <1>4, <1>6, <1>7

\* What __fsa_fixpath glues together leads where the path leads.
LEMMA AbsoluteFacts ==
  ASSUME NEW p \in Paths, Leads(cwd, here)
  PROVE  /\ Absolute(p) \in Seq(Components) /\ IsAbsolute(Absolute(p))
         /\ Walk(<<>>, Absolute(p)) = Resolve(p) /\ Resolve(p) \in Seq(Names)
         /\ Last(Absolute(p)) = Last(p)
<1>0. p \in Seq(Components) /\ p # <<>> /\ Len(p) \in Nat /\ Len(p) >= 1
  BY PathFacts
<1>1. CASE ~IsAbsolute(p)
  <2>1. Absolute(p) = cwd \o p /\ Resolve(p) = Walk(here, p)
    BY <1>1 DEF Absolute, Resolve
  <2> QED
    BY <1>0, <2>1, Glued
<1>2. CASE IsAbsolute(p)
  <2>1. PICK t : t = Tail(p)
    OBVIOUS
  <2>2. /\ t \in Seq(Components) /\ Len(t) >= 1 /\ Last(t) = Last(p)
        /\ \A at : Walk(at, p) = Walk(at, t)
    BY <1>0, <1>2, <2>1, AbsoluteTail
  <2>3. Absolute(p) = MountPath \o t /\ Resolve(p) = Walk(Tail(MountPath), t)
    BY <1>2, <2>1, <2>2 DEF Absolute, Resolve
  <2> QED
    BY <2>2, <2>3, Glued, MountLeads
<1> QED
  BY <1>1, <1>2

\* __fsa_fixpath succeeds only with a string it has normalized.
LEMMA FixPathIs ==
  ASSUME NEW p \in Paths, FixPath(p).errno = "OK"
  PROVE  FixPath(p).path = NormPath(Absolute(p)) /\ NormPath(Absolute(p)) # <<>>
<1>1. PICK norm : norm = NormPath(Absolute(p))
  OBVIOUS
<1>2. PICK empty \in BOOLEAN : empty <=> p = <<"">>
  OBVIOUS
<1>3. FixPath(p) =
        CASE empty -> [errno |-> "ENOENT", path |-> <<>>]
          [] ~empty /\ norm = <<>> -> [errno |-> "EIO", path |-> <<>>]
          [] ~empty /\ Len(norm) > MaxPath -> [errno |-> "ENAMETOOLONG", path |-> <<>>]
          [] OTHER -> [errno |-> "OK", path |-> norm]
  BY <1>1, <1>2, Zenon DEF FixPath
<1>4. Len(<<>>) = 0 /\ ~(Len(<<>>) > MaxPath)
  BY ConstantFacts
<1>5. norm # <<>> /\ FixPath(p).path = norm
  BY <1>3, <1>4
<1> QED
  BY <1>1, <1>5

\* A path that is sent to FSA names what the caller's path leads to, and ends in
\* a separator only if that path does not end in a name.
LEMMA FixPathFacts ==
  ASSUME NEW p \in Paths, Leads(cwd, here), FixPath(p).errno = "OK"
  PROVE  /\ Resolve(p) \in Seq(Names)
         /\ \/ FixPath(p).path = Base(Resolve(p))
            \/ FixPath(p).path = Base(Resolve(p)) \o <<Sep>> /\ Last(p) \notin Names
<1>1. PICK abs : abs = Absolute(p)
  OBVIOUS
<1>2. /\ abs \in Seq(Components) /\ IsAbsolute(abs) /\ NormPath(abs) # <<>>
      /\ Walk(<<>>, abs) = Resolve(p) /\ Resolve(p) \in Seq(Names) /\ Last(abs) = Last(p)
  BY <1>1, AbsoluteFacts, FixPathIs
<1>3. \/ NormPath(abs) = <<Sep>> \o Walk(<<>>, abs)
      \/ NormPath(abs) = <<Sep>> \o Walk(<<>>, abs) \o <<Sep>> /\ Last(abs) \notin Names
  BY <1>2, NormPathWalks, Zenon DEF Sep
<1> QED
  BY <1>1, <1>2, <1>3, FixPathIs DEF Base

\* Without the separator it is what chdir and diropen keep.
LEMMA TrimmedFacts ==
  ASSUME NEW p \in Paths, Leads(cwd, here), FixPath(p).errno = "OK"
  PROVE  Trimmed(FixPath(p).path) = Base(Resolve(p))
<1>1. PICK at \in Seq(Names) : at = Resolve(p)
  BY FixPathFacts
<1>2. PICK s : s = Base(at)
  OBVIOUS
<1>3. /\ s \in Seq(Components) /\ Len(s) = Len(at) + 1 /\ s[1] = Sep /\ Len(at) \in Nat
      /\ \A i \in 1 .. Len(at) : s[i + 1] = at[i]
  BY <1>2, BaseFacts
<1>4. \A r : Trimmed(r) = IF Len(r) > 1 /\ r[Len(r)] = Sep THEN SubSeq(r, 1, Len(r) - 1) ELSE r
  BY Zenon DEF Trimmed, Last, Front, Sep
<1>5. Trimmed(s) = s
  <2>1. CASE Len(at) = 0
    BY <1>3, <1>4, <2>1
  <2>2. CASE Len(at) # 0
    <3>1. Len(at) \in 1 .. Len(at) /\ Len(at) + 1 = Len(s)
      BY <1>3, <2>2
    <3>2. s[Len(s)] = at[Len(at)] /\ at[Len(at)] \in Names
      BY <1>1, <1>3, <3>1
    <3> QED
      BY <1>4, <3>2, SepFacts
  <2> QED
    BY <2>1, <2>2
<1>6. Trimmed(s \o <<Sep>>) = s
  <2>1. PICK q \in Seq(Components) : q = <<Sep>> /\ Len(q) = 1 /\ q[1] = Sep
    BY Separator
  <2>2. PICK r : r = s \o q
    OBVIOUS
  <2>3. /\ r \in Seq(Components) /\ Len(r) = Len(s) + Len(q)
        /\ \A i \in 1 .. Len(s) + Len(q) : r[i] = IF i <= Len(s) THEN s[i] ELSE q[i - Len(s)]
    BY <1>3, <2>2, ConcatProperties
  <2>4. Len(r) > 1 /\ r[Len(r)] = Sep
    <3>1. /\ Len(r) \in 1 .. Len(s) + Len(q) /\ ~(Len(r) <= Len(s)) /\ Len(r) - Len(s) = 1
          /\ Len(r) > 1
      BY <1>3, <2>1, <2>3
    <3> QED
      BY <2>1, <2>3, <3>1
  <2>5. PICK f : f = SubSeq(r, 1, Len(r) - 1)
    OBVIOUS
  <2>6. Len(r) - 1 = Len(s) /\ Len(s) \in Nat /\ Len(s) <= Len(r)
    BY <1>3, <2>1, <2>3
  <2>7. f \in Seq(Components) /\ Len(f) = Len(s) /\ \A i \in 1 .. Len(s) : f[i] = r[i]
    BY <2>3, <2>5, <2>6
  <2>8. \A i \in 1 .. Len(s) : f[i] = s[i]
    BY <2>1, <2>3, <2>6, <2>7
  <2>9. f = s
    BY <1>3, <2>7, <2>8, SeqEqual
  <2> QED
    BY <1>4, <2>1, <2>2, <2>4, <2>5, <2>9
<1> QED
  BY <1>1, <1>2, <1>5, <1>6, FixPathFacts

\* The errno of __fsa_fixpath.
LEMMA FixPathErrno ==
  ASSUME NEW p PROVE FixPath(p).errno \in {"OK", "ENOENT", "EIO", "ENAMETOOLONG"}
<1>1. PICK norm : norm = NormPath(Absolute(p))
  OBVIOUS
<1>2. PICK empty \in BOOLEAN : empty <=> p = <<"">>
  OBVIOUS
<1>3. PICK long \in BOOLEAN : long <=> Len(norm) > MaxPath
  OBVIOUS
<1>4. FixPath(p) =
        CASE empty -> [errno |-> "ENOENT", path |-> <<>>]
          [] ~empty /\ norm = <<>> -> [errno |-> "EIO", path |-> <<>>]
          [] ~empty /\ long -> [errno |-> "ENAMETOOLONG", path |-> <<>>]
          [] OTHER -> [errno |-> "OK", path |-> norm]
  BY <1>1, <1>2, <1>3, Zenon DEF FixPath
<1> QED
  BY <1>4

-----------------------------------------------------------------------------
(* The invariant.                                                          *)

ErrnoOK == errno \in {"OK", "FSA", "ENOENT", "EIO", "ENAMETOOLONG", "ENOMEM", "ENOSYS"}

\* The path of the open directory leads to it.
DirOK == IF dirPath = <<>> THEN dirAt = <<>> ELSE dirAt \in Seq(Names) /\ dirPath = Base(dirAt)

\* cwd leads where the calls of chdir have led, and the path of the open directory
\* to that directory.
PathInv == Leads(cwd, here) /\ DirOK /\ ErrnoOK

LEMMA InvInit == Init => PathInv
<1>1. Leads(Root, <<>>)
  BY DEF Leads
<1> QED
  BY <1>1, MountLeads DEF Init, PathInv, DirOK, ErrnoOK

LEMMA UnmovedOK ==
  ASSUME PathInv, Unmoved PROVE Leads(cwd, here)' /\ DirOK'
<1>1. cwd' = cwd /\ here' = here /\ dirPath' = dirPath /\ dirAt' = dirAt
  BY DEF Unmoved
<1> QED
  BY <1>1 DEF PathInv, DirOK, Leads

LEMMA NotFixedOK ==
  ASSUME PathInv, NEW p \in Paths, NEW keeps \in BOOLEAN, NotFixed(p, keeps) PROVE PathInv'
<1>1. PICK e \in {FixPath(p).errno, "ENOMEM"} : errno' = e \/ errno' = "ENOMEM"
  BY Zenon DEF NotFixed
<1>2. ErrnoOK'
  BY <1>1, FixPathErrno DEF ErrnoOK
<1>3. Unmoved
  BY Zenon DEF NotFixed
<1> QED
  BY <1>2, <1>3, UnmovedOK DEF PathInv

LEMMA InvStep == PathInv /\ [Next]_vars => PathInv'
<1> SUFFICES ASSUME PathInv, [Next]_vars PROVE PathInv'
  OBVIOUS
<1>0. Leads(cwd, here) /\ DirOK /\ ErrnoOK
  BY DEF PathInv
<1>1. ASSUME NEW p \in Paths, NEW keeps \in BOOLEAN, NotFixed(p, keeps) PROVE PathInv'
  BY <1>1, NotFixedOK
<1>2. ASSUME errno' \in {"OK", "FSA", "ENOSYS"}, Unmoved PROVE PathInv'
  BY <1>2, UnmovedOK DEF PathInv, ErrnoOK
<1>3. CASE Chdir
  <2>1. PICK p \in Paths :
          Fixed(p, FALSE, /\ cwd' = Trimmed(FixPath(p).path)
                          /\ here' = Resolve(p)
                          /\ UNCHANGED <<dirPath, dirAt>>)
    BY <1>3 DEF Chdir
  <2>2. CASE /\ FixPath(p).errno = "OK" /\ errno' = "OK"
             /\ cwd' = Trimmed(FixPath(p).path) /\ here' = Resolve(p)
             /\ dirPath' = dirPath /\ dirAt' = dirAt
    <3>1. cwd' = Base(here') /\ here' \in Seq(Names)
      BY <1>0, <2>2, TrimmedFacts, FixPathFacts
    <3> QED
      BY <1>0, <2>2, <3>1 DEF PathInv, DirOK, ErrnoOK, Leads
  <2> QED
    BY <1>1, <1>2, <2>1, <2>2 DEF Fixed, Sent
<1>4. CASE Diropen
  <2>1. PICK p \in Paths :
          Fixed(p, TRUE, /\ dirPath' = Trimmed(FixPath(p).path)
                         /\ dirAt' = Resolve(p)
                         /\ UNCHANGED <<cwd, here>>)
    BY <1>4 DEF Diropen
  <2>2. CASE /\ FixPath(p).errno = "OK" /\ errno' = "OK"
             /\ dirPath' = Trimmed(FixPath(p).path) /\ dirAt' = Resolve(p)
             /\ cwd' = cwd /\ here' = here
    <3>1. dirPath' = Base(dirAt') /\ dirAt' \in Seq(Names)
      BY <1>0, <2>2, TrimmedFacts, FixPathFacts
    <3>2. Base(dirAt') # <<>>
      BY <3>1, BaseFacts
    <3> QED
      BY <1>0, <2>2, <3>1, <3>2 DEF PathInv, DirOK, ErrnoOK, Leads
  <2> QED
    BY <1>1, <1>2, <2>1, <2>2 DEF Fixed, Sent
<1>5. CASE Dirclose
  <2>1. dirPath' = <<>> /\ dirAt' = <<>> /\ errno' \in {"OK", "FSA"}
        /\ cwd' = cwd /\ here' = here
    BY <1>5 DEF Dirclose
  <2> QED
    BY <1>0, <2>1 DEF PathInv, DirOK, ErrnoOK, Leads
<1>6. CASE Stat
  BY <1>1, <1>2, <1>6 DEF Stat, Fixed, Sent
<1>7. CASE Statvfs
  BY <1>2, <1>7 DEF Statvfs
<1>8. CASE Rename
  BY <1>1, <1>2, <1>8 DEF Rename, Fixed, Sent
<1>9. CASE UNCHANGED vars
  BY <1>0, <1>9 DEF vars, PathInv, DirOK, ErrnoOK, Leads
<1> QED
  BY <1>3, <1>4, <1>5, <1>6, <1>7, <1>8, <1>9 DEF Next

LEMMA Invariance == Spec => []PathInv
BY InvInit, InvStep, PTL DEF Spec

LEMMA BaseIsBase == ASSUME NEW at \in Seq(Names) PROVE IsBase(Base(at))
<1>1. PICK s : s = Base(at)
  OBVIOUS
<1>2. /\ s \in Seq(Components) /\ Len(s) = Len(at) + 1 /\ s[1] = Sep /\ Len(at) \in Nat
      /\ \A i \in 1 .. Len(at) : s[i + 1] = at[i]
  BY <1>1, BaseFacts
<1>3. \A i \in 2 .. Len(s) : s[i] \in Names
  <2> SUFFICES ASSUME NEW i \in 2 .. Len(s) PROVE s[i] \in Names
    OBVIOUS
  <2>1. i - 1 \in 1 .. Len(at) /\ (i - 1) + 1 = i
    BY <1>2
  <2>2. s[i] = at[i - 1] /\ at[i - 1] \in Names
    BY <1>2, <2>1
  <2> QED
    BY <2>2
<1>4. \A i \in 1 .. Len(s) : s[i] \in Names \cup {Sep}
  BY <1>2, <1>3
<1>5. s \in Seq(Names \cup {Sep})
  BY <1>2, <1>4, SeqNarrowed
<1>6. s # <<>> /\ Head(s) = Sep
  BY <1>2
<1>7. \A i \in 2 .. Len(s) : s[i] # Sep
  BY <1>3, SepFacts
<1> QED
  BY <1>1, <1>5, <1>6, <1>7, Zenon DEF IsBase, Sep

\* cwd and the path of a directory are absolute and normalized, and end in no
\* separator: an absolute path can be built on them.
THEOREM PathTypeCorrect == Spec => []TypeOK
<1>1. PathInv => TypeOK
  <2> SUFFICES ASSUME PathInv PROVE TypeOK
    OBVIOUS
  <2>1. Leads(cwd, here) /\ DirOK /\ ErrnoOK
    BY DEF PathInv
  <2>2. IsBase(Root)
    <3>1. <<Sep, Sep>> \in Seq(Names \cup {Sep}) /\ <<Sep, Sep>> # <<>>
          /\ Head(<<Sep, Sep>>) = Sep
      OBVIOUS
    <3>2. Root \in Seq(Names \cup {Sep}) /\ Root # <<>> /\ Head(Root) = Sep
      BY <3>1, SepFacts
    <3> QED
      BY <3>2, Zenon DEF IsBase, Sep
  <2>3. IsBase(cwd) /\ here \in Seq(Names)
    <3>1. here \in Seq(Names) /\ (cwd = Base(here) \/ cwd = Root)
      BY <2>1, Zenon DEF Leads
    <3>2. IsBase(Base(here))
      BY <3>1, BaseIsBase
    <3> QED
      BY <2>2, <3>1, <3>2, Zenon
  <2>4. (dirPath = <<>> \/ IsBase(dirPath)) /\ dirAt \in Seq(Names)
    <3>1. CASE dirPath = <<>>
      BY <2>1, <3>1, EmptySeq DEF DirOK
    <3>2. CASE dirPath # <<>>
      <4>1. dirAt \in Seq(Names) /\ dirPath = Base(dirAt)
        BY <2>1, <3>2, Zenon DEF DirOK
      <4>2. IsBase(Base(dirAt))
        BY <4>1, BaseIsBase
      <4> QED
        BY <4>1, <4>2, Zenon
    <3> QED
      BY <3>1, <3>2
  <2> QED
    BY <2>1, <2>3, <2>4 DEF TypeOK, ErrnoOK
<1> QED
  BY <1>1, Invariance, PTL

\* Whatever chdir has made of cwd, __fsa_fixpath turns every path into one that
\* leads from the root to the same place.
THEOREM PathsResolve == Spec => []FixPathResolves
<1>1. PathInv => FixPathResolves
  <2> SUFFICES ASSUME PathInv, NEW p \in Paths, FixPath(p).errno = "OK"
               PROVE  Walk(<<>>, FixPath(p).path) = Resolve(p)
    BY DEF FixPathResolves
  <2>1. PICK at \in Seq(Names) : at = Resolve(p)
    BY FixPathFacts DEF PathInv
  <2>2. PICK s : s = Base(at)
    OBVIOUS
  <2>3. Leads(s, at) /\ s \in Seq(Components)
    BY <2>2, BaseFacts DEF Leads
  <2>5. Walk(<<>>, s \o <<Sep>>) = at
    BY <2>3, LeadsWalk, Separator, SepFacts
  <2>6. Walk(<<>>, s) = at
    <3>1. PICK q \in Seq(Components) : q = <<Sep>>
      BY Separator
    <3>2. PICK node : node = <<>>
      OBVIOUS
    <3>3. Walk(node, s \o q) = Walk(Walk(node, s), q)
      BY <2>3, WalkConcat
    <3> QED
      BY <2>5, <3>1, <3>2, <3>3, SepFacts
  <2> QED
    BY <2>1, <2>2, <2>5, <2>6, FixPathFacts DEF PathInv
<1> QED
  BY <1>1, Invariance, PTL

\* dirnext and stat hash the same string for the same file.
THEOREM InosAgree == Spec => []InoAgrees
<1>1. PathInv => InoAgrees
  <2> SUFFICES ASSUME PathInv, dirPath # <<>>, NEW p \in Paths, Last(p) \in Names,
                      FixPath(p).errno = "OK", Resolve(p) = Append(dirAt, Last(p))
               PROVE  FixPath(p).path = Append(dirPath, Last(p))
    BY DEF InoAgrees
  <2>1. dirAt \in Seq(Names) /\ dirPath = Base(dirAt)
    BY DEF PathInv, DirOK
  <2>2. FixPath(p).path = Base(Append(dirAt, Last(p)))
    BY FixPathFacts DEF PathInv
  <2>3. PICK l \in Names : l = Last(p)
    OBVIOUS
  <2>4. <<Sep>> \o Append(dirAt, l) = Append(<<Sep>> \o dirAt, l)
    <3>1. PICK q \in Seq(Components) : q = <<Sep>>
      BY Separator
    <3>2. dirAt \in Seq(Components) /\ l \in Components
      BY <2>1, NamesAreComponents, SepFacts
    <3>3. q \o Append(dirAt, l) = Append(q \o dirAt, l)
      BY <3>2
    <3> QED
      BY <3>1, <3>3
  <2> QED
    BY <2>1, <2>2, <2>3, <2>4 DEF Base
<1> QED
  BY <1>1, Invariance, PTL
=============================================================================
