----------------------------- MODULE FoldRules ------------------------------
(***************************************************************************)
(* What Iterate computes, one element at a time.  The read model, the page *)
(* that shows a mission, the schedule and the context pack are defined by  *)
(* iterating over events, missions and candidates; these rules are what    *)
(* their proofs need.  The operator is a constant, so a proof about an     *)
(* iteration instantiates this module with the operator it iterates.       *)
(***************************************************************************)
EXTENDS Integers, Sequences, Iteration, TLAPS

CONSTANT Op(_, _)  \* the operator that is iterated

\* A set of numbers that is not empty has a least one.  The rules assume this, because
\* the library's theorems on well-founded relations would come along with every instance
\* of the module; its users prove it once.
LeastNumbers == \A T \in SUBSET Nat : T # {} => \E n \in T : \A m \in T : n <= m

\* g has the values of an iteration along the first n elements of s.
Runs(g, base, s, n) == g[0] = base /\ \A k \in 1 .. n : g[k] = Op(g[k - 1], s[k])

\* The function that Iterate defines by recursion.
IsIter(g, base, s, n) ==
    g = [k \in 0 .. n |-> IF k = 0 THEN base ELSE Op(g[k - 1], s[k])]

\* A function that satisfies the recursion runs along the sequence.
LEMMA IterRuns ==
    ASSUME NEW g, NEW base, NEW s, NEW n \in Nat, IsIter(g, base, s, n)
    PROVE  Runs(g, base, s, n)
<1>1. \A k \in 0 .. n : g[k] = IF k = 0 THEN base ELSE Op(g[k - 1], s[k])
  BY Zenon DEF IsIter
<1>2. 0 \in 0 .. n /\ \A k \in 1 .. n : k \in 0 .. n /\ k # 0
  OBVIOUS
<1>3. QED
  BY <1>1, <1>2, Zenon DEF Runs

\* The recursion has a solution.
LEMMA IterExists ==
    ASSUME LeastNumbers, NEW base, NEW s, NEW n \in Nat
    PROVE  \E g : IsIter(g, base, s, n)
<1> DEFINE T == {k \in Nat : ~\E g : IsIter(g, base, s, k)}
<1>1. SUFFICES ASSUME T # {} PROVE FALSE
  OBVIOUS
<1>2. PICK k \in T : \A j \in T : k <= j
  BY <1>1, Zenon DEF LeastNumbers
<1>3. k # 0
  <2>1. IsIter([j \in 0 .. 0 |-> base], base, s, 0)
    <3> DEFINE g == [j \in 0 .. 0 |-> base]
    <3>1. \A j \in 0 .. 0 : j = 0
      OBVIOUS
    <3>2. g = [j \in 0 .. 0 |-> IF j = 0 THEN base ELSE Op(g[j - 1], s[j])]
      BY <3>1, Zenon
    <3>3. QED
      BY <3>2 DEF IsIter
  <2>2. QED
    BY <1>2, <2>1
<1>4. k - 1 \in Nat /\ k - 1 \notin T
  BY <1>2, <1>3
<1>5. PICK g : IsIter(g, base, s, k - 1)
  BY <1>4
<1>6. Runs(g, base, s, k - 1)
  BY <1>4, <1>5, IterRuns
<1> DEFINE h == [j \in 0 .. k |-> IF j = k THEN Op(g[k - 1], s[k]) ELSE g[j]]
<1>7. ASSUME NEW j \in 0 .. k PROVE h[j] = IF j = 0 THEN base ELSE Op(h[j - 1], s[j])
  <2>1. CASE j = 0
    BY <1>3, <1>6, <2>1 DEF Runs
  <2>2. CASE j = k
    <3>1. h[k - 1] = g[k - 1] /\ h[k] = Op(g[k - 1], s[k])
      BY <1>4
    <3>2. QED
      BY <1>3, <2>2, <3>1
  <2>3. CASE j # 0 /\ j # k
    <3>1. j \in 1 .. k - 1 /\ j - 1 \in 0 .. k /\ j - 1 # k
      BY <1>4, <2>3
    <3>2. h[j] = g[j] /\ h[j - 1] = g[j - 1]
      BY <2>3, <3>1
    <3>3. g[j] = Op(g[j - 1], s[j])
      BY <1>6, <3>1 DEF Runs
    <3>4. QED
      BY <2>3, <3>2, <3>3
  <2>4. QED
    BY <2>1, <2>2, <2>3
<1>8. h = [j \in 0 .. k |-> h[j]]
  OBVIOUS
<1> HIDE DEF h
<1>9. IsIter(h, base, s, k)
  BY <1>7, <1>8, Zenon DEF IsIter
<1>10. QED
  BY <1>2, <1>9

\* Two runs along sequences that agree have the same values.
LEMMA RunsAgree ==
    ASSUME LeastNumbers, NEW g, NEW h, NEW base, NEW s, NEW t, NEW n \in Nat,
           \A k \in 1 .. n : s[k] = t[k],
           Runs(g, base, s, n), Runs(h, base, t, n)
    PROVE  \A k \in 0 .. n : g[k] = h[k]
<1> DEFINE T == {k \in 0 .. n : g[k] # h[k]}
<1>1. SUFFICES ASSUME T # {} PROVE FALSE
  OBVIOUS
<1>2. T \in SUBSET Nat
  OBVIOUS
<1>3. PICK k \in T : \A j \in T : k <= j
  <2> HIDE DEF T
  <2>1. QED
    BY <1>1, <1>2, Zenon DEF LeastNumbers
<1>4. k \in 0 .. n /\ g[k] # h[k]
  BY <1>3
<1>5. k # 0
  BY <1>4 DEF Runs
<1>6. k \in 1 .. n /\ k - 1 \in 0 .. n /\ k - 1 \notin T
  BY <1>3, <1>4, <1>5
<1>7. g[k - 1] = h[k - 1]
  BY <1>6
<1>8. g[k] = Op(g[k - 1], s[k]) /\ h[k] = Op(h[k - 1], t[k])
  BY <1>6 DEF Runs
<1>9. s[k] = t[k]
  BY <1>6
<1>10. QED
  BY <1>4, <1>7, <1>8, <1>9

\* An iteration is the last value of a run.
LEMMA IterateRuns ==
    ASSUME LeastNumbers, NEW base, NEW s, Len(s) \in Nat
    PROVE  \E g : Runs(g, base, s, Len(s)) /\ g[Len(s)] = Iterate(Op, base, s)
<1> DEFINE G == CHOOSE g : IsIter(g, base, s, Len(s))
<1>1. Iterate(Op, base, s) = G[Len(s)]
  BY DEF Iterate, IsIter
<1>2. IsIter(G, base, s, Len(s))
  BY IterExists
<1> HIDE DEF G
<1>3. QED
  BY <1>1, <1>2, IterRuns

\* Whatever runs along the sequence ends in the value of the iteration.
LEMMA IterateIs ==
    ASSUME LeastNumbers, NEW base, NEW s, Len(s) \in Nat, NEW h, Runs(h, base, s, Len(s))
    PROVE  Iterate(Op, base, s) = h[Len(s)]
<1>1. PICK g : Runs(g, base, s, Len(s)) /\ g[Len(s)] = Iterate(Op, base, s)
  BY IterateRuns
<1>2. g[Len(s)] = h[Len(s)]
  BY <1>1, RunsAgree
<1>3. QED
  BY <1>1, <1>2

\* An iteration along nothing gives the base.
LEMMA IterateEmpty ==
    ASSUME LeastNumbers, NEW base
    PROVE  Iterate(Op, base, <<>>) = base
<1> DEFINE s == <<>>
<1>1. Len(s) = 0 /\ Len(s) \in Nat
  OBVIOUS
<1> HIDE DEF s
<1>2. PICK g : Runs(g, base, s, Len(s)) /\ g[Len(s)] = Iterate(Op, base, s)
  BY <1>1, IterateRuns
<1>3. QED
  BY <1>1, <1>2 DEF Runs, s

\* An element more applies the operator once more.
LEMMA IterateAppend ==
    ASSUME LeastNumbers, NEW base, NEW S, NEW s \in Seq(S), NEW e
    PROVE  Iterate(Op, base, Append(s, e)) = Op(Iterate(Op, base, s), e)
<1> DEFINE t == Append(s, e)
           n == Len(s)
<1>1. n \in Nat /\ Len(t) = n + 1 /\ Len(t) \in Nat
  OBVIOUS
<1>2. (\A k \in 1 .. n : s[k] = t[k]) /\ t[n + 1] = e
  OBVIOUS
<1> HIDE DEF t
<1>3. PICK g : Runs(g, base, s, n) /\ g[n] = Iterate(Op, base, s)
  BY <1>1, IterateRuns
<1>4. PICK h : Runs(h, base, t, Len(t)) /\ h[Len(t)] = Iterate(Op, base, t)
  BY <1>1, IterateRuns
<1> HIDE DEF n
<1>5. Runs(h, base, t, n) /\ h[n + 1] = Op(h[n], t[n + 1])
  <2>1. h[0] = base /\ \A k \in 1 .. n + 1 : h[k] = Op(h[k - 1], t[k])
    BY <1>1, <1>4 DEF Runs
  <2>2. n + 1 \in 1 .. n + 1 /\ (n + 1) - 1 = n /\ \A k \in 1 .. n : k \in 1 .. n + 1
    BY <1>1
  <2>3. QED
    BY <2>1, <2>2 DEF Runs
<1>6. g[n] = h[n]
  <2>1. \A k \in 0 .. n : g[k] = h[k]
    BY <1>1, <1>2, <1>3, <1>5, RunsAgree
  <2>2. QED
    BY <1>1, <2>1
<1>7. QED
  BY <1>1, <1>2, <1>3, <1>4, <1>5, <1>6 DEF t

\* An iteration stays within sets that each step stays within.
LEMMA IterateWithin ==
    ASSUME LeastNumbers, NEW base, NEW s, Len(s) \in Nat, NEW T, base \in T[0],
           \A k \in 1 .. Len(s) : \A r \in T[k - 1] : Op(r, s[k]) \in T[k]
    PROVE  Iterate(Op, base, s) \in T[Len(s)]
<1>1. PICK g : Runs(g, base, s, Len(s)) /\ g[Len(s)] = Iterate(Op, base, s)
  BY IterateRuns
<1> DEFINE B == {k \in 0 .. Len(s) : g[k] \notin T[k]}
<1>2. SUFFICES ASSUME B # {} PROVE FALSE
  BY <1>1
<1>3. B \in SUBSET Nat
  OBVIOUS
<1>4. PICK k \in B : \A j \in B : k <= j
  <2> HIDE DEF B
  <2>1. QED
    BY <1>2, <1>3, Zenon DEF LeastNumbers
<1>5. k \in 0 .. Len(s) /\ g[k] \notin T[k]
  BY <1>4
<1>6. k # 0
  BY <1>1, <1>5 DEF Runs
<1>7. k \in 1 .. Len(s) /\ k - 1 \in 0 .. Len(s) /\ k - 1 \notin B
  BY <1>4, <1>5, <1>6
<1>8. g[k - 1] \in T[k - 1] /\ g[k] = Op(g[k - 1], s[k])
  BY <1>1, <1>7 DEF Runs
<1>9. QED
  BY <1>5, <1>7, <1>8
=============================================================================
