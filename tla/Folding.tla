-------------------------------- MODULE Folding --------------------------------
(***************************************************************************)
(* Induction along a fold.  FoldLeft takes an operator, and a lemma about  *)
(* every operator could not be used: here the operator and the invariant   *)
(* are constants, which an instance replaces.                              *)
(***************************************************************************)
EXTENDS Integers, SequencesExt, WellFoundedInduction, NaturalsInduction, TLAPS

CONSTANTS Op(_, _),    \* what the fold does with an element
          P(_, _, _)   \* parameter, elements done, value: what holds all along

Folded(base, seq) == FoldLeft(Op, base, seq)

(* Every set of numbers has a least one. *)
LEMMA Least ==
  ASSUME NEW T, T \subseteq Nat, T # {}
  PROVE  \E m \in T : \A k \in T : m <= k
<1>1. IsWellFoundedOn(OpToRel(<, Nat), Nat)
  BY NatLessThanWellFounded
<1>2. PICK m \in T : \A k \in T : ~ (<<k, m>> \in OpToRel(<, Nat))
  BY <1>1, WFMin
<1>3. \A k \in T : ~(k < m)
  BY <1>2 DEF OpToRel
<1> QED BY <1>3

(* A set of numbers up to m + 1 that has m + 1. *)
LEMMA MaxIs ==
  ASSUME NEW m \in Nat, NEW s \in SUBSET (1 .. m + 1), m + 1 \in s
  PROVE  Max(s) = m + 1
<1>1. \A x \in s : x \in Int /\ x <= m + 1
  OBVIOUS
<1>2. \A x \in s : (\A y \in s : x >= y) => x = m + 1
  BY <1>1
<1>3. \A y \in s : m + 1 >= y
  BY <1>1
<1> QED BY <1>2, <1>3 DEF Max

(***************************************************************************)
(* FoldLeft chooses a function g from sets of indices to values that is    *)
(* equal to the following one.                                             *)
(***************************************************************************)
Unfolded(g, m, base, seq) ==
  [s \in SUBSET (1 .. m) |-> IF s = {} THEN base ELSE Op(g[s \ {Max(s)}], seq[Max(s)])]

(* There is such a function. *)
LEMMA FoldExists ==
  ASSUME NEW base, NEW seq, NEW n \in Nat
  PROVE  \E g : g = Unfolded(g, n, base, seq)
<1> DEFINE T == {m \in Nat : ~ \E g : g = Unfolded(g, m, base, seq)}
<1> SUFFICES ASSUME T # {} PROVE FALSE
  OBVIOUS
<1>1. PICK m \in T : \A k \in T : m <= k
  BY Least
<1>2. m # 0
  <2> DEFINE h == [s \in SUBSET (1 .. 0) |-> base]
  <2>1. h = Unfolded(h, 0, base, seq)
    BY DEF Unfolded
  <2> QED BY <2>1
<1>3. PICK k \in Nat : m = k + 1
  <2>1. m - 1 \in Nat /\ m = (m - 1) + 1
    BY <1>2
  <2> QED BY <2>1
<1>4. k \notin T
  BY <1>1, <1>3
<1>5. PICK g : g = Unfolded(g, k, base, seq)
  BY <1>4
<1> DEFINE h == [s \in SUBSET (1 .. k + 1) |->
                   IF k + 1 \in s THEN Op(g[s \ {k + 1}], seq[k + 1]) ELSE g[s]]
<1>6. ASSUME NEW s \in SUBSET (1 .. k + 1)
      PROVE  h[s] = IF s = {} THEN base ELSE Op(h[s \ {Max(s)}], seq[Max(s)])
  <2>1. CASE k + 1 \in s
    <3>1. Max(s) = k + 1
      BY <2>1, MaxIs
    <3>2. s \ {k + 1} \in SUBSET (1 .. k + 1) /\ k + 1 \notin s \ {k + 1}
      OBVIOUS
    <3>3. h[s \ {k + 1}] = g[s \ {k + 1}]
      BY <3>2
    <3> QED BY <2>1, <3>1, <3>3
  <2>2. CASE k + 1 \notin s
    <3>1. s \in SUBSET (1 .. k)
      BY <2>2
    <3>2. h[s] = g[s]
      BY <2>2
    <3>3. g[s] = IF s = {} THEN base ELSE Op(g[s \ {Max(s)}], seq[Max(s)])
      BY <1>5, <3>1 DEF Unfolded
    <3>4. h[s \ {Max(s)}] = g[s \ {Max(s)}]
      BY <2>2, <3>1
    <3> QED BY <3>2, <3>3, <3>4
  <2> QED BY <2>1, <2>2
<1>7. h = Unfolded(h, k + 1, base, seq)
  <2> HIDE DEF h
  <2>1. h = [s \in SUBSET (1 .. k + 1) |-> h[s]]
    BY DEF h
  <2> QED BY <1>6, <2>1 DEF Unfolded
<1>8. m \notin T
  BY <1>3, <1>7
<1> QED BY <1>8

Upto(k) == 1 .. k

(* The induction: what holds of the base and is kept by every step holds at the end. *)
LEMMA FoldKeeps ==
  ASSUME NEW r, NEW base, NEW n \in Nat, NEW seq, DOMAIN seq = 1 .. n, P(r, 0, base),
         \A s : \A k \in 1 .. n : P(r, k - 1, s) => P(r, k, Op(s, seq[k]))
  PROVE  P(r, n, Folded(base, seq))
<1> DEFINE iter == CHOOSE g : g = Unfolded(g, n, base, seq)
<1>1. iter = Unfolded(iter, n, base, seq)
  BY FoldExists
<1>2. Folded(base, seq) = iter[1 .. n]
  BY DEF Folded, FoldLeft, MapThenFoldSet, Unfolded
<1> HIDE DEF iter
<1> DEFINE T == {k \in Nat : k <= n /\ ~P(r, k, iter[Upto(k)])}
<1>3. T = {}
  <2> SUFFICES ASSUME T # {} PROVE FALSE
    OBVIOUS
  <2>1. PICK m \in T : \A k \in T : m <= k
    BY Least
  <2>2. Upto(m) \in SUBSET (1 .. n)
    BY <2>1 DEF Upto
  <2>3. CASE m = 0
    <3>1. Upto(m) = {}
      BY <2>3 DEF Upto
    <3> QED BY <1>1, <2>1, <2>2, <2>3, <3>1 DEF Unfolded
  <2>4. CASE m # 0
    <3>1. PICK k \in Nat : m = k + 1 /\ k = m - 1
      <4>1. m - 1 \in Nat /\ m = (m - 1) + 1
        BY <2>4
      <4> QED BY <4>1
    <3>2. P(r, k, iter[Upto(k)])
      BY <2>1, <3>1
    <3>3. Max(Upto(m)) = m
      BY <3>1, MaxIs DEF Upto
    <3>4. Upto(m) \ {m} = Upto(k) /\ Upto(m) # {} /\ m \in 1 .. n
      <4>1. m \in Nat /\ m <= n
        BY <2>1
      <4>2. m \in 1 .. n
        BY <3>1, <4>1
      <4>3. (1 .. k + 1) \ {k + 1} = 1 .. k /\ k + 1 \in 1 .. k + 1
        OBVIOUS
      <4> QED BY <3>1, <4>2, <4>3 DEF Upto
    <3>5. iter[Upto(m)] = Op(iter[Upto(k)], seq[m])
      BY <1>1, <2>2, <3>3, <3>4 DEF Unfolded
    <3>6. P(r, m - 1, iter[Upto(k)])
      BY <3>1, <3>2
    <3> QED BY <2>1, <3>4, <3>5, <3>6
  <2> QED BY <2>3, <2>4
<1>4. P(r, n, iter[Upto(n)])
  BY <1>3
<1> QED BY <1>2, <1>4 DEF Upto

=============================================================================
