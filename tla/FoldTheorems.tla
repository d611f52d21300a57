--------------------------- MODULE FoldTheorems ---------------------------
(***************************************************************************)
(* What a left fold computes, for every operator and every sequence.  The  *)
(* operator takes a context besides the value so far and the element, so   *)
(* that an instance can stand for a family of folds.                       *)
(***************************************************************************)
EXTENDS Integers, SequencesExt, WellFoundedInduction, TLAPS

CONSTANT Op(_, _, _)

\* The left fold of the community modules, over seq with ctx at hand.
Fold(ctx, base, seq) == FoldLeft(LAMBDA acc, e : Op(ctx, acc, e), base, seq)

\* A set of naturals that is not empty has a least element.
LEMMA Least ==
  ASSUME NEW T \in SUBSET Nat, T # {}
  PROVE  \E x \in T : \A y \in T : x <= y
  <1> DEFINE R == OpToRel(<, Nat)
  <1>1. IsWellFoundedOn(R, Nat)
    BY NatLessThanWellFounded DEF OpToRel
  <1>2. PICK x \in T : \A y \in T : <<y, x>> \notin R
    <2> HIDE DEF R
    <2> QED  BY <1>1, WFMin
  <1>3. \A y \in T : ~(y < x)
    BY <1>2 DEF OpToRel
  <1> QED  BY <1>3

\* Induction over the naturals, for a set instead of an operator.
LEMMA Induction ==
  ASSUME NEW S, 0 \in S, \A n \in Nat : n \in S => n + 1 \in S
  PROVE  Nat \subseteq S
  <1> SUFFICES ASSUME Nat \ S # {}  PROVE FALSE
    OBVIOUS
  <1>1. \E x \in Nat \ S : \A y \in Nat \ S : x <= y
    BY Least
  <1>2. PICK x \in Nat \ S : \A y \in Nat \ S : x <= y
    BY <1>1
  <1>3. x # 0 /\ x - 1 \in Nat /\ x - 1 \in S
    BY <1>2
  <1> QED  BY <1>3, <1>2

\* And up to a bound.
LEMMA Climb ==
  ASSUME NEW n \in Nat, NEW S, 0 \in S, \A i \in 1 .. n : i - 1 \in S => i \in S
  PROVE  n \in S
  <1> DEFINE T == {i \in Nat : i <= n => i \in S}
  <1>1. 0 \in T
    OBVIOUS
  <1>2. ASSUME NEW i \in Nat, i \in T  PROVE i + 1 \in T
    <2>1. i + 1 <= n => i + 1 \in 1 .. n /\ (i + 1) - 1 = i /\ i <= n
      OBVIOUS
    <2> QED  BY <1>2, <2>1
  <1>3. Nat \subseteq T
    <2> HIDE DEF T
    <2> QED  BY <1>1, <1>2, Induction
  <1> QED  BY <1>3

\* The function that folds are defined by: over the sets of indices below m.
Iterates(iter, ctx, base, seq, m) ==
  iter = [s \in SUBSET (1 .. m) |->
            IF s = {} THEN base ELSE Op(ctx, iter[s \ {Max(s)}], seq[Max(s)])]

\* The greatest index.
LEMMA MaxOfInterval ==
  ASSUME NEW m \in Nat, NEW s \in SUBSET (1 .. m), s # {}
  PROVE  /\ Max(s) \in s /\ \A y \in s : Max(s) >= y
         /\ m \in s => Max(s) = m
  <1> DEFINE T == {m - y : y \in s}
  <1>1. T \in SUBSET Nat /\ T # {}
    OBVIOUS
  <1>2. PICK x \in T : \A y \in T : x <= y
    <2> HIDE DEF T
    <2> QED  BY <1>1, Least
  <1>3. m - x \in s /\ \A y \in s : m - x >= y
    BY <1>2
  <1>4. Max(s) \in s /\ \A y \in s : Max(s) >= y
    BY <1>3 DEF Max
  <1>5. \A y \in 1 .. m : y \in Int /\ y <= m
    OBVIOUS
  <1>6. ASSUME m \in s  PROVE Max(s) = m
    <2>1. Max(s) \in Int /\ Max(s) <= m /\ Max(s) >= m
      BY <1>4, <1>5, <1>6
    <2> QED  BY <2>1
  <1> QED  BY <1>4, <1>6

\* It exists for every m, by induction.
LEMMA IterExists ==
  ASSUME NEW ctx, NEW base, NEW seq
  PROVE  \A m \in Nat : \E iter : Iterates(iter, ctx, base, seq, m)
  <1> DEFINE S == {m \in Nat : \E iter : Iterates(iter, ctx, base, seq, m)}
  <1>1. 0 \in S
    <2> DEFINE it == [s \in SUBSET (1 .. 0) |-> base]
    <2>1. SUBSET (1 .. 0) = {{}}
      OBVIOUS
    <2>2. Iterates(it, ctx, base, seq, 0)
      BY <2>1 DEF Iterates
    <2> QED  BY <2>2
  <1>2. ASSUME NEW m \in Nat, m \in S  PROVE m + 1 \in S
    <2>1. PICK it : Iterates(it, ctx, base, seq, m)
      BY <1>2
    <2> DEFINE next == [s \in SUBSET (1 .. m + 1) |->
                 IF m + 1 \in s THEN Op(ctx, it[s \ {m + 1}], seq[m + 1]) ELSE it[s]]
    <2>2. ASSUME NEW s \in SUBSET (1 .. m + 1)
          PROVE  next[s] = IF s = {} THEN base ELSE Op(ctx, next[s \ {Max(s)}], seq[Max(s)])
      <3>1. CASE m + 1 \in s
        <4>1. Max(s) = m + 1
          BY <3>1, MaxOfInterval
        <4>2. s \ {m + 1} \in SUBSET (1 .. m + 1) /\ m + 1 \notin s \ {m + 1}
          OBVIOUS
        <4>3. next[s \ {m + 1}] = it[s \ {m + 1}]
          BY <4>2
        <4> QED  BY <3>1, <4>1, <4>3
      <3>2. CASE m + 1 \notin s
        <4>1. s \in SUBSET (1 .. m)
          BY <3>2
        <4>2. it[s] = IF s = {} THEN base ELSE Op(ctx, it[s \ {Max(s)}], seq[Max(s)])
          BY <2>1, <4>1 DEF Iterates
        <4>3. next[s \ {Max(s)}] = it[s \ {Max(s)}]
          <5>1. s \ {Max(s)} \in SUBSET (1 .. m + 1) /\ m + 1 \notin s \ {Max(s)}
            BY <3>2
          <5> QED  BY <5>1
        <4> QED  BY <3>2, <4>2, <4>3
      <3> QED  BY <3>1, <3>2
    <2>3. Iterates(next, ctx, base, seq, m + 1)
      <3>1. next = [s \in SUBSET (1 .. m + 1) |-> next[s]]
        OBVIOUS
      <3> HIDE DEF next
      <3>2. [s \in SUBSET (1 .. m + 1) |-> next[s]]
              = [s \in SUBSET (1 .. m + 1) |->
                  IF s = {} THEN base ELSE Op(ctx, next[s \ {Max(s)}], seq[Max(s)])]
        BY <2>2
      <3> QED  BY <3>1, <3>2 DEF Iterates
    <2> HIDE DEF next
    <2> QED  BY <2>3
  <1>3. Nat \subseteq S
    <2> HIDE DEF S
    <2> QED  BY <1>1, <1>2, Induction
  <1> QED  BY <1>3

\* A left fold over a sequence of any length is its steps, one after another: g[i]
\* is the value after i elements.  KeepInRoot, and the loops over mounts, entries
\* and files of Container, are such folds.
THEOREM FoldSteps ==
  ASSUME NEW ctx, NEW base, NEW n \in Nat, NEW seq, DOMAIN seq = 1 .. n
  PROVE  \E g : /\ g[0] = base
                /\ \A i \in 1 .. n : g[i] = Op(ctx, g[i - 1], seq[i])
                /\ Fold(ctx, base, seq) = g[n]
  <1> DEFINE it == CHOOSE iter : Iterates(iter, ctx, base, seq, n)
             g == [i \in 0 .. n |-> it[1 .. i]]
  <1>1. Iterates(it, ctx, base, seq, n)
    BY IterExists
  <1>2. Fold(ctx, base, seq) = it[1 .. n]
    BY DEF Fold, FoldLeft, MapThenFoldSet, Iterates
  <1> HIDE DEF it
  <1>3. g[0] = base
    <2>1. 1 .. 0 = {}
      OBVIOUS
    <2>2. it[{}] = base
      BY <1>1 DEF Iterates
    <2> QED  BY <2>1, <2>2
  <1>4. ASSUME NEW i \in 1 .. n  PROVE g[i] = Op(ctx, g[i - 1], seq[i])
    <2>1. 1 .. i \in SUBSET (1 .. n) /\ i \in 1 .. i
      OBVIOUS
    <2>2. Max(1 .. i) = i
      <3>1. 1 .. i \in SUBSET (1 .. i) /\ i \in Nat
        OBVIOUS
      <3> QED  BY <2>1, <3>1, MaxOfInterval
    <2>3. (1 .. i) \ {i} = 1 .. i - 1
      OBVIOUS
    <2>4. it[1 .. i] = Op(ctx, it[(1 .. i) \ {Max(1 .. i)}], seq[Max(1 .. i)])
      BY <1>1, <2>1 DEF Iterates
    <2>5. g[i] = it[1 .. i] /\ g[i - 1] = it[1 .. i - 1]
      OBVIOUS
    <2> HIDE DEF g
    <2> QED  BY <2>2, <2>3, <2>4, <2>5
  <1>5. g[n] = it[1 .. n]
    OBVIOUS
  <1> HIDE DEF g
  <1> QED  BY <1>2, <1>3, <1>4, <1>5
=============================================================================
