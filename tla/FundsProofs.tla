------------------------------ MODULE FundsProofs -------------------------------
(****************************************************************************)
(* Proofs about what the popup does with funds. Payments in flight: the     *)
(* list of them keeps every one that the backend does not list yet, so none *)
(* of the wizard spends an input twice, and what is on its way is not shown *)
(* as available. Tips: who is told he has the coins has them, and they are  *)
(* not lost to both sides. Send: what SendDraftProofs proves, of the        *)
(* popup's funds as a whole.                                                *)
(****************************************************************************)
EXTENDS Funds, FiniteSetTheorems, TLAPS

--------------------------------------------------------------------------------
(* Sums.                                                                        *)

(* A nonempty set of finite sets has one with nothing to take away from.     *)
LEMMA Smallest ==
  ASSUME NEW S, IsFiniteSet(S), NEW T, T \subseteq SUBSET S, T # {}
  PROVE  \E U \in T : \A x \in U : U \ {x} \notin T
<1>1. IsWellFoundedOn(StrictSubsetOrdering(S), SUBSET S)
  BY FS_StrictSubsetOrderingWellFounded, FS_FiniteSubsetsOfFinite
<1>2. PICK U \in T : \A V \in T : <<V, U>> \notin StrictSubsetOrdering(S)
  BY <1>1, WFMin
<1>3. ASSUME NEW x \in U, U \ {x} \in T PROVE FALSE
  <2>1. <<U \ {x}, U>> \in StrictSubsetOrdering(S)
    BY <1>2, <1>3 DEF StrictSubsetOrdering
  <2> QED BY <1>2, <1>3, <2>1
<1> QED BY <1>2, <1>3

(* A function that adds up g over every subset of S.                        *)
One(s) == CHOOSE x \in s : TRUE
Adds(f, g, S) ==
  f = [s \in SUBSET S |-> IF s = {} THEN 0 ELSE g[One(s)] + f[s \ {One(s)}]]

(* The library folds with such a function.                                   *)
LEMMA TotalIs ==
  ASSUME NEW g, NEW S
  PROVE  Total(g, S) = (CHOOSE f : Adds(f, g, S))[S]
BY DEF Total, MapThenSumSet, MapThenFoldSet, Adds, One

(* What is chosen of a set is in it.                                         *)
LEMMA OneIsOf ==
  ASSUME NEW s, s # {}
  PROVE  One(s) \in s
BY DEF One

(* There is one at most ...                                                  *)
LEMMA AddsOnce ==
  ASSUME NEW g, NEW S, IsFiniteSet(S), NEW f, NEW h, Adds(f, g, S), Adds(h, g, S)
  PROVE  f = h
<1> DEFINE T == {s \in SUBSET S : f[s] # h[s]}
<1>1. ASSUME T # {} PROVE FALSE
  <2>1. PICK s \in T : \A x \in s : s \ {x} \notin T
    <3> HIDE DEF T
    <3>1. T \subseteq SUBSET S
      BY DEF T
    <3> QED BY <1>1, <3>1, Smallest
  <2>2. CASE s = {}
    BY <2>1, <2>2 DEF Adds
  <2>3. CASE s # {}
    <3>1. One(s) \in s
      BY <2>3, OneIsOf
    <3>2. f[s \ {One(s)}] = h[s \ {One(s)}]
      BY <2>1, <3>1
    <3> QED BY <2>1, <2>3, <3>2 DEF Adds
  <2> QED BY <2>2, <2>3
<1> QED BY <1>1 DEF Adds

(* Such a function does the same for the subsets of a subset.               *)
LEMMA AddsWithin ==
  ASSUME NEW g, NEW S, NEW f, Adds(f, g, S), NEW U \in SUBSET S
  PROVE  Adds([s \in SUBSET U |-> f[s]], g, U)
<1> DEFINE h == [s \in SUBSET U |-> f[s]]
<1>1. ASSUME NEW s \in SUBSET U
      PROVE  h[s] = IF s = {} THEN 0 ELSE g[One(s)] + h[s \ {One(s)}]
  <2>1. s \in SUBSET S /\ s \ {One(s)} \in SUBSET U
    OBVIOUS
  <2> QED BY <2>1 DEF Adds
<1>2. h = [s \in SUBSET U |-> IF s = {} THEN 0 ELSE g[One(s)] + h[s \ {One(s)}]]
  <2>1. h = [s \in SUBSET U |-> h[s]]
    OBVIOUS
  <2> HIDE DEF h
  <2> QED BY <1>1, <2>1
<1> HIDE DEF h
<1>3. Adds(h, g, U)
  BY <1>2 DEF Adds
<1> QED BY <1>3 DEF h

(* ... and one there is, for a finite set.                                   *)
LEMMA AddsExists ==
  ASSUME NEW g, NEW S, IsFiniteSet(S)
  PROVE  \E f : Adds(f, g, S)
<1> DEFINE T == {s \in SUBSET S : ~ \E f : Adds(f, g, s)}
           F(s) == CHOOSE f : Adds(f, g, s)
<1>1. ASSUME T # {} PROVE FALSE
  <2>1. PICK U \in T : \A x \in U : U \ {x} \notin T
    <3> HIDE DEF T
    <3>1. T \subseteq SUBSET S
      BY DEF T
    <3> QED BY <1>1, <3>1, Smallest
  <2>2. \A x \in U : Adds(F(U \ {x}), g, U \ {x})
    BY <2>1
  <2> DEFINE w == U \ {One(U)}
             h == [s \in SUBSET U |-> IF s = {} THEN 0
                                      ELSE IF s = U THEN g[One(U)] + F(w)[w]
                                      ELSE F(s)[s]]
  <2>3. ASSUME NEW s \in SUBSET U, s # U
        PROVE  Adds(F(s), g, s)
    <3>1. PICK x \in U : x \notin s
      BY <2>3
    <3>2. Adds([v \in SUBSET s |-> F(U \ {x})[v]], g, s)
      <4>1. s \in SUBSET (U \ {x}) /\ Adds(F(U \ {x}), g, U \ {x})
        BY <2>2, <3>1
      <4> HIDE DEF F
      <4> QED BY <4>1, AddsWithin
    <3> QED BY <3>2
  <2>4. ASSUME NEW s \in SUBSET U, s # U, s # {}
        PROVE  F(s)[s] = g[One(s)] + F(s \ {One(s)})[s \ {One(s)}]
    <3> DEFINE v == s \ {One(s)}
    <3>1. Adds(F(s), g, s) /\ v \in SUBSET s
      BY <2>3, <2>4
    <3>2. Adds([u \in SUBSET v |-> F(s)[u]], g, v)
      BY <3>1, AddsWithin
    <3>3. Adds(F(v), g, v)
      <4>1. v \in SUBSET U /\ v # U
        BY <2>4
      <4> QED BY <2>3, <4>1
    <3>4. IsFiniteSet(v)
      BY <2>1, FS_Subset
    <3>5. F(v) = [u \in SUBSET v |-> F(s)[u]]
      BY <3>2, <3>3, <3>4, AddsOnce
    <3>6. F(v)[v] = F(s)[v]
      BY <3>5
    <3>7. F(s)[s] = g[One(s)] + F(s)[v]
      BY <2>4, <3>1 DEF Adds
    <3> QED BY <3>6, <3>7
  <2>5. ASSUME NEW s \in SUBSET U
        PROVE  h[s] = IF s = {} THEN 0 ELSE g[One(s)] + h[s \ {One(s)}]
    <3> DEFINE v == s \ {One(s)}
    <3>1. CASE s = {}
      BY <3>1
    <3>2. CASE s # {}
      <4>1. One(s) \in s
        BY <3>2, OneIsOf
      <4>2. v \in SUBSET U /\ v # U
        BY <4>1
      <4>3. h[v] = IF v = {} THEN 0 ELSE F(v)[v]
        BY <4>2
      <4>4. Adds(F(v), g, v)
        BY <2>3, <4>2
      <4>5. v = {} => F(v)[v] = 0
        <5> SUFFICES ASSUME v = {} PROVE F(v)[v] = 0
          OBVIOUS
        <5> HIDE DEF v, F
        <5> QED BY <4>4 DEF Adds
      <4>6. h[v] = F(v)[v]
        BY <4>3, <4>5
      <4>7. CASE s = U
        BY <3>2, <4>6, <4>7
      <4>8. CASE s # U
        <5>1. F(s)[s] = g[One(s)] + F(v)[v]
          BY <2>4, <3>2, <4>8
        <5>2. h[s] = F(s)[s]
          BY <3>2, <4>8
        <5> HIDE DEF h, F, v
        <5>3. h[s] = g[One(s)] + h[v]
          BY <4>6, <5>1, <5>2
        <5> QED BY <3>2, <5>3 DEF v
      <4> QED BY <4>7, <4>8
    <3> QED BY <3>1, <3>2
  <2>6. h = [s \in SUBSET U |-> IF s = {} THEN 0 ELSE g[One(s)] + h[s \ {One(s)}]]
    <3>1. h = [s \in SUBSET U |-> h[s]]
      OBVIOUS
    <3> HIDE DEF h
    <3> QED BY <2>5, <3>1
  <2>7. Adds(h, g, U)
    <3> HIDE DEF h
    <3> QED BY <2>6 DEF Adds
  <2> QED BY <2>1, <2>7
<1> QED BY <1>1

(* Nothing adds up to 0.                                                     *)
LEMMA TotalNothing ==
  ASSUME NEW g
  PROVE  Total(g, {}) = 0
<1> DEFINE F == CHOOSE f : Adds(f, g, {})
<1>1. Adds(F, g, {})
  BY AddsExists, FS_EmptySet
<1>2. F[{}] = 0
  <2> HIDE DEF F
  <2> QED BY <1>1 DEF Adds
<1> QED BY <1>2, TotalIs

(* The element chosen first, and the rest.                                   *)
LEMMA TotalOne ==
  ASSUME NEW g, NEW S, IsFiniteSet(S), S # {}
  PROVE  Total(g, S) = g[One(S)] + Total(g, S \ {One(S)})
<1> DEFINE F(s) == CHOOSE f : Adds(f, g, s)
           v == S \ {One(S)}
<1>1. IsFiniteSet(v)
  BY FS_Subset
<1>2. Adds(F(S), g, S) /\ Adds(F(v), g, v)
  BY <1>1, AddsExists
<1>3. Adds([u \in SUBSET v |-> F(S)[u]], g, v)
  <2> HIDE DEF F
  <2> QED BY <1>2, AddsWithin
<1>4. F(v) = [u \in SUBSET v |-> F(S)[u]]
  <2> HIDE DEF F
  <2> QED BY <1>1, <1>2, <1>3, AddsOnce
<1>5. F(S)[S] = g[One(S)] + F(S)[v]
  <2> HIDE DEF F
  <2> QED BY <1>2 DEF Adds
<1>6. F(v)[v] = F(S)[v]
  <2> HIDE DEF F
  <2> QED BY <1>4
<1> QED BY <1>5, <1>6, TotalIs

(* What is added up are natural numbers.                                    *)
Natural(g, S) == IsFiniteSet(S) /\ \A x \in S : g[x] \in Nat

(* What holds of a set holds of its subsets.                                 *)
LEMMA NaturalWithin ==
  ASSUME NEW g, NEW S, Natural(g, S), NEW U \in SUBSET S
  PROVE  Natural(g, U)
BY FS_Subset DEF Natural

(* Natural numbers add up to one.                                            *)
LEMMA TotalNat ==
  ASSUME NEW g, NEW S, Natural(g, S)
  PROVE  Total(g, S) \in Nat
<1> DEFINE T == {s \in SUBSET S : Total(g, s) \notin Nat}
<1>1. ASSUME T # {} PROVE FALSE
  <2>1. PICK U \in T : \A x \in U : U \ {x} \notin T
    <3> HIDE DEF T
    <3>1. T \subseteq SUBSET S
      BY DEF T
    <3> QED BY <1>1, <3>1, Smallest DEF Natural
  <2>2. U # {}
    BY <2>1, TotalNothing
  <2>3. One(U) \in U /\ IsFiniteSet(U)
    BY <2>1, <2>2, OneIsOf, FS_Subset DEF Natural
  <2>4. Total(g, U \ {One(U)}) \in Nat /\ g[One(U)] \in Nat
    BY <2>1, <2>3 DEF Natural
  <2> QED BY <2>1, <2>2, <2>3, <2>4, TotalOne
<1> QED BY <1>1

(* Any element, and the rest: the order is no matter.                        *)
LEMMA TotalTake ==
  ASSUME NEW g, NEW S, Natural(g, S), NEW x \in S
  PROVE  Total(g, S) = g[x] + Total(g, S \ {x})
<1> DEFINE T == {s \in SUBSET S : \E y \in s : Total(g, s) # g[y] + Total(g, s \ {y})}
<1>1. ASSUME T # {} PROVE FALSE
  <2>1. PICK U \in T : \A y \in U : U \ {y} \notin T
    <3> HIDE DEF T
    <3>1. T \subseteq SUBSET S
      BY DEF T
    <3> QED BY <1>1, <3>1, Smallest DEF Natural
  <2>2. PICK y \in U : Total(g, U) # g[y] + Total(g, U \ {y})
    BY <2>1
  <2>3. One(U) \in U /\ IsFiniteSet(U)
    BY <2>1, <2>2, OneIsOf, FS_Subset DEF Natural
  <2> DEFINE o == One(U)
             V == (U \ {y}) \ {o}
  <2> HIDE DEF o
  <2>4. Total(g, U) = g[o] + Total(g, U \ {o})
    BY <2>2, <2>3, TotalOne DEF o
  <2>5. o # y /\ o \in U
    BY <2>2, <2>3, <2>4 DEF o
  <2>6. Total(g, U \ {o}) = g[y] + Total(g, (U \ {o}) \ {y})
    BY <2>1, <2>2, <2>5
  <2>7. Total(g, U \ {y}) = g[o] + Total(g, V)
    BY <2>1, <2>2, <2>5
  <2>8. (U \ {o}) \ {y} = V
    OBVIOUS
  <2>9. Total(g, V) \in Nat /\ g[o] \in Nat /\ g[y] \in Nat
    <3>1. V \in SUBSET S
      BY <2>1
    <3> QED BY <2>1, <2>2, <2>5, <3>1, NaturalWithin, TotalNat DEF Natural
  <2> HIDE DEF V
  <2> QED BY <2>2, <2>4, <2>6, <2>7, <2>8, <2>9
<1> QED BY <1>1

(* Sets that share nothing add up.                                           *)
LEMMA TotalApart ==
  ASSUME NEW g, NEW A, NEW B, Natural(g, A \cup B), A \cap B = {}
  PROVE  Total(g, A \cup B) = Total(g, A) + Total(g, B)
<1> DEFINE T == {s \in SUBSET A : Total(g, s \cup B) # Total(g, s) + Total(g, B)}
<1>1. ASSUME T # {} PROVE FALSE
  <2>1. PICK U \in T : \A y \in U : U \ {y} \notin T
    <3> HIDE DEF T
    <3>1. T \subseteq SUBSET (A \cup B)
      BY DEF T
    <3> QED BY <1>1, <3>1, Smallest DEF Natural
  <2>2. Natural(g, B) /\ Natural(g, U) /\ Natural(g, U \cup B)
    BY <2>1, NaturalWithin
  <2>3. PICK y : y \in U
    <3>1. CASE U = {}
      <4>1. U \cup B = B /\ Total(g, U) = 0 /\ Total(g, B) \in Nat
        BY <2>2, <3>1, TotalNothing, TotalNat
      <4>2. Total(g, U \cup B) = Total(g, U) + Total(g, B)
        <5> HIDE DEF T
        <5> QED BY <4>1
      <4> QED BY <2>1, <4>2
    <3> QED BY <3>1
  <2>4. Total(g, U) = g[y] + Total(g, U \ {y})
    BY <2>2, <2>3, TotalTake
  <2>5. Total(g, U \cup B) = g[y] + Total(g, (U \cup B) \ {y})
    BY <2>2, <2>3, TotalTake
  <2>6. (U \cup B) \ {y} = (U \ {y}) \cup B
    BY <2>1, <2>3
  <2>7. Total(g, (U \ {y}) \cup B) = Total(g, U \ {y}) + Total(g, B)
    BY <2>1, <2>3
  <2>8. g[y] \in Nat /\ Total(g, U \ {y}) \in Nat /\ Total(g, B) \in Nat
    BY <2>2, <2>3, NaturalWithin, TotalNat DEF Natural
  <2>9. Total(g, U \cup B) = Total(g, U) + Total(g, B)
    <3> HIDE DEF T
    <3> QED BY <2>4, <2>5, <2>6, <2>7, <2>8
  <2> QED BY <2>1, <2>9
<1> QED BY <1>1

(* A subset adds up to no more.                                              *)
LEMMA TotalWithin ==
  ASSUME NEW g, NEW A, NEW B, Natural(g, B), A \subseteq B
  PROVE  Total(g, A) <= Total(g, B)
<1>1. B = A \cup (B \ A) /\ A \cap (B \ A) = {}
  OBVIOUS
<1>2. Total(g, B) = Total(g, A) + Total(g, B \ A)
  BY <1>1, TotalApart
<1>3. Total(g, A) \in Nat /\ Total(g, B \ A) \in Nat
  BY NaturalWithin, TotalNat
<1> QED BY <1>2, <1>3

(* What two sets cover adds up to no more than both.                         *)
LEMMA TotalBelow ==
  ASSUME NEW g, NEW A, NEW B, NEW C, Natural(g, B \cup C), A \subseteq B \cup C
  PROVE  Total(g, A) <= Total(g, B) + Total(g, C)
<1>1. B \cup C = B \cup (C \ B) /\ B \cap (C \ B) = {}
  OBVIOUS
<1>2. Total(g, B \cup C) = Total(g, B) + Total(g, C \ B)
  BY <1>1, TotalApart
<1>3. Natural(g, A) /\ Natural(g, B) /\ Natural(g, C) /\ Natural(g, C \ B)
  BY NaturalWithin
<1>4. Total(g, A) <= Total(g, B \cup C) /\ Total(g, C \ B) <= Total(g, C)
  BY <1>3, TotalWithin
<1> QED BY <1>2, <1>3, <1>4, TotalNat

(* Functions that agree on a set have one total there.                       *)
LEMMA TotalAgrees ==
  ASSUME NEW g, NEW h, NEW S, IsFiniteSet(S), \A x \in S : g[x] = h[x]
  PROVE  Total(g, S) = Total(h, S)
<1> DEFINE T == {s \in SUBSET S : Total(g, s) # Total(h, s)}
<1>1. ASSUME T # {} PROVE FALSE
  <2>1. PICK U \in T : \A x \in U : U \ {x} \notin T
    <3> HIDE DEF T
    <3>1. T \subseteq SUBSET S
      BY DEF T
    <3> QED BY <1>1, <3>1, Smallest
  <2>2. U # {}
    BY <2>1, TotalNothing
  <2>3. One(U) \in U /\ IsFiniteSet(U)
    BY <2>1, <2>2, OneIsOf, FS_Subset
  <2>4. Total(g, U \ {One(U)}) = Total(h, U \ {One(U)}) /\ g[One(U)] = h[One(U)]
    BY <2>1, <2>3
  <2> QED BY <2>1, <2>2, <2>3, <2>4, TotalOne
<1> QED BY <1>1

(* The totals of two functions add up to that of their sum.                  *)
LEMMA TotalPlus ==
  ASSUME NEW a, NEW b, NEW c, NEW S, Natural(b, S), Natural(c, S),
         \A x \in S : a[x] = b[x] + c[x]
  PROVE  Total(a, S) = Total(b, S) + Total(c, S)
<1> DEFINE T == {s \in SUBSET S : Total(a, s) # Total(b, s) + Total(c, s)}
<1>1. ASSUME T # {} PROVE FALSE
  <2>1. PICK U \in T : \A x \in U : U \ {x} \notin T
    <3> HIDE DEF T
    <3>1. T \subseteq SUBSET S
      BY DEF T
    <3> QED BY <1>1, <3>1, Smallest DEF Natural
  <2>2. U # {}
    BY <2>1, TotalNothing
  <2>3. One(U) \in U /\ IsFiniteSet(U)
    BY <2>1, <2>2, OneIsOf, FS_Subset DEF Natural
  <2> DEFINE o == One(U)
             V == U \ {o}
  <2>4. Total(a, V) = Total(b, V) + Total(c, V) /\ a[o] = b[o] + c[o]
    BY <2>1, <2>3
  <2>5. /\ Total(a, U) = a[o] + Total(a, V)
        /\ Total(b, U) = b[o] + Total(b, V)
        /\ Total(c, U) = c[o] + Total(c, V)
    BY <2>2, <2>3, TotalOne
  <2>6. Total(b, V) \in Nat /\ Total(c, V) \in Nat /\ b[o] \in Nat /\ c[o] \in Nat
    BY <2>1, <2>3, NaturalWithin, TotalNat DEF Natural
  <2>7. Total(a, U) = Total(b, U) + Total(c, U)
    <3> HIDE DEF T, o, V
    <3> QED BY <2>4, <2>5, <2>6
  <2> QED BY <2>1, <2>7
<1> QED BY <1>1

(* A union adds up to no more than its parts do.                            *)
LEMMA TotalOfParts ==
  ASSUME NEW g, NEW S, IsFiniteSet(S), NEW in, NEW a,
         Natural(g, UNION {in[x] : x \in S}), \A x \in S : a[x] = Total(g, in[x])
  PROVE  Total(g, UNION {in[x] : x \in S}) <= Total(a, S)
<1> DEFINE All(s) == UNION {in[x] : x \in s}
           T == {s \in SUBSET S : ~ (Total(g, All(s)) <= Total(a, s))}
<1>1. ASSUME T # {} PROVE FALSE
  <2>1. PICK U \in T : \A x \in U : U \ {x} \notin T
    <3> HIDE DEF T
    <3>1. T \subseteq SUBSET S
      BY DEF T
    <3> QED BY <1>1, <3>1, Smallest
  <2>2. U # {}
    <3>1. ASSUME U = {} PROVE FALSE
      <4>1. All(U) = {}
        BY <3>1
      <4>2. Total(g, All(U)) = 0 /\ Total(a, U) = 0
        BY <3>1, <4>1, TotalNothing
      <4>3. Total(g, All(U)) <= Total(a, U)
        <5> HIDE DEF T, All
        <5> QED BY <4>2
      <4> QED BY <2>1, <4>3
    <3> QED BY <3>1
  <2> DEFINE o == One(U)
             V == U \ {o}
  <2>3. o \in U /\ IsFiniteSet(U)
    BY <2>1, <2>2, OneIsOf, FS_Subset
  <2>4. Natural(g, All(V)) /\ Natural(g, in[o]) /\ Natural(g, All(V) \cup in[o])
    <3>1. All(V) \cup in[o] \subseteq All(S)
      BY <2>1, <2>3
    <3> HIDE DEF o, V
    <3> QED BY <3>1, NaturalWithin
  <2>5. Total(g, All(V)) <= Total(a, V)
    BY <2>1, <2>3
  <2>6. Total(g, All(U)) <= Total(g, All(V)) + Total(g, in[o])
    <3>1. All(U) = All(V) \cup in[o]
      BY <2>3
    <3> HIDE DEF All, o, V
    <3> QED BY <2>4, <3>1, TotalBelow
  <2>7. Total(a, U) = Total(g, in[o]) + Total(a, V)
    BY <2>1, <2>2, <2>3, TotalOne
  <2>8. Natural(a, V)
    <3>1. \A x \in V : a[x] \in Nat
      <4>1. ASSUME NEW x \in V PROVE a[x] \in Nat
        <5>1. x \in S /\ in[x] \in SUBSET All(S)
          BY <2>1, <4>1
        <5>2. Natural(g, in[x])
          BY <5>1, NaturalWithin
        <5> QED BY <5>1, <5>2, TotalNat
      <4> QED BY <4>1
    <3> QED BY <2>3, <3>1, FS_Subset DEF Natural
  <2>9. Total(g, All(U)) \in Nat /\ Total(a, V) \in Nat /\ Total(g, in[o]) \in Nat /\ Total(g, All(V)) \in Nat
    <3>1. Natural(g, All(U))
      <4>1. All(U) \subseteq All(S)
        BY <2>1
      <4> QED BY <4>1, NaturalWithin
    <3> HIDE DEF All, o, V
    <3> QED BY <2>4, <2>8, <3>1, TotalNat
  <2>10. Total(g, All(U)) <= Total(a, U)
    <3> HIDE DEF T, All, o, V
    <3> QED BY <2>5, <2>6, <2>7, <2>9
  <2> QED BY <2>1, <2>10
<1> QED BY <1>1

--------------------------------------------------------------------------------
(* Payments in flight.                                                         *)

Scene == [family : STRING, windows : SUBSET Window, payments : SUBSET Payment,
          dropped : Nat, lost : Nat, failures : Nat, limits : Nat, partial : BOOLEAN, prompt : BOOLEAN]

(* Scenarios are such; in them XMR and WOW transactions are not dropped.    *)
FlightAssumptions ==
  Scenario \subseteq Scene /\ \A s \in Scenario : s.family # "utxo" => s.dropped = 0

IsPay(x) == /\ x = [f \in {"at", "by", "way", "exclude", "after", "inputs", "change"} |-> x[f]]
            /\ x.after \subseteq Payment
IsRefresh(x) == x = [f \in {"by", "wants", "history", "awaits", "report"} |-> x[f]]

FlightShape ==
  /\ scene \in Scene /\ (scene.family # "utxo" => scene.dropped = 0)
  /\ pay = [p \in Payment |-> pay[p]] /\ \A p \in Payment : IsPay(pay[p])
  /\ chain \in [Payment -> {"none", "mempool", "mined", "gone"}]
  /\ listed \in [Payment -> {"none", "mempool", "mined"}]
  /\ age \in [Payment -> Nat]
  /\ list \subseteq Payment
  /\ known \in [Window -> SUBSET Payment] /\ heard \in [Window -> SUBSET Payment]
  /\ refresh = [r \in Refresh |-> refresh[r]] /\ \A r \in Refresh : IsRefresh(refresh[r])

(* Not yet on its way, and never, if it failed.                             *)
Early == {"new", "listing", "broadcast", "failed"}

(* What is not on its way nobody has heard of; what is, spends something.   *)
Unsent ==
  \A p \in Payment :
    /\ pay[p].at \in Early => chain[p] = "none" /\ listed[p] = "none" /\ age[p] = 0
    /\ pay[p].at # "recorded" => p \notin list /\ \A w \in Window : p \notin heard[w]
    /\ pay[p].at \notin {"new", "listing", "failed"} => pay[p].inputs # {}

(* What an answer of the backend lists, if it is on its way, is listed now. *)
Told(report) ==
  \A p \in Payment :
    report[p] # "none" => pay[p].at \notin Early /\ (Live(p) => listed[p] # "none")

Answered ==
  \A r \in Refresh : /\ refresh[r].history # None => Told(refresh[r].history)
                     /\ refresh[r].report # None => Told(refresh[r].report)

(* Of a prompt backend: nothing on its way grows old unlisted.              *)
OldIsListed == Prompt => \A p \in Payment : age[p] > 0 /\ Live(p) => listed[p] # "none"

(* XMR and WOW: nothing sent is undone, and no two spend the same.          *)
NoReplacement ==
  scene.family # "utxo" =>
    \A p, q \in Payment :
      /\ pay[p].at \notin Early => Live(p)
      /\ Live(p) /\ Live(q) /\ p # q => pay[p].inputs \cap pay[q].inputs = {}

FlightInv == FlightShape /\ Unsent /\ Answered /\ OldIsListed /\ NoReplacement /\ InFlightIsCovered

(* A window knows what is in the list of what it has ever heard.            *)
KnowsWhatItHeard ==
  \A w \in Window : heard[w] \cap list \subseteq known[w] /\ known[w] \subseteq heard[w]

(* What a payment is to leave out, if the backend still lists it not.       *)
LeavesOut ==
  \A p \in Payment :
    /\ pay[p].at = "new" => pay[p].way = None
    /\ \A q \in pay[p].after : pay[q].at = "recorded"
    /\ pay[p].at = "listing" /\ pay[p].way = "wizard" =>
         \A q \in pay[p].after :
           Live(q) => pay[q].inputs \subseteq pay[p].exclude \/ listed[q] # "none"

InputInv == KnowsWhatItHeard /\ LeavesOut /\ NoInputTwice

(* What is selected is there to be spent, and is something.                 *)
LEMMA Selected ==
  ASSUME NEW p \in Payment, FlightShape, Select(p)
  PROVE  /\ \/ /\ pay'[p].at = "broadcast" /\ pay'[p].way = pay[p].way /\ pay'[p].after = pay[p].after
               /\ pay'[p].inputs # {} /\ pay'[p].inputs \subseteq Unspent(listed) \ pay[p].exclude
            \/ pay'[p] = [Nothing EXCEPT !.at = "failed"]
         /\ IsPay(pay'[p])
<1> DEFINE spendable == Unspent(listed) \ pay[p].exclude
<1>p. IsPay(pay[p]) /\ pay = [q \in Payment |-> pay[q]]
  BY DEF FlightShape
<1>1. CASE \E I \in Greedy(spendable) :
             pay' = [pay EXCEPT ![p].at = "broadcast", ![p].exclude = {}, ![p].inputs = I,
                                ![p].change = Sum(I) - Cost]
  <2>1. PICK I \in Greedy(spendable) :
             pay' = [pay EXCEPT ![p].at = "broadcast", ![p].exclude = {}, ![p].inputs = I,
                                ![p].change = Sum(I) - Cost]
    BY <1>1
  <2>2. I # {} /\ I \subseteq spendable
    BY <2>1 DEF Greedy
  <2>3. pay'[p] = [pay[p] EXCEPT !.at = "broadcast", !.exclude = {}, !.inputs = I,
                                 !.change = Sum(I) - Cost]
    BY <1>p, <2>1
  <2> QED BY <1>p, <2>2, <2>3 DEF IsPay
<1>2. CASE /\ Sum(spendable) > 0
           /\ pay' = [pay EXCEPT ![p].at = "broadcast", ![p].exclude = {}, ![p].inputs = spendable]
  <2>1. spendable # {}
    <3> SUFFICES ASSUME spendable = {} PROVE FALSE
      OBVIOUS
    <3>1. Sum(spendable) = 0
      BY TotalNothing DEF Sum
    <3> HIDE DEF spendable
    <3> QED BY <1>2, <3>1
  <2>3. pay'[p] = [pay[p] EXCEPT !.at = "broadcast", !.exclude = {}, !.inputs = spendable]
    BY <1>p, <1>2
  <2> QED BY <1>p, <2>1, <2>3 DEF IsPay
<1>3. CASE Fails(p)
  <2>1. pay'[p] = [Nothing EXCEPT !.at = "failed"]
    BY <1>p, <1>3 DEF Fails
  <2> QED BY <2>1 DEF IsPay, Nothing
<1> QED BY <1>1, <1>2, <1>3 DEF Select
(* A step of the send of p is of no other; of its own it keeps the rest.    *)
LEMMA PayOfOthers ==
  ASSUME NEW p \in Payment, FlightShape,
         \/ \E w \in Window, way \in {"wizard", "tip"} : Submit(p, w, way)
         \/ Select(p) \/ Broadcast(p) \/ Record(p) \/ Loses(p)
  PROVE  /\ pay' = [q \in Payment |-> pay'[q]]
         /\ \A q \in Payment \ {p} : pay'[q] = pay[q]
BY DEF FlightShape, Submit, Select, Broadcast, Record, Loses, Fails, Goto

(* No step changes the shape of the state.                                   *)
LEMMA ShapeStep ==
  ASSUME FlightShape, [Next]_vars
  PROVE  FlightShape'
<1> USE DEF FlightShape
<1>1. ASSUME NEW p \in scene.payments, NEW w \in scene.windows, NEW way \in {"wizard", "tip"},
             Submit(p, w, way)
      PROVE  FlightShape'
  <2>1. p \in Payment /\ w \in Window
    BY DEF Scene
  <2>2. IsPay(pay'[p])
    BY <1>1, <2>1 DEF Submit, Nothing, IsPay
  <2> QED BY <1>1, <2>1, <2>2, PayOfOthers DEF Submit
<1>2. ASSUME NEW p \in scene.payments, Select(p)
      PROVE  FlightShape'
  <2>1. p \in Payment
    BY DEF Scene
  <2>2. IsPay(pay'[p])
    BY <1>2, <2>1, Selected
  <2> QED BY <1>2, <2>1, <2>2, PayOfOthers DEF Select
<1>3. ASSUME NEW p \in scene.payments, Broadcast(p)
      PROVE  FlightShape'
  <2>1. p \in Payment
    BY DEF Scene
  <2>2. IsPay(pay'[p])
    BY <1>3, <2>1 DEF IsPay, Broadcast, Fails, Goto, Nothing
  <2>3. chain' \in [Payment -> {"none", "mempool", "mined", "gone"}]
    BY <1>3, <2>1 DEF Broadcast
  <2> QED BY <1>3, <2>1, <2>2, <2>3, PayOfOthers DEF Broadcast
<1>4. ASSUME NEW p \in scene.payments, Record(p)
      PROVE  FlightShape'
  <2>1. p \in Payment
    BY DEF Scene
  <2>3. IsPay(pay[p]) /\ pay'[p] = [pay[p] EXCEPT !.at = "recorded", !.by = None]
    BY <1>4, <2>1 DEF Record
  <2>2. IsPay(pay'[p])
    BY <2>3 DEF IsPay
  <2> QED BY <1>4, <2>1, <2>2, PayOfOthers DEF Record, Updates, Outside
<1>5. ASSUME NEW p \in scene.payments, Loses(p)
      PROVE  FlightShape'
  <2>1. p \in Payment
    BY DEF Scene
  <2>5. IsPay(pay[p]) /\ pay'[p] = [pay[p] EXCEPT !.at = "lost"]
    BY <1>5, <2>1 DEF Loses, Goto
  <2>2. IsPay(pay'[p])
    BY <2>5 DEF IsPay
  <2>3. scene' \in Scene /\ scene'.family = scene.family /\ scene'.dropped = scene.dropped
    BY <1>5 DEF Loses, Scene
  <2>4. pay' = [q \in Payment |-> pay'[q]] /\ \A q \in Payment \ {p} : pay'[q] = pay[q]
    BY <1>5, <2>1, PayOfOthers
  <2> QED BY <1>5, <2>1, <2>2, <2>3, <2>4 DEF Loses, Outside
<1>6. ASSUME NEW p \in scene.payments, Mine(p)
      PROVE  FlightShape'
  BY <1>6 DEF Mine
<1>7. ASSUME NEW p \in scene.payments, Dropped(p)
      PROVE  FlightShape'
  <2>1. scene' \in Scene /\ (scene'.family # "utxo" => scene'.dropped = 0)
    BY <1>7 DEF Dropped, Scene
  <2>2. chain' \in [Payment -> {"none", "mempool", "mined", "gone"}]
    BY <1>7 DEF Dropped
  <2> QED BY <1>7, <2>1, <2>2 DEF Dropped
<1>8. ASSUME NEW r \in Refresh, NEW w \in scene.windows, RefreshBalances(r, w)
      PROVE  FlightShape'
  <2>1. IsRefresh(refresh'[r])
    BY <1>8 DEF RefreshBalances, Idle, IsRefresh
  <2> QED BY <1>8, <2>1 DEF RefreshBalances
<1>9. ASSUME NEW r \in Refresh, ReadHistory(r)
      PROVE  FlightShape'
  <2>1. IsRefresh(refresh'[r])
    BY <1>9 DEF ReadHistory, IsRefresh
  <2>2. scene' \in Scene /\ scene'.family = scene.family /\ scene'.dropped = scene.dropped
    BY <1>9 DEF ReadHistory, Scene
  <2> QED BY <1>9, <2>1, <2>2 DEF ReadHistory
<1>10. ASSUME NEW r \in Refresh, ReadBalance(r)
       PROVE  FlightShape'
  <2>1. IsRefresh(refresh'[r])
    BY <1>10 DEF ReadBalance, IsRefresh
  <2> QED BY <1>10, <2>1 DEF ReadBalance
<1>11. ASSUME NEW r \in Refresh, Reconcile(r)
       PROVE  FlightShape'
  <2>1. IsRefresh(refresh'[r])
    BY <1>11 DEF Reconcile, Idle, IsRefresh
  <2>2. ReconcileAfterBalanceRefresh(list, refresh[r].report, refresh[r].history) \subseteq list
    BY DEF ReconcileAfterBalanceRefresh, PendingOutgoingFor, ReconcileUtxo, ReconcileKeyImages
  <2> QED BY <1>11, <2>1, <2>2 DEF Reconcile, Updates
<1>12. ASSUME NEW w \in scene.windows, Hear(w)
       PROVE  FlightShape'
  BY <1>12 DEF Hear, Outside
<1>13. CASE Index
  <2>1. listed' \in [Payment -> {"none", "mempool", "mined"}]
    BY <1>13 DEF Index, Reports, Live
  <2> QED BY <1>13, <2>1 DEF Index
<1>14. ASSUME NEW p \in scene.payments, Age(p)
       PROVE  FlightShape'
  <2>1. scene' \in Scene /\ scene'.family = scene.family /\ scene'.dropped = scene.dropped
    BY <1>14 DEF Age, Scene
  <2>2. p \in Payment /\ age' = [age EXCEPT ![p] = @ + 1]
    BY <1>14 DEF Age, Scene
  <2> QED BY <1>14, <2>1, <2>2 DEF Age
<1>15. CASE UNCHANGED vars
  BY <1>15 DEF vars
<1> QED BY <1>1, <1>2, <1>3, <1>4, <1>5, <1>6, <1>7, <1>8, <1>9, <1>10, <1>11, <1>12, <1>13, <1>14,
           <1>15 DEF Next
(* What a step leaves as it is of the scenario.                             *)
SameBackend ==
  scene'.family = scene.family /\ scene'.prompt = scene.prompt /\ scene'.partial = scene.partial

LEMMA SceneStep ==
  ASSUME FlightShape, [Next]_vars
  PROVE  SameBackend /\ (Prompt' <=> Prompt) /\ Limits' = Limits /\ scene'.windows = scene.windows
<1>1. scene' = scene \/ \E f \in {"dropped", "lost", "failures", "limits"} :
                           scene' = [scene EXCEPT ![f] = @ - 1]
  BY DEF Next, vars, Submit, Select, Broadcast, Record, Loses, Mine, Dropped, RefreshBalances, ReadHistory,
         ReadBalance, Reconcile, Hear, Index, Age, Outside
<1>2. SameBackend /\ scene'.windows = scene.windows
  BY <1>1 DEF FlightShape, Scene, SameBackend
<1> QED BY <1>2 DEF SameBackend, Prompt, Limits

(* Steps that leave the payments, the network and the list alone.           *)
LEMMA ReadStep ==
  ASSUME FlightInv, InputInv, FlightShape', Answered',
         pay' = pay, chain' = chain, listed' = listed, age' = age, list' = list,
         SameBackend, KnowsWhatItHeard',
         \A w \in Window : heard'[w] \subseteq heard[w] \cup list
  PROVE  FlightInv' /\ InputInv'
<1> USE DEF FlightInv, InputInv
<1>1. \A p \in Payment : Live(p)' <=> Live(p)
  BY DEF Live
<1>2. Unsent'
  <2>1. \A p \in Payment, w \in Window : p \in heard'[w] => pay[p].at = "recorded"
    BY DEF Unsent
  <2> QED BY <2>1 DEF Unsent
<1>3. OldIsListed' /\ InFlightIsCovered'
  BY <1>1 DEF OldIsListed, InFlightIsCovered, SameBackend, Prompt
<1>4. NoReplacement'
  BY <1>1 DEF NoReplacement, SameBackend
<1>5. LeavesOut' /\ NoInputTwice'
  <2>1. \A p \in Payment : pay[p].after \subseteq Payment
    BY DEF FlightShape, IsPay
  <2> QED BY <1>1, <2>1 DEF LeavesOut, NoInputTwice
<1> QED BY <1>2, <1>3, <1>4, <1>5

(* Steps of the send of p before anyone has heard of it.                    *)
LEMMA EarlyStep ==
  ASSUME FlightInv, InputInv, FlightShape', NEW p \in Payment, 
         pay[p].at \in Early, pay'[p].at \in Early,
         \A q \in Payment \ {p} : pay'[q] = pay[q],
         pay'[p].at \notin {"new", "listing", "failed"} => pay'[p].inputs # {},
         UNCHANGED <<scene, chain, listed, age, list, heard, known, refresh>>
  PROVE  /\ FlightInv' /\ KnowsWhatItHeard'
         /\ \A q \in Payment \ {p} : \A o \in pay[q].after : o # p
<1> USE DEF FlightInv
<1>1. \A q \in Payment : Live(q)' <=> Live(q)
  BY DEF Live
<1>2. ~Live(p)
  BY DEF Unsent, Live
<1>3. Unsent'
  BY DEF Unsent, Early
<1>4. Answered'
  BY <1>1 DEF Answered, Told
<1>5. OldIsListed' /\ InFlightIsCovered'
  BY <1>1, <1>2 DEF OldIsListed, InFlightIsCovered, Early, Prompt
<1>6. NoReplacement'
  BY <1>1, <1>2 DEF NoReplacement
<1>7. KnowsWhatItHeard'
  BY DEF InputInv, KnowsWhatItHeard
<1>8. \A q \in Payment \ {p} : \A o \in pay[q].after : o # p
  BY DEF InputInv, LeavesOut, Early
<1> QED BY <1>3, <1>4, <1>5, <1>6, <1>7, <1>8

(* A send begins: with what its window knows is on its way left out.         *)
LEMMA SubmitStep ==
  ASSUME FlightInv, InputInv, FlightShape', NEW p \in Payment, NEW w \in Window,
         NEW way \in {"wizard", "tip"}, Submit(p, w, way)
  PROVE  FlightInv' /\ InputInv'
<1>1. /\ \A q \in Payment \ {p} : pay'[q] = pay[q]
      /\ pay[p].at = "new" /\ pay'[p].at = "listing" /\ pay'[p].way = way /\ pay'[p].inputs = {}
      /\ pay'[p].after = {q \in heard[w] : age[q] = 0 \/ Prompt}
      /\ pay'[p].exclude = Excludes(w, way)
  BY DEF FlightInv, FlightShape, Submit, At, Nothing
<1>2. /\ FlightInv' /\ KnowsWhatItHeard'
      /\ \A q \in Payment \ {p} : \A o \in pay[q].after : o # p
  BY <1>1, EarlyStep DEF Submit, Early
<1>3. \A q \in Payment : Live(q)' <=> Live(q)
  BY DEF Live, Submit
<1>4. \A q \in heard[w] : q \in Payment /\ q # p /\ pay[q].at = "recorded"
  BY <1>1 DEF FlightInv, FlightShape, Unsent
<1>5. ASSUME way = "wizard", NEW q \in heard[w], age[q] = 0 \/ Prompt, Live(q), listed[q] = "none"
      PROVE  pay[q].inputs \subseteq Excludes(w, way)
  <2>1. q \in known[w]
    BY <1>4, <1>5 DEF FlightInv, InFlightIsCovered, InputInv, KnowsWhatItHeard
  <2>2. ~IsStale(q)
    BY <1>4, <1>5 DEF FlightInv, FlightShape, OldIsListed, IsStale, Limits
  <2> QED BY <1>5, <2>1, <2>2 DEF Excludes, RecentlySpentInputs, PendingOutgoingFor, InputsOf
<1>6. LeavesOut'
  <2>1. ASSUME NEW q \in Payment \ {p}
        PROVE  /\ pay'[q].at = "new" => pay'[q].way = None
               /\ \A o \in pay'[q].after : pay'[o].at = "recorded"
               /\ pay'[q].at = "listing" /\ pay'[q].way = "wizard" =>
                    \A o \in pay'[q].after :
                      Live(o)' => pay'[o].inputs \subseteq pay'[q].exclude \/ listed'[o] # "none"
    <3>1. pay'[q] = pay[q] /\ pay[q].after \subseteq Payment \ {p}
      BY <1>1, <1>2 DEF FlightInv, FlightShape, IsPay
    <3> QED BY <1>1, <1>3, <3>1 DEF InputInv, LeavesOut, Submit
  <2>2. /\ \A o \in pay'[p].after : pay'[o].at = "recorded"
        /\ pay'[p].way = "wizard" =>
             \A o \in pay'[p].after :
               Live(o)' => pay'[o].inputs \subseteq pay'[p].exclude \/ listed'[o] # "none"
    BY <1>1, <1>3, <1>4, <1>5 DEF Submit
  <2> QED BY <1>1, <2>1, <2>2 DEF LeavesOut
<1>7. NoInputTwice'
  <2>1. ASSUME NEW q \in Payment \ {p}, pay'[q].way = "wizard", NEW o \in pay'[q].after, Live(o)'
        PROVE  pay'[o].inputs \cap pay'[q].inputs = {}
    <3>1. pay'[q] = pay[q] /\ pay[q].after \subseteq Payment \ {p}
      BY <1>1, <1>2 DEF FlightInv, FlightShape, IsPay
    <3> QED BY <1>1, <1>3, <2>1, <3>1 DEF InputInv, NoInputTwice
  <2> QED BY <1>1, <2>1 DEF NoInputTwice
<1> QED BY <1>2, <1>6, <1>7 DEF InputInv

(* Coins are selected: none of those left out, or of those listed as spent.  *)
LEMMA SelectStep ==
  ASSUME FlightInv, InputInv, FlightShape', NEW p \in Payment, Select(p)
  PROVE  FlightInv' /\ InputInv'
<1>1. /\ \A q \in Payment \ {p} : pay'[q] = pay[q]
      /\ pay[p].at = "listing"
      /\ \/ /\ pay'[p].at = "broadcast" /\ pay'[p].way = pay[p].way /\ pay'[p].after = pay[p].after
            /\ pay'[p].inputs # {} /\ pay'[p].inputs \subseteq Unspent(listed) \ pay[p].exclude
         \/ pay'[p].at = "failed" /\ pay'[p].after = {}
  BY Selected, PayOfOthers DEF FlightInv, Select, At, Nothing
<1>2. /\ FlightInv' /\ KnowsWhatItHeard'
      /\ \A q \in Payment \ {p} : \A o \in pay[q].after : o # p
  BY <1>1, EarlyStep DEF Select, Early
<1>3. \A q \in Payment : Live(q)' <=> Live(q)
  BY DEF Live, Select
<1>4. \A q \in Payment : pay[q].after \subseteq Payment \ {p}
  BY <1>1, <1>2 DEF FlightInv, FlightShape, IsPay, InputInv, LeavesOut
<1>5. LeavesOut'
  <2>1. ASSUME NEW q \in Payment \ {p}
        PROVE  /\ pay'[q].at = "new" => pay'[q].way = None
               /\ \A o \in pay'[q].after : pay'[o].at = "recorded"
               /\ pay'[q].at = "listing" /\ pay'[q].way = "wizard" =>
                    \A o \in pay'[q].after :
                      Live(o)' => pay'[o].inputs \subseteq pay'[q].exclude \/ listed'[o] # "none"
    <3>1. UNCHANGED listed /\ pay'[q] = pay[q]
      BY <1>1 DEF Select
    <3>2. ASSUME NEW o \in pay'[q].after
          PROVE  pay'[o] = pay[o]
      BY <1>1, <1>4, <3>1, <3>2
    <3>3. \A o \in pay'[q].after : Live(o)' <=> Live(o)
      BY <1>3, <1>4, <3>1
    <3>4. LeavesOut
      BY DEF InputInv
    <3> QED BY <3>1, <3>2, <3>3, <3>4 DEF LeavesOut
  <2>2. /\ pay'[p].at \notin {"new", "listing"}
        /\ \A o \in pay'[p].after : pay'[o].at = "recorded"
    BY <1>1, <1>4 DEF InputInv, LeavesOut
  <2> QED BY <2>1, <2>2 DEF LeavesOut
<1>6. NoInputTwice'
  <2>1. ASSUME NEW q \in Payment \ {p}, pay'[q].way = "wizard", NEW o \in pay'[q].after, Live(o)'
        PROVE  pay'[o].inputs \cap pay'[q].inputs = {}
    BY <1>1, <1>3, <1>4, <2>1 DEF InputInv, NoInputTwice
  <2>2. ASSUME pay'[p].way = "wizard", NEW o \in pay'[p].after, Live(o)'
        PROVE  pay'[o].inputs \cap pay'[p].inputs = {}
    <3>1. /\ pay'[p].inputs \subseteq Unspent(listed) \ pay[p].exclude
          /\ o \in pay[p].after /\ pay[p].way = "wizard" /\ o \in Payment \ {p}
      BY <1>1, <1>4, <2>2
    <3>2. pay'[o].inputs = pay[o].inputs /\ Live(o)
      BY <1>1, <1>3, <2>2, <3>1
    <3>3. pay[o].inputs \subseteq pay[p].exclude \/ listed[o] # "none"
      BY <1>1, <3>1, <3>2 DEF InputInv, LeavesOut
    <3>4. listed[o] # "none" => pay[o].inputs \cap Unspent(listed) = {}
      BY <3>1 DEF Unspent, InputsOf, Listed
    <3> QED BY <3>1, <3>2, <3>3, <3>4
  <2> QED BY <2>1, <2>2 DEF NoInputTwice
<1> QED BY <1>2, <1>5, <1>6 DEF InputInv

(* The network takes a payment, with what it replaces, or refuses it.        *)
LEMMA BroadcastStep ==
  ASSUME FlightInv, InputInv, FlightShape', NEW p \in Payment, Broadcast(p)
  PROVE  FlightInv' /\ InputInv'
<1> USE DEF FlightInv, InputInv
<1>1. /\ \A q \in Payment \ {p} : pay'[q] = pay[q]
      /\ pay[p].at = "broadcast"
      /\ UNCHANGED <<scene, listed, age, list, known, refresh, heard>>
  BY PayOfOthers DEF Broadcast, At
<1>2. \A q \in Payment : pay[q].after \subseteq Payment \ {p}
  BY <1>1 DEF FlightShape, IsPay, LeavesOut
<1>3. CASE Fails(p) /\ UNCHANGED chain
  <2>1. pay'[p].at = "failed" /\ pay'[p].after = {}
    BY <1>3 DEF Fails, Nothing, FlightShape
  <2>2. FlightInv' /\ KnowsWhatItHeard'
    BY <1>1, <1>3, <2>1, EarlyStep DEF Early
  <2>3. \A q \in Payment : Live(q)' <=> Live(q)
    BY <1>3 DEF Live
  <2>4. LeavesOut' /\ NoInputTwice'
    BY <1>1, <1>2, <2>1, <2>3 DEF LeavesOut, NoInputTwice
  <2> QED BY <2>2, <2>4
<1>4. CASE
        LET out == Descendants(Conflicts(p))
        IN  /\ out # {} => scene.family = "utxo" /\ \A q \in out : chain[q] # "mined" /\ q \notin pay[p].inputs
            /\ Goto(p, "answered")
            /\ chain' = [q \in Payment |-> IF q = p THEN "mempool"
                                           ELSE IF q \in out /\ Live(q) THEN "gone" ELSE chain[q]]
  <2> DEFINE out == Descendants(Conflicts(p))
  <2>1. /\ pay'[p] = [pay[p] EXCEPT !.at = "answered"] /\ IsPay(pay[p])
        /\ \A q \in Payment \ {p} : chain'[q] = chain[q] \/ (chain'[q] = "gone" /\ Live(q))
        /\ \A q \in Payment \ {p} : out = {} => chain'[q] = chain[q]
        /\ chain'[p] = "mempool"
        /\ scene.family # "utxo" => out = {}
    <3> HIDE DEF out
    <3>1. /\ scene.family # "utxo" => out = {}
          /\ Goto(p, "answered")
          /\ chain' = [q \in Payment |-> IF q = p THEN "mempool"
                                         ELSE IF q \in out /\ Live(q) THEN "gone" ELSE chain[q]]
      BY <1>4 DEF out
    <3>2. pay'[p] = [pay[p] EXCEPT !.at = "answered"] /\ IsPay(pay[p])
      BY <3>1 DEF Goto, FlightShape
    <3>3. /\ \A q \in Payment \ {p} : chain'[q] = IF q \in out /\ Live(q) THEN "gone" ELSE chain[q]
          /\ chain'[p] = "mempool"
      BY <3>1
    <3>4. ASSUME NEW q \in Payment \ {p}
          PROVE  /\ chain'[q] = chain[q] \/ (chain'[q] = "gone" /\ Live(q))
                 /\ out = {} => chain'[q] = chain[q]
      BY <3>3 DEF Live
    <3>5. chain'[p] = "mempool" /\ (scene.family # "utxo" => out = {})
      BY <3>1, <3>3
    <3> QED BY <3>2, <3>4, <3>5
  <2>2. /\ pay'[p].at = "answered" /\ pay'[p].way = pay[p].way /\ pay'[p].after = pay[p].after
        /\ pay'[p].inputs = pay[p].inputs
    BY <2>1 DEF IsPay
  <2>3. /\ \A q \in Payment \ {p} : Live(q)' => Live(q)
        /\ Live(p)' /\ ~Live(p)
    BY <1>1, <2>1 DEF Live, Unsent, Early
  <2>4. scene.family # "utxo" =>
          /\ \A q \in Payment \ {p} : Live(q)' <=> Live(q)
          /\ \A q \in Payment \ {p} : Live(q) => pay[q].inputs \cap pay[p].inputs = {}
    <3>1. Conflicts(p) \subseteq out
      BY DEF Descendants
    <3>2. scene.family # "utxo" => Conflicts(p) = {} /\ \A q \in Payment \ {p} : chain'[q] = chain[q]
      BY <2>1, <3>1
    <3> QED BY <3>2 DEF Conflicts, Live
  <2>5. Unsent'
    <3>1. \A q \in Payment : pay[q].at \in Early =>
            listed[q] = "none" /\ age[q] = 0 /\ chain[q] = "none" /\ ~Live(q)
      BY DEF Unsent, Live
    <3>2. \A q \in Payment \ {p} : pay[q].at \in Early => chain'[q] = "none"
      BY <2>1, <3>1
    <3>3. pay'[p].inputs # {}
      BY <1>1, <2>2 DEF Unsent
    <3> QED BY <1>1, <2>2, <3>1, <3>2, <3>3 DEF Unsent, Early
  <2>6. Answered'
    BY <1>1, <2>2, <2>3 DEF Answered, Told, Early
  <2>7. OldIsListed' /\ InFlightIsCovered'
    <3>1. age[p] = 0
      BY <1>1 DEF Unsent, Early
    <3> QED BY <1>1, <2>2, <2>3, <3>1 DEF OldIsListed, InFlightIsCovered, Prompt
  <2>8. NoReplacement'
    BY <1>1, <2>2, <2>3, <2>4 DEF NoReplacement, Early
  <2>9. KnowsWhatItHeard'
    BY <1>1 DEF KnowsWhatItHeard
  <2>10. LeavesOut' /\ NoInputTwice'
    BY <1>1, <1>2, <2>2, <2>3 DEF LeavesOut, NoInputTwice
  <2> QED BY <2>5, <2>6, <2>7, <2>8, <2>9, <2>10
<1> QED BY <1>3, <1>4 DEF Broadcast

(* An answer is in: the list knows the payment before its window does.       *)
LEMMA RecordStep ==
  ASSUME FlightInv, InputInv, FlightShape', NEW p \in Payment, Record(p) \/ Loses(p)
  PROVE  FlightInv' /\ InputInv'
<1> USE DEF FlightInv, InputInv
<1>1. /\ \A q \in Payment \ {p} : pay'[q] = pay[q]
      /\ pay[p].at = "answered"
      /\ UNCHANGED <<chain, listed, age, refresh>> /\ SameBackend
      /\ pay'[p].at \in {"recorded", "lost"} /\ pay'[p].way = pay[p].way /\ pay'[p].after = pay[p].after
      /\ pay'[p].inputs = pay[p].inputs
      /\ \/ pay'[p].at = "lost" /\ UNCHANGED <<list, known, heard>>
         \/ pay'[p].at = "recorded" /\ Updates(pay[p].by, list \cup {p})
  <2>1. IsPay(pay[p]) /\ \A q \in Payment \ {p} : pay'[q] = pay[q]
    BY PayOfOthers DEF FlightShape
  <2>2. CASE Record(p)
    <3>1. pay'[p] = [pay[p] EXCEPT !.at = "recorded", !.by = None]
      BY <2>2 DEF Record, FlightShape
    <3>2. /\ pay'[p].at = "recorded" /\ pay'[p].way = pay[p].way /\ pay'[p].after = pay[p].after
          /\ pay'[p].inputs = pay[p].inputs
      BY <2>1, <3>1 DEF IsPay
    <3> QED BY <2>1, <2>2, <3>2 DEF Record, At, Outside, SameBackend
  <2>3. CASE Loses(p)
    <3>1. pay'[p] = [pay[p] EXCEPT !.at = "lost"]
      BY <2>3 DEF Loses, Goto, FlightShape
    <3>2. SameBackend
      BY <2>3 DEF Loses, FlightShape, Scene, SameBackend
    <3> QED BY <2>1, <2>3, <3>1, <3>2 DEF Loses, At, Outside, IsPay
  <2> QED BY <2>2, <2>3
<1>2. \A q \in Payment : pay[q].after \subseteq Payment \ {p}
  BY <1>1 DEF FlightShape, IsPay, LeavesOut
<1>3. \A q \in Payment : Live(q)' <=> Live(q)
  BY <1>1 DEF Live
<1>4. p \notin list /\ \A w \in Window : p \notin heard[w] /\ p \notin known[w]
  BY <1>1 DEF Unsent, KnowsWhatItHeard
<1>5. pay'[p].at = "lost" => UNCHANGED <<list, known, heard>>
  BY <1>1
<1>6. Unsent'
  <2>1. list' \subseteq list \cup {p}
    BY <1>1 DEF Updates
  <2>2. pay'[p].at # "recorded" => p \notin list' /\ \A w \in Window : p \notin heard'[w]
    BY <1>1, <1>4
  <2>3. \A q \in Payment \ {p}, w \in Window : q \in heard'[w] => q \in heard[w] \/ q \in list
    BY <1>1 DEF Updates, FlightShape
  <2> QED BY <1>1, <2>1, <2>2, <2>3 DEF Unsent, Early
<1>7. Answered'
  BY <1>1, <1>3 DEF Answered, Told, Early
<1>8. OldIsListed'
  BY <1>1, <1>3 DEF OldIsListed, SameBackend, Prompt
<1>9. InFlightIsCovered'
  <2>1. list \subseteq list' /\ (pay'[p].at = "recorded" => p \in list' \/ UNCHANGED list)
    BY <1>1 DEF Updates
  <2>2. pay'[p].at = "recorded" => p \in list'
    BY <1>1 DEF Updates
  <2> QED BY <1>1, <1>3, <2>1, <2>2 DEF InFlightIsCovered, SameBackend, Prompt
<1>10. NoReplacement'
  BY <1>1, <1>3 DEF NoReplacement, Early, SameBackend
<1>11. KnowsWhatItHeard'
  BY <1>1, <1>4 DEF KnowsWhatItHeard, Updates, FlightShape
<1>12. LeavesOut' /\ NoInputTwice'
  BY <1>1, <1>2, <1>3 DEF LeavesOut, NoInputTwice
<1> QED BY <1>6, <1>7, <1>8, <1>9, <1>10, <1>11, <1>12

(* The network mines or drops: nothing not on its way gets there.            *)
LEMMA NetworkStep ==
  ASSUME FlightInv, InputInv, FlightShape', NEW p \in Payment, Mine(p) \/ Dropped(p)
  PROVE  FlightInv' /\ InputInv'
<1> USE DEF FlightInv, InputInv
<1>1. /\ UNCHANGED <<pay, listed, age, list, known, refresh, heard>> /\ SameBackend
      /\ \A q \in Payment : Live(q)' => Live(q)
      /\ \A q \in Payment : chain[q] = "none" => chain'[q] = "none"
      /\ scene.family # "utxo" => \A q \in Payment : Live(q) => Live(q)'
  <2>1. CASE Mine(p)
    BY <2>1 DEF Mine, Live, FlightShape, SameBackend
  <2>2. CASE Dropped(p)
    <3> DEFINE undone == Descendants({p})
    <3>1. chain' = [q \in Payment |-> IF q \in undone /\ Live(q) THEN "gone" ELSE chain[q]]
      BY <2>2 DEF Dropped
    <3>2. /\ scene.dropped > 0 /\ SameBackend
          /\ UNCHANGED <<pay, listed, age, list, known, refresh, heard>>
      BY <2>2 DEF Dropped, FlightShape, Scene, SameBackend
    <3>3. scene.family = "utxo"
      BY <3>2 DEF FlightShape
    <3> HIDE DEF undone
    <3>4. ASSUME NEW q \in Payment
          PROVE  (Live(q)' => Live(q)) /\ (chain[q] = "none" => chain'[q] = "none")
      BY <3>1 DEF Live
    <3> QED BY <3>2, <3>3, <3>4
  <2> QED BY <2>1, <2>2
<1>2. Unsent'
  BY <1>1 DEF Unsent
<1>3. Answered'
  BY <1>1 DEF Answered, Told
<1>4. OldIsListed' /\ InFlightIsCovered'
  BY <1>1 DEF OldIsListed, InFlightIsCovered, SameBackend, Prompt
<1>5. NoReplacement'
  BY <1>1 DEF NoReplacement, SameBackend
<1>6. KnowsWhatItHeard'
  BY <1>1 DEF KnowsWhatItHeard
<1>7. \A q \in Payment : pay[q].after \subseteq Payment
  BY DEF FlightShape, IsPay
<1>8. LeavesOut' /\ NoInputTwice'
  BY <1>1, <1>7 DEF LeavesOut, NoInputTwice
<1> QED BY <1>2, <1>3, <1>4, <1>5, <1>6, <1>8

(* What was read a while ago, and what is listed now.                       *)
LEMMA AnswerStep ==
  ASSUME FlightInv, InputInv, FlightShape', NEW r \in Refresh,
         \/ \E w \in Window : RefreshBalances(r, w)
         \/ ReadHistory(r) \/ ReadBalance(r)
  PROVE  FlightInv' /\ InputInv'
<1> USE DEF FlightInv, InputInv
<1>1. Told(listed)
  BY DEF Told, Unsent
<1>2. /\ UNCHANGED <<pay, chain, listed, age, list, known, heard>> /\ SameBackend
      /\ \A q \in Refresh \ {r} : refresh'[q] = refresh[q]
      /\ refresh'[r].history \in {None, refresh[r].history, listed}
      /\ refresh'[r].report \in {None, refresh[r].report, listed}
  <2>1. CASE \E w \in Window : RefreshBalances(r, w)
    <3>1. PICK w \in Window : RefreshBalances(r, w)
      BY <2>1
    <3>2. refresh'[r] = [Idle EXCEPT !.by = w, !.wants = (scene.family = "utxo" /\ list # {}), !.awaits = TRUE]
      BY <3>1 DEF RefreshBalances, FlightShape
    <3>3. refresh'[r].history = None /\ refresh'[r].report = None
      BY <3>2 DEF Idle
    <3> QED BY <3>1, <3>3 DEF RefreshBalances, FlightShape, SameBackend
  <2>2. CASE ReadHistory(r)
    BY <2>2 DEF ReadHistory, FlightShape, IsRefresh, Scene, SameBackend
  <2>3. CASE ReadBalance(r)
    BY <2>3 DEF ReadBalance, FlightShape, IsRefresh, SameBackend
  <2> QED BY <2>1, <2>2, <2>3
<1>3. Answered'
  <2>1. /\ pay' = pay /\ listed' = listed /\ chain' = chain
        /\ \A q \in Refresh : /\ refresh'[q].history \in {None, refresh[q].history, listed}
                            /\ refresh'[q].report \in {None, refresh[q].report, listed}
    BY <1>2
  <2> SUFFICES ASSUME NEW q \in Refresh, NEW p \in Payment
               PROVE  /\ refresh'[q].history # None /\ refresh'[q].history[p] # "none" =>
                           pay'[p].at \notin Early /\ (Live(p)' => listed'[p] # "none")
                      /\ refresh'[q].report # None /\ refresh'[q].report[p] # "none" =>
                           pay'[p].at \notin Early /\ (Live(p)' => listed'[p] # "none")
    BY DEF Answered, Told
  <2>2. /\ refresh[q].history # None /\ refresh[q].history[p] # "none" =>
             pay[p].at \notin Early /\ (Live(p) => listed[p] # "none")
        /\ refresh[q].report # None /\ refresh[q].report[p] # "none" =>
             pay[p].at \notin Early /\ (Live(p) => listed[p] # "none")
        /\ listed[p] # "none" => pay[p].at \notin Early
    BY <1>1 DEF Answered, Told
  <2> QED BY <2>1, <2>2 DEF Live
<1>4. KnowsWhatItHeard'
  BY <1>2 DEF KnowsWhatItHeard
<1> QED BY <1>2, <1>3, <1>4, ReadStep

(* A window hears of the list.                                               *)
LEMMA HearStep ==
  ASSUME FlightInv, InputInv, FlightShape', NEW w \in Window, Hear(w)
  PROVE  FlightInv' /\ InputInv'
<1> USE DEF FlightInv, InputInv
<1>1. /\ UNCHANGED <<scene, pay, chain, listed, age, list, refresh>>
      /\ \A v \in Window : heard'[v] \subseteq heard[v] \cup list
  BY DEF Hear, Outside, FlightShape
<1>2. Answered'
  BY <1>1 DEF Answered, Told, Live
<1>3. KnowsWhatItHeard'
  BY <1>1 DEF Hear, KnowsWhatItHeard, FlightShape
<1> QED BY <1>1, <1>2, <1>3, ReadStep DEF SameBackend

(* What is let go before a limit is listed, if it is on its way.            *)
LEMMA LetGo ==
  ASSUME FlightInv, NEW r \in Refresh,
         NEW p \in list, Live(p), age[p] = 0 \/ Prompt,
         p \notin ReconcileAfterBalanceRefresh(list, refresh[r].report, refresh[r].history)
  PROVE  listed[p] # "none"
<1> USE DEF FlightInv
<1>1. p \in Payment /\ age[p] \in Nat
  BY DEF FlightShape
<1>2. CASE IsStale(p)
  BY <1>1, <1>2 DEF IsStale, Limits, OldIsListed
<1>3. CASE /\ scene.family = "utxo" /\ refresh[r].history # None
           /\ refresh[r].history[p] # "mempool"
           /\ refresh[r].history[p] # "none" \/ age[p] # 0
  <2>1. Told(refresh[r].history)
    BY <1>3 DEF Answered
  <2> QED BY <1>1, <1>3, <2>1 DEF Told, OldIsListed
<1>4. CASE /\ scene.family # "utxo" /\ refresh[r].report # None
           /\ pay[p].inputs \subseteq InputsOf(Listed(refresh[r].report))
  <2>1. Told(refresh[r].report)
    BY <1>4 DEF Answered
  <2>2. pay[p].at = "recorded" /\ pay[p].inputs # {}
    BY <1>1 DEF Unsent
  <2>3. PICK q \in Listed(refresh[r].report) : pay[q].inputs \cap pay[p].inputs # {}
    BY <1>4, <2>2 DEF InputsOf
  <2>4. q \in Payment /\ pay[q].at \notin Early /\ Live(q)
    BY <1>4, <2>1 DEF Listed, Told, NoReplacement
  <2>5. q = p
    BY <1>1, <1>4, <2>3, <2>4 DEF NoReplacement
  <2> QED BY <2>1, <2>3, <2>5 DEF Told, Listed
<1> QED BY <1>2, <1>3, <1>4 DEF ReconcileAfterBalanceRefresh, PendingOutgoingFor, ReconcileUtxo,
                                ReconcileKeyImages

(* A refresh lets go of no payment that nothing else tells of.               *)
LEMMA ReconcileStep ==
  ASSUME FlightInv, InputInv, FlightShape', NEW r \in Refresh, Reconcile(r)
  PROVE  FlightInv' /\ InputInv'
<1> USE DEF FlightInv, InputInv
<1>1. /\ UNCHANGED <<scene, pay, chain, listed, age>>
      /\ list' = ReconcileAfterBalanceRefresh(list, refresh[r].report, refresh[r].history)
      /\ Updates(refresh[r].by, list')
      /\ refresh' = [refresh EXCEPT ![r] = Idle]
  BY DEF Reconcile, Updates
<1>2. list' \subseteq list
  BY <1>1 DEF ReconcileAfterBalanceRefresh, PendingOutgoingFor, ReconcileUtxo, ReconcileKeyImages
<1>3. \A p \in Payment : Live(p)' <=> Live(p)
  BY <1>1 DEF Live
<1>4. \A w \in Window : heard'[w] \subseteq heard[w] \cup list
  BY <1>1, <1>2 DEF Updates, FlightShape
<1>5. Unsent'
  <2>1. \A p \in Payment, w \in Window : p \in heard'[w] => pay[p].at = "recorded"
    BY <1>4 DEF Unsent
  <2> QED BY <1>1, <1>2, <2>1 DEF Unsent
<1>6. Answered'
  <2>1. refresh'[r] = Idle /\ \A q \in Refresh \ {r} : refresh'[q] = refresh[q]
    BY <1>1 DEF FlightShape
  <2> QED BY <1>1, <1>3, <2>1 DEF Answered, Told, Idle
<1>7. OldIsListed'
  BY <1>1, <1>3 DEF OldIsListed, Prompt
<1>8. InFlightIsCovered'
  BY <1>1, <1>3, LetGo DEF InFlightIsCovered, Prompt
<1>9. NoReplacement'
  BY <1>1, <1>3 DEF NoReplacement
<1>10. KnowsWhatItHeard'
  BY <1>1, <1>2 DEF KnowsWhatItHeard, Updates, FlightShape
<1>11. \A q \in Payment : pay[q].after \subseteq Payment
  BY DEF FlightShape, IsPay
<1>12. LeavesOut' /\ NoInputTwice'
  BY <1>1, <1>3, <1>11 DEF LeavesOut, NoInputTwice
<1> QED BY <1>5, <1>6, <1>7, <1>8, <1>9, <1>10, <1>12

(* The backend catches up, or an entry passes a limit: what is on its way   *)
(* is listed then, if it was before.                                        *)
LEMMA TimeStep ==
  ASSUME FlightInv, InputInv, FlightShape', Index \/ \E p \in Payment : Age(p)
  PROVE  FlightInv' /\ InputInv'
<1> USE DEF FlightInv, InputInv
<1>1. UNCHANGED <<pay, chain, list, known, refresh, heard>> /\ SameBackend
  BY DEF Index, Age, FlightShape, Scene, SameBackend
<1>2. \A p \in Payment : Live(p)' <=> Live(p)
  BY <1>1 DEF Live
<1>3. /\ \A p \in Payment : Live(p) /\ listed[p] # "none" => listed'[p] # "none"
      /\ \A p \in Payment : pay[p].at \in Early => listed'[p] = "none" /\ age'[p] = 0
      /\ \A p \in Payment : age'[p] = 0 => age[p] = 0
      /\ Prompt => \A p \in Payment : age'[p] > 0 /\ Live(p) => listed'[p] # "none"
  <2>1. CASE Index
    BY <2>1 DEF Index, Reports, Live, Unsent, FlightShape, OldIsListed
  <2>2. ASSUME NEW p \in Payment, Age(p)
        PROVE  /\ \A q \in Payment : Live(q) /\ listed[q] # "none" => listed'[q] # "none"
               /\ \A q \in Payment : pay[q].at \in Early => listed'[q] = "none" /\ age'[q] = 0
               /\ \A q \in Payment : age'[q] = 0 => age[q] = 0
               /\ Prompt => \A q \in Payment : age'[q] > 0 /\ Live(q) => listed'[q] # "none"
    <3>1. /\ pay[p].at = "recorded" /\ listed' = listed
          /\ Prompt /\ Live(p) => listed[p] # "none"
          /\ age'[p] = age[p] + 1 /\ \A q \in Payment \ {p} : age'[q] = age[q]
      BY <2>2 DEF Age, At, FlightShape
    <3> QED BY <3>1 DEF OldIsListed, Unsent, Early, FlightShape
  <2> QED BY <2>1, <2>2
<1>4. Unsent'
  BY <1>1, <1>3 DEF Unsent
<1>5. Answered'
  BY <1>1, <1>2, <1>3 DEF Answered, Told
<1>6. OldIsListed' /\ InFlightIsCovered'
  BY <1>1, <1>2, <1>3 DEF OldIsListed, InFlightIsCovered, SameBackend, Prompt
<1>7. NoReplacement'
  BY <1>1, <1>2 DEF NoReplacement, SameBackend
<1>8. KnowsWhatItHeard'
  BY <1>1 DEF KnowsWhatItHeard
<1>9. \A q \in Payment : pay[q].after \subseteq Payment
  BY DEF FlightShape, IsPay
<1>10. LeavesOut' /\ NoInputTwice'
  BY <1>1, <1>2, <1>3, <1>9 DEF LeavesOut, NoInputTwice
<1> QED BY <1>4, <1>5, <1>6, <1>7, <1>8, <1>10

(* No step breaks the invariant.                                             *)
LEMMA FlightStep ==
  ASSUME FlightInv, InputInv, [Next]_vars
  PROVE  FlightInv' /\ InputInv'
<1>1. FlightShape'
  BY ShapeStep DEF FlightInv
<1>2. CASE UNCHANGED vars
  <2>1. Answered' /\ KnowsWhatItHeard'
    BY <1>2 DEF vars, FlightInv, InputInv, Answered, Told, Live, KnowsWhatItHeard
  <2> QED BY <1>1, <1>2, <2>1, ReadStep DEF vars, SameBackend
<1>3. scene.payments \subseteq Payment /\ scene.windows \subseteq Window
  BY DEF FlightInv, FlightShape, Scene
<1> QED BY <1>1, <1>2, <1>3, SubmitStep, SelectStep, BroadcastStep, RecordStep, NetworkStep,
           AnswerStep,
          HearStep, ReconcileStep, TimeStep DEF Next

(* It holds at the start.                                                    *)
LEMMA FlightStart ==
  ASSUME FlightAssumptions, Init
  PROVE  FlightInv /\ InputInv
<1>1. FlightShape
  BY DEF FlightAssumptions, Init, FlightShape, IsPay, IsRefresh, Nothing, Idle
<1>2. Unsent /\ OldIsListed /\ InFlightIsCovered
  BY DEF Init, Unsent, OldIsListed, InFlightIsCovered, Nothing
<1>3. Answered /\ NoReplacement
  BY DEF Init, Answered, NoReplacement, Idle, Nothing, Live, Early
<1>4. InputInv
  BY DEF Init, InputInv, KnowsWhatItHeard, LeavesOut, NoInputTwice, Nothing
<1> QED BY <1>1, <1>2, <1>3, <1>4 DEF FlightInv

(* So it always holds.                                                       *)
LEMMA FlightsHold ==
  ASSUME FlightAssumptions
  PROVE  FundsSpec => [](FlightInv /\ InputInv)
<1>1. FundsInit => FlightInv /\ InputInv
  BY FlightStart DEF FundsInit
<1>2. FlightInv /\ InputInv /\ [FundsNext]_<<part, vars, tips, sends>> => (FlightInv /\ InputInv)'
  <2>1. [FundsNext]_<<part, vars, tips, sends>> => [Next]_vars
    BY DEF FundsNext
  <2> QED BY <2>1, FlightStep
<1> QED BY <1>1, <1>2, PTL DEF FundsSpec

(* InFlightIsCovered: no refresh of a balance, in whatever order its answers   *)
(* come and whichever of its reads fail, lets go of a recorded payment that is *)
(* still on its way and that the backend does not list, before the entry is    *)
(* past a limit of age (BTC and LTC, where the backend is prompt: at any), for *)
(* any scenarios whose XMR and WOW transactions are not dropped.               *)
THEOREM CoveredInFlight ==
  ASSUME FlightAssumptions
  PROVE  FundsSpec => []InFlightIsCovered
<1>1. FundsSpec => [](FlightInv /\ InputInv)
  BY FlightsHold
<1>2. FlightInv => InFlightIsCovered
  BY DEF FlightInv
<1> QED BY <1>1, <1>2, PTL

(* NoInputTwice: a payment of the wizard spends no input of a payment its      *)
(* window has heard of, that is still on its way and whose entry was then not  *)
(* past a limit of age, whatever is read, ages, is let go or dropped since.    *)
THEOREM NothingSpentTwice ==
  ASSUME FlightAssumptions
  PROVE  FundsSpec => []NoInputTwice
<1>1. FundsSpec => [](FlightInv /\ InputInv)
  BY FlightsHold
<1>2. InputInv => NoInputTwice
  BY DEF InputInv
<1> QED BY <1>1, <1>2, PTL

--------------------------------------------------------------------------------
(* What has been sent is deducted.                                             *)

(* Coins are not payments, there are finitely many of both, amounts are     *)
(* numbers, and no answer is no report.                                      *)
CoinAssumptions ==
  /\ None \notin [Payment -> {"none", "mempool", "mined"}]
  /\ IsFiniteSet(Coin) /\ IsFiniteSet(Payment) /\ Coin \cap Payment = {}
  /\ Worth \in Nat /\ Cost \in Nat

(* What is spent is on its way, and worth what comes back of it.             *)
Priced ==
  \A p \in Payment :
    /\ pay[p].inputs \subseteq Coin \cup Payment
    /\ \A q \in Payment \cap pay[p].inputs : pay[q].at \notin Early
    /\ pay[p].change \in Nat /\ pay[p].change <= Sum(pay[p].inputs)
    /\ pay[p].at = "listing" => pay[p].change = 0

(* How a payment changes: up to the broadcast it may be another, then no more. *)
LEMMA PaySteps ==
  ASSUME FlightShape, [Next]_vars, NEW p \in Payment, pay'[p] # pay[p]
  PROVE  \/ /\ pay[p].at = "new" /\ pay'[p].at = "listing" /\ pay'[p].by \in scene.windows
            /\ pay'[p].inputs = {} /\ pay'[p].change = 0
         \/ Select(p)
         \/ /\ pay[p].at = "broadcast" /\ UNCHANGED listed
            /\ \/ pay'[p] = [Nothing EXCEPT !.at = "failed"]
               \/ /\ pay'[p].at = "answered" /\ pay'[p].by = pay[p].by
                  /\ pay'[p].inputs = pay[p].inputs /\ pay'[p].change = pay[p].change
         \/ /\ pay[p].at = "answered" /\ pay'[p].at \in {"recorded", "lost"}
            /\ pay'[p].by \in {None, pay[p].by}
            /\ pay'[p].inputs = pay[p].inputs /\ pay'[p].change = pay[p].change
<1>0. IsPay(pay[p]) /\ pay = [q \in Payment |-> pay[q]] /\ scene.payments \subseteq Payment
  BY DEF FlightShape, Scene
<1>1. ASSUME NEW q \in Payment, NEW w \in scene.windows, NEW way \in {"wizard", "tip"}, Submit(q, w, way)
      PROVE  /\ pay[p].at = "new" /\ pay'[p].at = "listing" /\ pay'[p].by \in scene.windows
             /\ pay'[p].inputs = {} /\ pay'[p].change = 0
  BY <1>0, <1>1 DEF Submit, At, Nothing
<1>2. ASSUME NEW q \in Payment, Select(q)
      PROVE  Select(p)
  <2>1. q = p
    BY <1>2, PayOfOthers
  <2> QED BY <1>2, <2>1
<1>3. ASSUME NEW q \in Payment, Broadcast(q)
      PROVE  /\ pay[p].at = "broadcast" /\ UNCHANGED listed
             /\ \/ pay'[p] = [Nothing EXCEPT !.at = "failed"]
                \/ /\ pay'[p].at = "answered" /\ pay'[p].by = pay[p].by
                   /\ pay'[p].inputs = pay[p].inputs /\ pay'[p].change = pay[p].change
  <2>1. q = p
    BY <1>3, PayOfOthers
  <2>2. pay[p].at = "broadcast" /\ (Fails(p) \/ Goto(p, "answered")) /\ UNCHANGED listed
    BY <1>3, <2>1 DEF Broadcast, At
  <2>3. CASE Fails(p)
    BY <1>0, <2>2, <2>3 DEF Fails
  <2>4. CASE Goto(p, "answered")
    <3>1. pay'[p] = [pay[p] EXCEPT !.at = "answered"]
      BY <1>0, <2>4 DEF Goto
    <3> QED BY <1>0, <2>2, <3>1 DEF IsPay
  <2> QED BY <2>2, <2>3, <2>4
<1>4. ASSUME NEW q \in Payment, Record(q) \/ Loses(q)
      PROVE  /\ pay[p].at = "answered" /\ pay'[p].at \in {"recorded", "lost"}
             /\ pay'[p].by \in {None, pay[p].by}
             /\ pay'[p].inputs = pay[p].inputs /\ pay'[p].change = pay[p].change
  <2>1. q = p
    BY <1>4, PayOfOthers
  <2>2. \/ pay'[p] = [pay[p] EXCEPT !.at = "recorded", !.by = None]
        \/ pay'[p] = [pay[p] EXCEPT !.at = "lost"]
    BY <1>0, <1>4, <2>1 DEF Record, Loses, Goto
  <2>3. pay[p].at = "answered"
    BY <1>4, <2>1 DEF Record, Loses, At
  <2> QED BY <1>0, <2>2, <2>3 DEF IsPay
<1>5. CASE UNCHANGED vars
  BY <1>5 DEF vars
<1> QED BY <1>0, <1>1, <1>2, <1>3, <1>4, <1>5 DEF Next, Mine, Dropped, RefreshBalances, ReadHistory,
          ReadBalance, Reconcile, Hear, Index, Age

(* What is on its way stays what it is.                                      *)
LEMMA SentStays ==
  ASSUME FlightShape, [Next]_vars, NEW p \in Payment, pay[p].at \notin Early
  PROVE  pay'[p].at \notin Early /\ pay'[p].inputs = pay[p].inputs /\ pay'[p].change = pay[p].change
<1>1. Select(p) => pay[p].at \in Early
  BY DEF Select, At, Early
<1> QED BY <1>1, PaySteps DEF Early

(* What can be spent is worth what it was.                                   *)
LEMMA Amounts ==
  ASSUME CoinAssumptions, Priced
  PROVE  Natural(Worths, Coin \cup Payment)
<1>1. IsFiniteSet(Coin \cup Payment)
  BY FS_Union DEF CoinAssumptions
<1>2. \A c \in Coin \cup Payment : Worths[c] \in Nat
  BY DEF Worths, CoinAssumptions, Priced
<1> QED BY <1>1, <1>2 DEF Natural

(* A sum of coins is a natural number ...                                    *)
LEMMA SumNat ==
  ASSUME CoinAssumptions, Priced, NEW S, S \subseteq Coin \cup Payment
  PROVE  Sum(S) \in Nat
BY Amounts, NaturalWithin, TotalNat DEF Sum

(* ... and what is on its way is worth the same after a step.                *)
LEMMA SumStays ==
  ASSUME CoinAssumptions, FlightShape, [Next]_vars,
         NEW S, S \subseteq Coin \cup Payment, \A q \in Payment \cap S : pay[q].at \notin Early
  PROVE  Total(Worths', S) = Total(Worths, S)
<1>1. IsFiniteSet(Coin \cup Payment)
  BY FS_Union DEF CoinAssumptions
<1>2. IsFiniteSet(S)
  BY <1>1, FS_Subset
<1>3. ASSUME NEW c \in S PROVE Worths'[c] = Worths[c]
  <2>1. CASE c \in Coin
    BY <2>1 DEF Worths
  <2>2. CASE c \notin Coin
    <3>1. c \in Payment /\ pay'[c].change = pay[c].change
      BY <2>2, SentStays
    <3> QED BY <2>2, <3>1 DEF Worths
  <2> QED BY <2>1, <2>2
<1> QED BY <1>2, <1>3, TotalAgrees

(* What the backend offers to spend is worth something to this wallet.       *)
LEMMA Offered ==
  ASSUME FlightInv, NEW S, S \subseteq Unspent(listed)
  PROVE  /\ S \subseteq Coin \cup Payment
         /\ \A q \in Payment \cap S : q \notin Coin => pay[q].at \notin Early
<1>1. \A q \in Payment \cap S : q \notin Coin => listed[q] # "none"
  BY DEF Unspent, Listed, Mined
<1> QED BY <1>1 DEF Unspent, Listed, Mined, FlightInv, Unsent

(* What is selected is worth its cost and the change.                        *)
LEMMA PricedStep ==
  ASSUME CoinAssumptions, FlightInv, Priced, [Next]_vars
  PROVE  Priced'
<1>1. FlightShape
  BY DEF FlightInv
<1>2. ASSUME NEW S, S \subseteq Coin \cup Payment, \A q \in Payment \cap S : pay[q].at \notin Early
      PROVE  /\ \A q \in Payment \cap S : pay'[q].at \notin Early
             /\ Sum(S) \in Nat /\ Total(Worths', S) = Sum(S)
  BY <1>1, <1>2, SentStays, SumNat, SumStays DEF Sum
<1>3. ASSUME NEW p \in Payment
      PROVE  /\ pay'[p].inputs \subseteq Coin \cup Payment
             /\ \A q \in Payment \cap pay'[p].inputs : pay'[q].at \notin Early
             /\ pay'[p].change \in Nat /\ pay'[p].change <= Total(Worths', pay'[p].inputs)
             /\ pay'[p].at = "listing" => pay'[p].change = 0
  <2>0. /\ pay[p].inputs \subseteq Coin \cup Payment
        /\ \A q \in Payment \cap pay[p].inputs : pay[q].at \notin Early
        /\ pay[p].change \in Nat /\ pay[p].change <= Sum(pay[p].inputs)
        /\ pay[p].at = "listing" => pay[p].change = 0
    BY DEF Priced
  <2>1. CASE /\ pay'[p].inputs = pay[p].inputs /\ pay'[p].change = pay[p].change
             /\ pay'[p].at # "listing" \/ pay'[p] = pay[p]
    BY <1>2, <2>0, <2>1
  <2>2. CASE pay'[p].inputs = {} /\ pay'[p].change = 0
    <3>1. Total(Worths', {}) = 0
      BY TotalNothing
    <3> QED BY <2>2, <3>1
  <2>3. CASE Select(p)
    <3> DEFINE spendable == Unspent(listed) \ pay[p].exclude
    <3>0. IsPay(pay[p]) /\ pay = [q \in Payment |-> pay[q]] /\ pay[p].change = 0
      BY <1>1, <2>0, <2>3 DEF FlightShape, Select, At
    <3>1. CASE \E I \in Greedy(spendable) :
                 pay' = [pay EXCEPT ![p].at = "broadcast", ![p].exclude = {}, ![p].inputs = I,
                                    ![p].change = Sum(I) - Cost]
      <4>1. PICK I \in Greedy(spendable) :
                 pay' = [pay EXCEPT ![p].at = "broadcast", ![p].exclude = {}, ![p].inputs = I,
                                    ![p].change = Sum(I) - Cost]
        BY <3>1
      <4>2. pay'[p] = [pay[p] EXCEPT !.at = "broadcast", !.exclude = {}, !.inputs = I,
                                     !.change = Sum(I) - Cost]
        BY <3>0, <4>1
      <4>3. I \subseteq Unspent(listed) /\ Sum(I) >= Cost
        BY <4>1 DEF Greedy
      <4>4. I \subseteq Coin \cup Payment /\ \A q \in Payment \cap I : pay[q].at \notin Early
        BY <4>3, Offered DEF CoinAssumptions
      <4>5. Sum(I) \in Nat /\ Total(Worths', I) = Sum(I) /\ \A q \in Payment \cap I : pay'[q].at \notin Early
        BY <1>2, <4>4
      <4>6. Sum(I) - Cost \in Nat /\ Sum(I) - Cost <= Sum(I)
        BY <4>3, <4>5 DEF CoinAssumptions
      <4>7. pay'[p].inputs = I /\ pay'[p].change = Sum(I) - Cost /\ pay'[p].at = "broadcast"
        BY <3>0, <4>2 DEF IsPay
      <4> QED BY <4>4, <4>5, <4>6, <4>7
    <3>2. CASE pay' = [pay EXCEPT ![p].at = "broadcast", ![p].exclude = {}, ![p].inputs = spendable]
      <4>1. pay'[p] = [pay[p] EXCEPT !.at = "broadcast", !.exclude = {}, !.inputs = spendable]
        BY <3>0, <3>2
      <4>2. pay'[p].inputs = spendable /\ pay'[p].change = 0 /\ pay'[p].at = "broadcast"
        BY <3>0, <4>1 DEF IsPay
      <4>3. spendable \subseteq Coin \cup Payment /\ \A q \in Payment \cap spendable : pay[q].at \notin Early
        BY Offered DEF CoinAssumptions
      <4>4. Sum(spendable) \in Nat /\ Total(Worths', spendable) = Sum(spendable)
            /\ \A q \in Payment \cap spendable : pay'[q].at \notin Early
        BY <1>2, <4>3
      <4> HIDE DEF spendable
      <4> QED BY <4>2, <4>3, <4>4
    <3>3. CASE Fails(p)
      BY <2>2, <3>0, <3>3 DEF Fails, Nothing
    <3> QED BY <2>3, <3>1, <3>2, <3>3 DEF Select
  <2>4. CASE pay'[p] = [Nothing EXCEPT !.at = "failed"]
    BY <2>2, <2>4 DEF Nothing
  <2> QED BY <1>1, <2>1, <2>2, <2>3, <2>4, PaySteps
<1> QED BY <1>3 DEF Priced, Sum

(* What a report lists is on its way, and what is mined with all before it;  *)
(* what has been seen mined is mined.                                       *)
Ordered(payments, report) ==
  \A p \in Payment :
    /\ report[p] # "none" => payments[p].at \notin Early
    /\ report[p] = "mined" => \A q \in Payment \cap payments[p].inputs : report[q] = "mined"

Reported ==
  /\ Ordered(pay, listed)
  /\ \A p \in Payment : listed[p] = "mined" => chain[p] = "mined"
  /\ \A p \in Payment : chain[p] = "mined" => \A q \in Payment \cap pay[p].inputs : chain[q] = "mined"
  /\ shown = [w \in Window |-> shown[w]] /\ \A w \in Window : Ordered(pay, shown[w])
  /\ \A r \in Refresh :
       /\ refresh[r].report # None => Ordered(pay, refresh[r].report)
       /\ refresh[r].history # None =>
            \A p \in Payment : /\ refresh[r].history[p] \in {"none", "mempool", "mined"}
                               /\ refresh[r].history[p] = "mined" => chain[p] = "mined"

(* A report stays so while the payments go on.                               *)
LEMMA OrderedStays ==
  ASSUME FlightShape, [Next]_vars, NEW report, Ordered(pay, report)
  PROVE  Ordered(pay', report)
BY SentStays DEF Ordered

(* Only the network mines, and what it has mined stays.                      *)
LEMMA MinedStays ==
  ASSUME FlightInv, Reported, [Next]_vars
  PROVE  \A p \in Payment :
           /\ chain'[p] = "mined" => \A q \in Payment \cap pay'[p].inputs : chain'[q] = "mined"
           /\ chain[p] = "mined" => chain'[p] = "mined"
<1> DEFINE Parents(p) == Payment \cap pay[p].inputs
<1>0. /\ FlightShape /\ scene.payments \subseteq Payment
      /\ \A p \in Payment : chain[p] = "mined" => \A q \in Parents(p) : chain[q] = "mined"
      /\ \A p \in Payment : chain[p] = "mined" => pay'[p].inputs = pay[p].inputs
  BY SentStays DEF FlightInv, FlightShape, Scene, Reported, Unsent
<1>1. CASE UNCHANGED chain
  BY <1>0, <1>1
<1>2. ASSUME NEW p \in Payment, Mine(p) PROVE \A q \in Payment :
           /\ chain'[q] = "mined" => \A o \in Payment \cap pay'[q].inputs : chain'[o] = "mined"
           /\ chain[q] = "mined" => chain'[q] = "mined"
  <2>1. pay' = pay /\ chain' = [chain EXCEPT ![p] = "mined"] /\ \A q \in Parents(p) : chain[q] = "mined"
    BY <1>2 DEF Mine
  <2> QED BY <1>0, <2>1 DEF FlightShape
<1>3. ASSUME NEW p \in Payment, Broadcast(p) PROVE \A q \in Payment :
           /\ chain'[q] = "mined" => \A o \in Payment \cap pay'[q].inputs : chain'[o] = "mined"
           /\ chain[q] = "mined" => chain'[q] = "mined"
  <2> DEFINE out == Descendants(Conflicts(p))
  <2>1. CASE UNCHANGED chain
    BY <1>0, <2>1
  <2>2. CASE /\ out # {} => \A q \in out : chain[q] # "mined"
             /\ chain' = [q \in Payment |-> IF q = p THEN "mempool"
                                            ELSE IF q \in out /\ Live(q) THEN "gone" ELSE chain[q]]
    <3>1. \A q \in Payment : chain[q] = "mined" <=> chain'[q] = "mined"
      <4>1. chain[p] = "none"
        BY <1>3 DEF Broadcast, At, FlightInv, Unsent, Early
      <4> HIDE DEF out
      <4> QED BY <2>2, <4>1
    <3> QED BY <1>0, <3>1
  <2> QED BY <1>3, <2>1, <2>2 DEF Broadcast
<1>4. ASSUME NEW p \in Payment, Dropped(p) PROVE \A q \in Payment :
           /\ chain'[q] = "mined" => \A o \in Payment \cap pay'[q].inputs : chain'[o] = "mined"
           /\ chain[q] = "mined" => chain'[q] = "mined"
  <2>1. \A q \in Payment : q \in Descendants({p}) => chain[q] # "mined"
    <3> DEFINE child(Q) == Q \cup {q \in Payment : pay[q].inputs \cap Q # {}}
    <3>1. ASSUME NEW Q \in SUBSET Payment, \A q \in Q : chain[q] # "mined"
          PROVE  child(Q) \in SUBSET Payment /\ \A q \in child(Q) : chain[q] # "mined"
      BY <1>0, <3>1
    <3>2. {p} \in SUBSET Payment /\ \A q \in {p} : chain[q] # "mined"
      BY <1>4 DEF Dropped
    <3> HIDE DEF child
    <3>3. \A q \in child(child(child({p}))) : chain[q] # "mined"
      <4>1. child({p}) \in SUBSET Payment /\ \A q \in child({p}) : chain[q] # "mined"
        BY <3>1, <3>2
      <4>2. child(child({p})) \in SUBSET Payment /\ \A q \in child(child({p})) : chain[q] # "mined"
        BY <3>1, <4>1
      <4> QED BY <3>1, <4>2
    <3> QED BY <3>3 DEF Descendants, child
  <2>2. chain' = [q \in Payment |-> IF q \in Descendants({p}) /\ Live(q) THEN "gone" ELSE chain[q]]
    BY <1>4 DEF Dropped
  <2>3. \A q \in Payment : chain[q] = "mined" <=> chain'[q] = "mined"
    BY <2>1, <2>2
  <2> QED BY <1>0, <2>3
<1>5. CASE UNCHANGED vars
  BY <1>1, <1>5 DEF vars
<1> QED BY <1>0, <1>1, <1>2, <1>3, <1>4, <1>5 DEF Next, Submit, Select, Record, Loses, Outside,
          RefreshBalances, ReadHistory, ReadBalance, Reconcile, Hear, Index, Age

(* A new report is of the network as it is, an old one of it as it was.      *)
LEMMA ReportedStep ==
  ASSUME FlightInv, Reported, [Next]_vars
  PROVE  Reported'
<1>0. FlightShape /\ FlightShape' /\ scene.payments \subseteq Payment
  BY ShapeStep DEF FlightInv, FlightShape, Scene
<1>1. \A p \in Payment :
           /\ chain'[p] = "mined" => \A q \in Payment \cap pay'[p].inputs : chain'[q] = "mined"
           /\ chain[p] = "mined" => chain'[p] = "mined"
  BY MinedStays
<1>2. /\ Ordered(pay', listed)
      /\ \A w \in Window : Ordered(pay', shown[w])
      /\ \A r \in Refresh : refresh[r].report # None => Ordered(pay', refresh[r].report)
  BY <1>0, OrderedStays DEF Reported
<1>3. Ordered(pay', listed') /\ \A p \in Payment : listed'[p] = "mined" => chain'[p] = "mined"
  <2>1. CASE Index
    <3>1. /\ pay' = pay /\ chain' = chain /\ listed' = [p \in Payment |-> Reports(p)]
          /\ \A p \in Payment : pay[p].at \in Early => chain[p] = "none"
      BY <2>1 DEF Index, FlightInv, Unsent
    <3> QED BY <1>1, <3>1 DEF Ordered, Reports, Live
  <2>2. CASE UNCHANGED listed
    BY <1>1, <1>2, <2>2 DEF Reported
  <2>3. CASE UNCHANGED vars
    BY <2>2, <2>3 DEF vars
  <2> QED BY <2>1, <2>2, <2>3 DEF Next, Submit, Select, Broadcast, Record, Loses, Mine, Dropped, Outside,
          RefreshBalances, ReadHistory, ReadBalance, Reconcile, Hear, Age
<1>4. CASE UNCHANGED <<shown, refresh>>
  BY <1>1, <1>2, <1>3, <1>4 DEF Reported
<1>5. ASSUME NEW r \in Refresh,
             \/ \E w \in scene.windows : RefreshBalances(r, w)
             \/ ReadHistory(r) \/ ReadBalance(r) \/ Reconcile(r)
      PROVE  Reported'
  <2>1. IsRefresh(refresh[r]) /\ refresh = [s \in Refresh |-> refresh[s]]
    BY <1>0 DEF FlightShape
  <2>2. /\ \A s \in Refresh \ {r} : refresh'[s] = refresh[s]
        /\ refresh'[r].report \in {None, refresh[r].report, listed}
        /\ refresh'[r].history \in {None, refresh[r].history, listed}
        /\ \/ shown' = shown
           \/ shown' = [shown EXCEPT ![refresh[r].by] = listed]
           \/ /\ refresh[r].report # None
              /\ shown' = [shown EXCEPT ![refresh[r].by] = refresh[r].report]
    <3>1. CASE \E w \in scene.windows : RefreshBalances(r, w)
      <4>1. PICK w \in scene.windows :
              shown' = shown
              /\ refresh' = [refresh EXCEPT ![r] = [Idle EXCEPT !.by = w, !.wants = scene.family = "utxo" /\ list # {},
                                                                !.awaits = TRUE]]
        BY <3>1 DEF RefreshBalances
      <4>2. refresh'[r].report = None /\ refresh'[r].history = None
        BY <2>1, <4>1 DEF Idle
      <4> QED BY <2>1, <4>1, <4>2
    <3>2. CASE ReadHistory(r)
      BY <2>1, <3>2 DEF ReadHistory, IsRefresh
    <3>3. CASE ReadBalance(r)
      BY <2>1, <3>3 DEF ReadBalance, IsRefresh
    <3>4. CASE Reconcile(r)
      BY <2>1, <3>4 DEF Reconcile, Idle
    <3> QED BY <1>5, <3>1, <3>2, <3>3, <3>4
  <2>3. shown' = [w \in Window |-> shown'[w]] /\ \A w \in Window : Ordered(pay', shown'[w])
    BY <1>2, <2>2 DEF Reported
  <2>4. \A s \in Refresh : refresh'[s].report # None => Ordered(pay', refresh'[s].report)
    BY <1>2, <2>2
  <2>5. ASSUME NEW s \in Refresh, refresh'[s].history # None, NEW p \in Payment
        PROVE  /\ refresh'[s].history[p] \in {"none", "mempool", "mined"}
               /\ refresh'[s].history[p] = "mined" => chain'[p] = "mined"
    <3>1. listed[p] \in {"none", "mempool", "mined"} /\ (listed[p] = "mined" => chain[p] = "mined")
      BY <1>0 DEF FlightShape, Reported
    <3> QED BY <1>1, <2>2, <2>5, <3>1 DEF Reported
  <2> QED BY <1>1, <1>3, <2>3, <2>4, <2>5 DEF Reported
<1>6. CASE UNCHANGED vars
  BY <1>4, <1>6 DEF vars
<1> QED BY <1>0, <1>4, <1>5, <1>6 DEF Next, Submit, Select, Broadcast, Record, Loses, Mine, Dropped,
          Outside, Hear, Index, Age

(* One window does it all, its refreshes one after another: its copy is the  *)
(* list.                                                                     *)
Solo(w) ==
  /\ known[w] = list
  /\ \A p \in Payment : pay[p].at \in {"listing", "broadcast", "answered"} => pay[p].by = w
  /\ \A r \in Refresh : refresh[r].by \in {None, w} /\ (refresh[r].by = None => refresh[r] = Idle)
  /\ \A r, s \in Refresh : refresh[r].by # None /\ refresh[s].by # None => r = s

(* What is owed is in its list or on its screen, and if its refresh lets it  *)
(* go, on its screen: its history may only do so as mined.                  *)
Covers(w) ==
  /\ \A p \in heard[w] : Owed(p) /\ shown[w][p] = "none" => p \in list
  /\ \A r \in Refresh :
       /\ refresh[r].by # None /\ ~refresh[r].awaits /\ ~scene.partial => refresh[r].report # None
       /\ Prompt => \A p \in Payment : Live(p) /\ age[p] > 0 => Finds(r, p)
       /\ refresh[r].report # None =>
            /\ shown[w] = refresh[r].report
            /\ \A p \in Payment :
                 Live(p) /\ refresh[r].report[p] = "none" =>
                   /\ refresh[r].history # None => refresh[r].history[p] # "mined"
                   /\ refresh[r].wants => listed[p] # "mined"

(* A send under way is of the one window.                                    *)
LEMMA SoloPay ==
  ASSUME FlightShape, NEW w \in Window, scene.windows = {w}, Solo(w), [Next]_vars, NEW p \in Payment
  PROVE  pay'[p].at \in {"listing", "broadcast", "answered"} => pay'[p].by = w
<1>1. CASE pay'[p] = pay[p]
  BY <1>1 DEF Solo
<1>2. CASE Select(p)
  <2>1. IsPay(pay[p]) /\ pay = [q \in Payment |-> pay[q]] /\ pay[p].by = w
    BY <1>2 DEF FlightShape, Solo, Select, At
  <2> DEFINE spendable == Unspent(listed) \ pay[p].exclude
  <2>2. CASE Fails(p)
    BY <2>1, <2>2 DEF Fails, Nothing
  <2>3. CASE \E I \in Greedy(spendable) :
               pay' = [pay EXCEPT ![p].at = "broadcast", ![p].exclude = {}, ![p].inputs = I,
                                  ![p].change = Sum(I) - Cost]
    <3>1. PICK I : pay' = [pay EXCEPT ![p].at = "broadcast", ![p].exclude = {}, ![p].inputs = I,
                                      ![p].change = Sum(I) - Cost]
      BY <2>3
    <3>2. pay'[p] = [pay[p] EXCEPT !.at = "broadcast", !.exclude = {}, !.inputs = I,
                                   !.change = Sum(I) - Cost]
      BY <2>1, <3>1
    <3> QED BY <2>1, <3>2 DEF IsPay
  <2>4. CASE pay' = [pay EXCEPT ![p].at = "broadcast", ![p].exclude = {}, ![p].inputs = spendable]
    <3>1. pay'[p] = [pay[p] EXCEPT !.at = "broadcast", !.exclude = {}, !.inputs = spendable]
      BY <2>1, <2>4
    <3> HIDE DEF spendable
    <3> QED BY <2>1, <3>1 DEF IsPay
  <2> QED BY <1>2, <2>2, <2>3, <2>4 DEF Select
<1>3. CASE pay'[p] = [Nothing EXCEPT !.at = "failed"]
  BY <1>3 DEF Nothing
<1> QED BY <1>1, <1>2, <1>3, PaySteps DEF Solo

(* Its copy of the list changes with the list, its refreshes come in turn.   *)
LEMMA SoloStep ==
  ASSUME ~Overlap, FlightInv, NEW w \in Window, scene.windows = {w}, Solo(w), [Next]_vars
  PROVE  Solo(w)'
<1>0. FlightShape /\ FlightShape' /\ scene.payments \subseteq Payment
  BY ShapeStep DEF FlightInv, FlightShape, Scene
<1>1. \A p \in Payment : pay'[p].at \in {"listing", "broadcast", "answered"} => pay'[p].by = w
  BY <1>0, SoloPay
<1>3. CASE UNCHANGED <<list, known, refresh>>
  BY <1>1, <1>3 DEF Solo
<1>4. ASSUME NEW p \in Payment, Record(p) PROVE Solo(w)'
  <2>1. pay[p].by = w /\ UNCHANGED refresh /\ list' = list \cup {p} /\ known'[w] = list'
    BY <1>0, <1>4 DEF Record, At, Updates, Solo, FlightShape, Outside
  <2> QED BY <1>1, <2>1 DEF Solo
<1>5. ASSUME NEW r \in Refresh, NEW v \in scene.windows, RefreshBalances(r, v) PROVE Solo(w)'
  <2>1. /\ v = w /\ UNCHANGED <<list, known>> /\ refresh[r] = Idle /\ \A s \in Refresh : refresh[s].by # w
        /\ refresh' = [refresh EXCEPT ![r] = [Idle EXCEPT !.by = w, !.wants = scene.family = "utxo" /\ list # {},
                                                          !.awaits = TRUE]]
    BY <1>5 DEF RefreshBalances
  <2>2. refresh'[r].by = w /\ \A s \in Refresh \ {r} : refresh'[s] = refresh[s] /\ refresh[s].by = None
    <3>1. refresh = [s \in Refresh |-> refresh[s]]
      BY <1>0 DEF FlightShape
    <3>2. refresh'[r].by = w
      BY <2>1, <3>1 DEF Idle
    <3>3. \A s \in Refresh \ {r} : refresh'[s] = refresh[s]
      BY <2>1, <3>1
    <3>4. \A s \in Refresh : refresh[s].by = None
      BY <1>0, <2>1 DEF Solo
    <3> QED BY <3>2, <3>3, <3>4
  <2>3. known'[w] = list'
    BY <1>0, <2>1 DEF Solo
  <2>4. \A s \in Refresh : refresh'[s].by \in {None, w} /\ (refresh'[s].by = None => refresh'[s] = Idle)
    <3>1. ASSUME NEW s \in Refresh \ {r} PROVE refresh'[s].by = None /\ refresh'[s] = Idle
      BY <1>0, <2>2, <3>1 DEF Solo
    <3>2. refresh'[r].by = w /\ w # None
      BY <1>0, <2>2, <2>1 DEF Solo
    <3> QED BY <3>1, <3>2
  <2>5. \A s, u \in Refresh : refresh'[s].by # None /\ refresh'[u].by # None => s = u
    BY <2>2
  <2> QED BY <1>1, <2>3, <2>4, <2>5 DEF Solo
<1>6. ASSUME NEW r \in Refresh, ReadHistory(r) \/ ReadBalance(r) PROVE Solo(w)'
  <2>1. /\ UNCHANGED <<list, known>> /\ refresh[r].by # None
        /\ refresh'[r].by = refresh[r].by /\ \A s \in Refresh \ {r} : refresh'[s] = refresh[s]
    BY <1>0, <1>6 DEF ReadHistory, ReadBalance, FlightShape, IsRefresh
  <2> QED BY <1>1, <2>1 DEF Solo
<1>7. ASSUME NEW r \in Refresh, Reconcile(r) PROVE Solo(w)'
  <2>1. /\ refresh[r].by = w /\ known'[w] = list'
        /\ refresh'[r] = Idle /\ \A s \in Refresh \ {r} : refresh'[s] = refresh[s]
    <3>1. refresh[r].by = w
      BY <1>7 DEF Reconcile, Solo
    <3>2. known'[w] = list'
      BY <1>0, <1>7, <3>1 DEF Reconcile, Updates, FlightShape
    <3>3. refresh' = [refresh EXCEPT ![r] = Idle] /\ refresh = [s \in Refresh |-> refresh[s]]
      BY <1>0, <1>7 DEF Reconcile, FlightShape
    <3>4. refresh'[r] = Idle /\ \A s \in Refresh \ {r} : refresh'[s] = refresh[s]
      BY <3>3
    <3> QED BY <3>1, <3>2, <3>4
  <2>2. refresh'[r].by = None
    BY <2>1 DEF Idle
  <2> QED BY <1>1, <2>1, <2>2 DEF Solo
<1>8. ASSUME NEW v \in scene.windows, Hear(v) PROVE Solo(w)'
  BY <1>8 DEF Hear, Solo
<1>9. CASE UNCHANGED vars
  BY <1>3, <1>9 DEF vars
<1> QED BY <1>0, <1>3, <1>4, <1>5, <1>6, <1>7, <1>8, <1>9 DEF Next, Submit, Select, Broadcast, Loses,
          Mine, Dropped, Index, Age, Outside

(* What is owed was owed before the step, unless it was not yet sent.        *)
LEMMA OwedBefore ==
  ASSUME FlightInv, [Next]_vars, NEW p \in Payment, Owed(p)'
  PROVE  Owed(p) \/ pay[p].at \in Early
<1>0. FlightShape /\ SameBackend /\ (Prompt' <=> Prompt) /\ Limits' = Limits /\ scene.payments \subseteq Payment
  BY SceneStep DEF FlightInv, FlightShape, Scene
<1>1. Live(p)' => (Live(p) \/ pay[p].at \in Early) /\ (chain[p] = "mined" => chain'[p] = "mined")
  <2>1. CASE UNCHANGED chain
    BY <2>1 DEF Live
  <2>2. ASSUME NEW q \in Payment, Broadcast(q)
        PROVE  Live(p)' => (Live(p) \/ pay[p].at \in Early) /\ (chain[p] = "mined" => chain'[p] = "mined")
    <3>1. pay[q].at = "broadcast" /\ chain[q] = "none"
      BY <2>2 DEF Broadcast, At, FlightInv, Unsent, Early
    <3> QED BY <2>2, <3>1 DEF Broadcast, Live, Early
  <2>3. ASSUME NEW q \in Payment, Mine(q) \/ Dropped(q)
        PROVE  Live(p)' => (Live(p) \/ pay[p].at \in Early) /\ (chain[p] = "mined" => chain'[p] = "mined")
    BY <1>0, <2>3 DEF Mine, Dropped, Live, FlightShape
  <2>4. CASE UNCHANGED vars
    BY <2>1, <2>4 DEF vars
  <2> QED BY <1>0, <2>1, <2>2, <2>3, <2>4 DEF Next, Submit, Select, Record, Loses, Outside,
            RefreshBalances, ReadHistory, ReadBalance, Reconcile, Hear, Index, Age
<1>2. age[p] <= age'[p]
  <2>1. age[p] \in Nat
    BY <1>0 DEF FlightShape
  <2>2. age' = age \/ \E q \in Payment : age' = [age EXCEPT ![q] = @ + 1]
    BY <1>0 DEF Next, vars, Submit, Select, Broadcast, Record, Loses, Mine, Dropped, Outside,
       RefreshBalances, ReadHistory, ReadBalance, Reconcile, Hear, Index, Age
  <2> QED BY <1>0, <2>1, <2>2 DEF FlightShape
<1>3. age[p] \in Nat /\ age'[p] \in Nat
  BY <1>0, ShapeStep DEF FlightShape
<1> QED BY <1>0, <1>1, <1>2, <1>3 DEF Owed, Young, SameBackend, Limits

(* Sends, the network and the backend, before the answer is in.              *)
LEMMA CoversNetwork ==
  ASSUME FlightInv, [Next]_vars, NEW w \in Window, Covers(w),
         UNCHANGED <<listed, age, list, refresh, shown, heard>>,
         \A q \in Payment : Live(q)' => Live(q) \/ pay[q].at \in Early
  PROVE  Covers(w)'
<1>0. /\ SameBackend /\ (Prompt' <=> Prompt) /\ heard[w] \subseteq Payment
      /\ \A q \in Payment : Owed(q)' => Owed(q) \/ pay[q].at \in Early
  BY SceneStep, OwedBefore DEF FlightInv, FlightShape
<1>1. \A q \in Payment : pay[q].at \in Early => listed[q] = "none" /\ age[q] = 0 /\ q \notin heard[w]
  BY DEF FlightInv, Unsent, Early
<1>2. \A r \in Refresh, q \in Payment :
        pay[q].at \in Early /\ refresh[r].history # None => refresh[r].history[q] = "none"
  BY DEF FlightInv, Answered, Told
<1>3. \A q \in heard[w] : Owed(q)' => Owed(q)
  BY <1>0, <1>1
<1>4. \A q \in Payment : Live(q)' /\ age[q] > 0 => Live(q)
  BY <1>1
<1>5. \A r \in Refresh, q \in Payment : Finds(r, q)' <=> Finds(r, q)
  BY DEF Finds
<1> QED BY <1>0, <1>1, <1>2, <1>3, <1>4, <1>5 DEF Covers, SameBackend

LEMMA CoversSends ==
  ASSUME FlightInv, [Next]_vars, NEW w \in Window, Covers(w), NEW p \in Payment,
         \/ \E v \in Window, way \in {"wizard", "tip"} : Submit(p, v, way)
         \/ Select(p) \/ Broadcast(p) \/ Loses(p) \/ Mine(p) \/ Dropped(p)
  PROVE  Covers(w)'
<1>1. UNCHANGED <<listed, age, list, refresh, shown, heard>>
  BY DEF Submit, Select, Broadcast, Loses, Mine, Dropped, Outside
<1>2. CASE UNCHANGED chain
  BY <1>1, <1>2, CoversNetwork DEF Live
<1>3. CASE Broadcast(p)
  <2>1. pay[p].at \in Early
    BY <1>3 DEF Broadcast, At, Early
  <2>2. \A q \in Payment \ {p} : Live(q)' => Live(q)
    BY <1>3 DEF Broadcast, Live
  <2> QED BY <1>1, <2>1, <2>2, CoversNetwork
<1>4. CASE Mine(p) \/ Dropped(p)
  <2>1. \A q \in Payment : Live(q)' => Live(q)
    BY <1>4 DEF Mine, Dropped, Live, FlightInv, FlightShape
  <2> QED BY <1>1, <2>1, CoversNetwork
<1> QED BY <1>2, <1>3, <1>4 DEF Submit, Select, Loses, Outside

(* What is owed a refresh lets go of only if its report lists it.            *)
LEMMA Keeps ==
  ASSUME FlightInv, Reported, NEW w \in Window, Covers(w),
         NEW r \in Refresh, refresh[r].by # None, ~refresh[r].awaits,
         NEW p \in list, Owed(p), refresh[r].report # None => refresh[r].report[p] = "none"
  PROVE  p \in ReconcileAfterBalanceRefresh(list, refresh[r].report, refresh[r].history)
<1>1. p \in Payment /\ Live(p) /\ age[p] \in Nat
  BY DEF FlightInv, FlightShape, Owed
<1>2. ~IsStale(p)
  BY <1>1 DEF Owed, Young, IsStale, Limits
<1>3. CASE scene.family = "utxo"
  <2>1. ASSUME refresh[r].history # None PROVE refresh[r].history[p] # "mined"
    <3>1. CASE refresh[r].report # None
      BY <1>1, <2>1, <3>1 DEF Covers
    <3>2. CASE refresh[r].report = None
      <4>1. scene.partial
        BY <3>2 DEF Covers
      <4>2. refresh[r].history[p] = "mined" => chain[p] = "mined"
        BY <1>1, <2>1 DEF Reported
      <4> QED BY <1>3, <4>1, <4>2 DEF Owed
    <3> QED BY <3>1, <3>2
  <2>2. ASSUME refresh[r].history # None, age[p] # 0 PROVE refresh[r].history[p] # "none"
    <3>1. Prompt
      BY <1>1, <2>2 DEF Owed, Young
    <3> QED BY <1>1, <2>2, <3>1 DEF Covers, Finds
  <2>3. refresh[r].history # None => refresh[r].history[p] \in {"none", "mempool", "mined"}
    BY <1>1 DEF Reported
  <2> QED BY <1>2, <1>3, <2>1, <2>2, <2>3 DEF ReconcileAfterBalanceRefresh, PendingOutgoingFor, ReconcileUtxo
<1>4. CASE scene.family # "utxo"
  <2>1. ASSUME refresh[r].report # None, pay[p].inputs \subseteq InputsOf(Listed(refresh[r].report)) PROVE FALSE
    <3>1. Told(refresh[r].report)
      BY <2>1 DEF FlightInv, Answered
    <3>2. pay[p].inputs # {}
      BY <1>1 DEF FlightInv, Unsent
    <3>3. PICK q \in Listed(refresh[r].report) : pay[q].inputs \cap pay[p].inputs # {}
      BY <2>1, <3>2 DEF InputsOf
    <3>4. q \in Payment /\ Live(q)
      BY <1>4, <3>1 DEF Listed, Told, FlightInv, NoReplacement
    <3>5. q = p
      BY <1>1, <1>4, <3>3, <3>4 DEF FlightInv, NoReplacement
    <3> QED BY <2>1, <3>3, <3>5 DEF Listed
  <2> QED BY <1>2, <1>4, <2>1 DEF ReconcileAfterBalanceRefresh, PendingOutgoingFor, ReconcileKeyImages
<1> QED BY <1>3, <1>4

(* The screen and the list cover what is owed between them.                  *)
LEMMA CoversStep ==
  ASSUME CoinAssumptions, FlightInv, InputInv, NEW w \in Window, scene.windows = {w}, Solo(w), Covers(w), [Next]_vars,
         Reported
  PROVE  Covers(w)'
<1>0. /\ FlightShape /\ FlightShape' /\ scene.payments \subseteq Payment /\ scene.windows \subseteq Window
      /\ scene'.partial = scene.partial /\ (Prompt' <=> Prompt) /\ heard[w] \subseteq Payment
  BY ShapeStep, SceneStep DEF FlightInv, FlightShape, Scene, SameBackend
<1>h. ASSUME heard'[w] \subseteq heard[w] \cup list
      PROVE  \A p \in heard'[w] : p \in Payment /\ (Owed(p)' => Owed(p))
  <2>1. heard'[w] \subseteq heard[w]
    BY <1>h DEF Solo, InputInv, KnowsWhatItHeard
  <2>2. \A p \in heard[w] : pay[p].at \notin Early
    BY <1>0 DEF FlightInv, Unsent, Early
  <2> QED BY <1>0, <2>1, <2>2, OwedBefore
<1>1. ASSUME NEW p \in Payment, Record(p) PROVE Covers(w)'
  <2>1. /\ UNCHANGED <<chain, listed, age, refresh, shown>> /\ list' = list \cup {p}
        /\ heard'[w] \subseteq heard[w] \cup list' /\ scene' = scene
    BY <1>0, <1>1 DEF Record, Updates, Outside, FlightShape
  <2>2. list \subseteq heard[w]
    BY DEF Solo, InputInv, KnowsWhatItHeard
  <2>3. \A q \in Payment : Owed(q)' <=> Owed(q)
    BY <2>1 DEF Owed, Young, Live, Prompt, Limits
  <2> QED BY <1>0, <2>1, <2>2, <2>3 DEF Covers, Live, Finds
<1>2. ASSUME NEW r \in Refresh, NEW v \in scene.windows, RefreshBalances(r, v) PROVE Covers(w)'
  <2>1. /\ UNCHANGED <<chain, listed, age, list, shown, heard>>
        /\ refresh'[r].report = None /\ refresh'[r].history = None /\ refresh'[r].awaits
        /\ \A s \in Refresh \ {r} : refresh'[s] = refresh[s]
    BY <1>0, <1>2 DEF RefreshBalances, FlightShape, Idle
  <2> QED BY <1>0, <1>h, <2>1 DEF Covers, Live, Finds
<1>3. ASSUME NEW r \in Refresh, ReadHistory(r) PROVE Covers(w)'
  <2>1. /\ UNCHANGED <<chain, listed, age, list, shown, heard>>
        /\ refresh[r].wants /\ refresh'[r].wants = FALSE /\ refresh'[r].report = refresh[r].report
        /\ refresh'[r].by = refresh[r].by /\ refresh'[r].awaits = refresh[r].awaits
        /\ refresh'[r].history \in {refresh[r].history, listed}
        /\ \A s \in Refresh \ {r} : refresh'[s] = refresh[s]
    BY <1>0, <1>3 DEF ReadHistory, FlightShape, IsRefresh
  <2>2. Prompt => \A p \in Payment : Live(p) /\ age[p] > 0 => listed[p] # "none"
    BY DEF FlightInv, OldIsListed
  <2>3. Prompt => \A s \in Refresh, p \in Payment : Live(p) /\ age[p] > 0 => Finds(s, p)'
    BY <2>1, <2>2 DEF Covers, Finds
  <2>4. \A p \in heard'[w] : Owed(p)' /\ shown'[w][p] = "none" => p \in list'
    BY <1>h, <2>1 DEF Covers
  <2> QED BY <1>0, <2>1, <2>3, <2>4 DEF Covers, Live
<1>4. ASSUME NEW r \in Refresh, ReadBalance(r) PROVE Covers(w)'
  <2>1. /\ UNCHANGED <<scene, chain, listed, age, list, heard>> /\ refresh[r].by = w
        /\ refresh'[r].wants = refresh[r].wants /\ refresh'[r].history = refresh[r].history
        /\ \/ refresh'[r].report = listed /\ shown'[w] = listed
           \/ scene.partial /\ refresh'[r].report = refresh[r].report /\ shown' = shown
        /\ \A s \in Refresh \ {r} : refresh'[s] = refresh[s]
    <3>1. /\ refresh[r].by = w /\ IsRefresh(refresh[r]) /\ refresh = [s \in Refresh |-> refresh[s]]
          /\ shown = [v \in Window |-> shown[v]]
      BY <1>0, <1>4 DEF ReadBalance, FlightShape, Solo, Reported
    <3>2. /\ UNCHANGED <<scene, chain, listed, age, list, heard>>
          /\ \/ /\ refresh' = [refresh EXCEPT ![r].awaits = FALSE, ![r].report = listed]
                /\ shown' = [shown EXCEPT ![w] = listed]
             \/ /\ scene.partial /\ shown' = shown
                /\ refresh' = [refresh EXCEPT ![r].awaits = FALSE]
      BY <1>4, <3>1 DEF ReadBalance
    <3>3. CASE /\ refresh' = [refresh EXCEPT ![r].awaits = FALSE, ![r].report = listed]
               /\ shown' = [shown EXCEPT ![w] = listed]
      <4>1. refresh'[r] = [refresh[r] EXCEPT !.awaits = FALSE, !.report = listed]
        BY <3>1, <3>3
      <4> QED BY <3>1, <3>2, <3>3, <4>1 DEF IsRefresh
    <3>4. CASE /\ scene.partial /\ shown' = shown
               /\ refresh' = [refresh EXCEPT ![r].awaits = FALSE]
      <4>1. refresh'[r] = [refresh[r] EXCEPT !.awaits = FALSE]
        BY <3>1, <3>4
      <4> QED BY <3>1, <3>2, <3>4, <4>1 DEF IsRefresh
    <3> QED BY <3>2, <3>3, <3>4
  <2>2. \A s \in Refresh \ {r} : refresh[s].report = None
    BY <1>4, <2>1 DEF Solo, Idle, ReadBalance
  <2>3. \A p \in heard[w] : Owed(p) /\ listed[p] = "none" => p \in list
    <3>1. \A p \in heard[w] : pay[p].at = "recorded" /\ age[p] \in Nat
      BY <1>0 DEF FlightInv, Unsent, FlightShape
    <3>2. \A p \in heard[w] : Owed(p) => Live(p) /\ (age[p] = 0 \/ Prompt)
      BY <3>1 DEF Owed, Young
    <3> QED BY <1>0, <3>1, <3>2 DEF FlightInv, InFlightIsCovered
  <2>4. \A p \in Payment :
          Live(p) /\ listed[p] = "none" /\ refresh[r].history # None => refresh[r].history[p] # "mined"
    BY DEF FlightInv, Answered, Told
  <2>5. /\ \A p \in Payment : Live(p)' <=> Live(p)
        /\ \A s \in Refresh, p \in Payment : Finds(s, p)' <=> Finds(s, p)
        /\ \A p \in Payment : Owed(p)' <=> Owed(p)
    BY <2>1 DEF Live, Finds, Owed, Young, Prompt, Limits
  <2>6. CASE refresh'[r].report = listed /\ shown'[w] = listed
    <3>1. listed # None /\ (Prompt' <=> Prompt) /\ heard'[w] = heard[w]
      BY <1>0, <2>1 DEF CoinAssumptions, FlightShape
    <3>2. \A p \in heard'[w] : Owed(p)' /\ shown'[w][p] = "none" => p \in list'
      BY <1>0, <2>1, <2>3, <2>5, <2>6, <3>1
    <3>3. /\ refresh'[r].by # None /\ ~refresh'[r].awaits /\ ~scene'.partial => refresh'[r].report # None
          /\ Prompt' => \A p \in Payment : Live(p)' /\ age'[p] > 0 => Finds(r, p)'
          /\ shown'[w] = refresh'[r].report
          /\ \A p \in Payment :
               Live(p)' /\ refresh'[r].report[p] = "none" =>
                 /\ refresh'[r].history # None => refresh'[r].history[p] # "mined"
                 /\ refresh'[r].wants => listed'[p] # "mined"
      BY <1>0, <2>1, <2>4, <2>5, <2>6, <3>1 DEF Covers
    <3>4. ASSUME NEW s \in Refresh \ {r}
          PROVE  /\ refresh'[s] = refresh[s] /\ refresh'[s].report = None
                 /\ refresh'[s].by # None /\ ~refresh'[s].awaits /\ ~scene'.partial => refresh'[s].report # None
                 /\ Prompt' => \A p \in Payment : Live(p)' /\ age'[p] > 0 => Finds(s, p)'
      BY <1>0, <2>1, <2>2, <2>5 DEF Covers
    <3> QED BY <3>2, <3>3, <3>4 DEF Covers
  <2>7. CASE scene.partial /\ refresh'[r].report = refresh[r].report /\ shown' = shown
    BY <1>0, <2>1, <2>5, <2>7 DEF Covers
  <2> QED BY <2>1, <2>6, <2>7
<1>5. ASSUME NEW r \in Refresh, Reconcile(r) PROVE Covers(w)'
  <2>1. /\ UNCHANGED <<scene, pay, chain, listed, age>> /\ refresh[r].by = w /\ w # None
        /\ ~refresh[r].wants /\ ~refresh[r].awaits
        /\ list' = ReconcileAfterBalanceRefresh(list, refresh[r].report, refresh[r].history)
        /\ heard'[w] = heard[w] \cup list'
        /\ shown'[w] = shown[w]
        /\ refresh'[r] = Idle /\ \A s \in Refresh \ {r} : refresh'[s] = refresh[s]
    <3>1. refresh[r].by = w /\ w # None
      BY <1>5 DEF Reconcile, Solo
    <3>2. refresh[r].report # None => shown[w] = refresh[r].report
      BY DEF Covers
    <3>3. shown'[w] = shown[w]
      BY <1>5, <3>1, <3>2 DEF Reconcile, Reported
    <3> QED BY <1>0, <1>5, <3>1, <3>3 DEF Reconcile, Updates, FlightShape
  <2>2. list' \subseteq list /\ list \subseteq heard[w] /\ heard'[w] = heard[w]
    <3>1. list' \subseteq list
      BY <2>1 DEF ReconcileAfterBalanceRefresh, PendingOutgoingFor, ReconcileUtxo, ReconcileKeyImages
    <3> QED BY <2>1, <3>1 DEF Solo, InputInv, KnowsWhatItHeard
  <2>3. ASSUME NEW p \in heard[w], Owed(p), shown[w][p] = "none" PROVE p \in list'
    <3>1. p \in list /\ (refresh[r].report # None => refresh[r].report[p] = "none")
      BY <2>3 DEF Covers
    <3> QED BY <2>1, <2>3, <3>1, Keeps
  <2>4. /\ \A p \in Payment : Live(p)' <=> Live(p)
        /\ \A s \in Refresh \ {r}, p \in Payment : Finds(s, p)' <=> Finds(s, p)
        /\ \A p \in Payment : Owed(p)' <=> Owed(p)
        /\ \A p \in Payment : Finds(r, p)'
    BY <2>1 DEF Live, Finds, Owed, Young, Prompt, Limits, Idle
  <2>5. refresh'[r].by = None /\ refresh'[r].report = None
    BY <2>1 DEF Idle
  <2>6. /\ \A p \in heard'[w] : Owed(p)' /\ shown'[w][p] = "none" => p \in list'
        /\ Prompt' => \A s \in Refresh, p \in Payment : Live(p)' /\ age'[p] > 0 => Finds(s, p)'
    BY <1>0, <2>1, <2>2, <2>3, <2>4 DEF Covers
  <2>7. \A s \in Refresh \ {r} : refresh[s].report = None /\ refresh[s].by = None
    BY <2>1 DEF Solo, Idle
  <2> QED BY <2>1, <2>5, <2>6, <2>7 DEF Covers
<1>6. ASSUME NEW v \in scene.windows, Hear(v) PROVE Covers(w)'
  BY <1>6 DEF Hear, Solo
<1>7. CASE Index
  <2>1. /\ UNCHANGED <<scene, chain, age, list, refresh, shown, heard>>
        /\ \A r \in Refresh : refresh[r].report # None /\ refresh[r].wants =>
             \A p \in Mined(chain) : refresh[r].report[p] # "none"
        /\ \A p \in Payment : listed'[p] = "mined" => p \in Mined(chain)
    BY <1>7 DEF Index, Reports, Mined
  <2>2. /\ \A p \in Payment : Live(p)' <=> Live(p)
        /\ \A s \in Refresh, p \in Payment : Finds(s, p)' <=> Finds(s, p)
        /\ \A p \in Payment : Owed(p)' <=> Owed(p)
    BY <2>1 DEF Live, Finds, Owed, Young, Prompt, Limits
  <2> QED BY <1>0, <2>1, <2>2 DEF Covers
<1>8. ASSUME NEW p \in Payment, Age(p) PROVE Covers(w)'
  <2>1. /\ UNCHANGED <<chain, listed, list, refresh, shown, heard>>
        /\ Prompt /\ Live(p) => \A r \in Refresh : Finds(r, p)
        /\ \A q \in Payment \ {p} : age'[q] = age[q]
    BY <1>0, <1>8 DEF Age, FlightShape
  <2>2. \A q \in heard'[w] : Owed(q)' /\ shown'[w][q] = "none" => q \in list'
    BY <1>h, <2>1 DEF Covers
  <2>3. Prompt => \A s \in Refresh, q \in Payment : Live(q) /\ age'[q] > 0 => Finds(s, q)'
    BY <2>1 DEF Covers, Finds
  <2> QED BY <1>0, <2>1, <2>2, <2>3 DEF Covers, Live
<1>9. CASE UNCHANGED vars
  BY <1>9, CoversNetwork DEF vars, Live
<1> QED BY <1>0, <1>1, <1>2, <1>3, <1>4, <1>5, <1>6, <1>7, <1>8, <1>9, CoversSends DEF Next

(* What payments take is no less than what all of their inputs are worth ... *)
LEMMA TakesAll ==
  ASSUME CoinAssumptions, Priced, NEW K, K \subseteq Payment
  PROVE  /\ Natural(Takes, K) /\ InputsOf(K) \subseteq Coin \cup Payment
         /\ Sum(InputsOf(K)) <= Total(Takes, K)
<1> DEFINE in == [p \in Payment |-> pay[p].inputs]
<1>1. IsFiniteSet(K)
  BY FS_Subset DEF CoinAssumptions
<1>2. \A p \in K : Takes[p] = Total(Worths, in[p]) /\ Takes[p] \in Nat
  <2>1. ASSUME NEW p \in K PROVE Takes[p] = Total(Worths, in[p]) /\ Takes[p] \in Nat
    <3>1. p \in Payment /\ pay[p].inputs \subseteq Coin \cup Payment
      BY <2>1 DEF Priced
    <3> QED BY <3>1, SumNat DEF Takes, Sum
  <2> QED BY <2>1
<1>3. UNION {in[p] : p \in K} = InputsOf(K)
  BY DEF InputsOf
<1>4. InputsOf(K) \subseteq Coin \cup Payment
  BY DEF InputsOf, Priced
<1>5. Natural(Worths, UNION {in[p] : p \in K})
  BY <1>3, <1>4, Amounts, NaturalWithin
<1> HIDE DEF in
<1>6. Total(Worths, UNION {in[p] : p \in K}) <= Total(Takes, K)
  BY <1>1, <1>2, <1>5, TotalOfParts
<1> QED BY <1>1, <1>2, <1>3, <1>4, <1>6 DEF Natural, Sum

(* ... and what they spend no less than that without their change.           *)
LEMMA SpendsAll ==
  ASSUME CoinAssumptions, Priced, NEW K, K \subseteq Payment
  PROVE  Natural(Spends, K) /\ Sum(InputsOf(K)) <= Total(Spends, K) + Sum(K)
<1>1. Natural(Takes, K) /\ Sum(InputsOf(K)) <= Total(Takes, K) /\ InputsOf(K) \subseteq Coin \cup Payment
  BY TakesAll
<1>2. Natural(Worths, K)
  BY Amounts, NaturalWithin
<1>3. \A p \in K : Spends[p] \in Nat /\ Takes[p] = Spends[p] + Worths[p]
  <2>1. ASSUME NEW p \in K PROVE Spends[p] \in Nat /\ Takes[p] = Spends[p] + Worths[p]
    <3>1. p \in Payment /\ p \notin Coin
      BY <2>1 DEF CoinAssumptions
    <3>2. /\ pay[p].inputs \subseteq Coin \cup Payment
          /\ pay[p].change \in Nat /\ pay[p].change <= Sum(pay[p].inputs)
      BY <3>1 DEF Priced
    <3>3. Sum(pay[p].inputs) \in Nat
      BY <3>2, SumNat
    <3>4. Worths[p] = pay[p].change
      BY <3>1 DEF Worths
    <3>5. Takes[p] = Sum(pay[p].inputs) /\ Spends[p] = Sum(pay[p].inputs) - pay[p].change
      BY <3>1 DEF Takes, Spends
    <3> QED BY <3>2, <3>3, <3>4, <3>5
  <2> QED BY <2>1
<1>4. Natural(Spends, K)
  BY <1>1, <1>3 DEF Natural
<1>5. Total(Takes, K) = Total(Spends, K) + Total(Worths, K)
  BY <1>2, <1>3, <1>4, TotalPlus
<1> QED BY <1>1, <1>4, <1>5 DEF Sum

(* What the window owes is on its screen, or deducted.                       *)
LEMMA KnownOrShown ==
  ASSUME FlightInv, NEW w \in Window, Solo(w), Covers(w)
  PROVE  {p \in heard[w] : Owed(p)} \subseteq Listed(shown[w]) \cup Known(w)
<1>1. ASSUME NEW p \in heard[w], Owed(p), p \notin Listed(shown[w]) PROVE p \in Known(w)
  <2>1. p \in Payment /\ shown[w][p] = "none" /\ age[p] \in Nat
    BY <1>1 DEF Listed, FlightInv, FlightShape
  <2>2. p \in known[w]
    BY <1>1, <2>1 DEF Covers, Solo
  <2>3. ~IsStale(p)
    BY <1>1, <2>1 DEF Owed, Young, IsStale, Limits
  <2> QED BY <2>2, <2>3 DEF Known, PendingOutgoingFor
<1> QED BY <1>1

(* BTC and LTC: the larger deduction covers what the one with the longer     *)
(* story has spent.                                                          *)
LEMMA UtxoDeducted ==
  ASSUME CoinAssumptions, FlightInv, InputInv, Reported, Priced, NEW w \in Window, Solo(w), Covers(w),
         scene.family = "utxo", OneStory(w)
  PROVE  Available(w) <= Sum((Coin \cup Listed(shown[w]) \cup heard[w])
                               \ InputsOf(Listed(shown[w]) \cup {p \in heard[w] : Owed(p)}))
<1> DEFINE L == Listed(shown[w])
           M == Mined(shown[w])
           K == PendingOutgoingFor(known[w])
           H == {p \in heard[w] : Owed(p)}
           R == (Coin \cup L \cup heard[w]) \ InputsOf(L \cup H)
           A == (Coin \cup M) \ InputsOf(M)
           B == (Coin \cup L) \ InputsOf(L)
           d == UtxoAvailableDeduction(known[w], shown[w])
<1>1. /\ K \subseteq heard[w] /\ heard[w] \subseteq Payment /\ M \subseteq L /\ L \subseteq Payment
  BY DEF FlightInv, FlightShape, InputInv, KnowsWhatItHeard, PendingOutgoingFor, Listed, Mined
<1>2. H \subseteq L \cup K
  BY KnownOrShown DEF Known
<1>3. Natural(Worths, Coin \cup Payment)
  BY Amounts
<1>4. Sum(A) \in Nat /\ Sum(B) \in Nat /\ Sum(R) \in Nat
  <2>1. A \subseteq Coin \cup Payment /\ B \subseteq Coin \cup Payment /\ R \subseteq Coin \cup Payment
    BY <1>1
  <2> HIDE DEF A, B, R
  <2> QED BY <2>1, SumNat
<1>5. Natural(Spends, K)
  <2>1. K \subseteq Payment
    BY <1>1
  <2> HIDE DEF K
  <2> QED BY <2>1, SpendsAll
<1>6. Total(Spends, K) \in Nat
  BY <1>5, TotalNat
<1>7. d \in Int /\ d >= Total(Spends, K) /\ d >= Sum(A) - Sum(B) 
  <2>1. d = Larger(Total(Spends, K), Sum(A) - Sum(B))
    BY DEF UtxoAvailableDeduction, PendingOutgoingTotalWithFee, MempoolDebit, Confirmed
  <2> HIDE DEF d, K, A, B
  <2> QED BY <1>4, <1>6, <2>1 DEF Larger
<1>8. Available(w) = IF Sum(A) > d THEN Sum(A) - d ELSE 0
  BY DEF Available, AvailableDeduction, Confirmed
<1>9. Sum(A) <= Sum(R) + d
  <2>1. CASE K \subseteq L
    <3>1. B \subseteq R
      BY <1>2, <2>1 DEF InputsOf
    <3>2. Natural(Worths, R)
      <4>1. R \subseteq Coin \cup Payment
        BY <1>1
      <4> HIDE DEF R
      <4> QED BY <1>3, <4>1, NaturalWithin
    <3>3. Sum(B) <= Sum(R)
      <4> HIDE DEF B, R
      <4> QED BY <3>1, <3>2, TotalWithin DEF Sum
    <3> HIDE DEF A, B, R, d
    <3> QED BY <1>4, <1>7, <3>3
  <2>2. CASE L \ M \subseteq K
    <3> DEFINE N == K \ M
               I == InputsOf(N)
    <3>1. N \subseteq K /\ N \subseteq Payment /\ I \subseteq Coin \cup Payment
      <4>1. N \subseteq K /\ N \subseteq Payment
        BY <1>1
      <4> HIDE DEF N
      <4> QED BY <4>1, TakesAll
    <3>2. /\ Sum(I) <= Total(Spends, N) + Sum(N)
          /\ Total(Spends, N) <= Total(Spends, K) /\ Total(Spends, N) \in Nat
      <4> HIDE DEF N, K
      <4> QED BY <1>5, <3>1, SpendsAll, TotalWithin, TotalNat
    <3>3. A \cap N = {} /\ A \cup N \subseteq Coin \cup Payment
      BY <1>1 DEF CoinAssumptions
    <3>4. A \cup N \subseteq R \cup I
      <4>1. InputsOf(L \cup H) \subseteq InputsOf(M) \cup I
        BY <1>2, <2>2 DEF InputsOf
      <4>2. N \cap InputsOf(M) = {}
        BY <1>1 DEF Reported, Ordered, InputsOf, Mined
      <4> HIDE DEF I
      <4> QED BY <1>1, <4>1, <4>2
    <3>5. Sum(A \cup N) = Sum(A) + Sum(N)
      <4> HIDE DEF A, N
      <4>1. Natural(Worths, A \cup N)
        BY <1>3, <3>3, NaturalWithin
      <4> QED BY <3>3, <4>1, TotalApart DEF Sum
    <3>6. Sum(A \cup N) <= Sum(R) + Sum(I)
      <4>1. R \cup I \subseteq Coin \cup Payment
        BY <1>1, <3>1
      <4> HIDE DEF A, N, R, I
      <4>2. Natural(Worths, R \cup I)
        BY <1>3, <4>1, NaturalWithin
      <4> QED BY <3>4, <4>2, TotalBelow DEF Sum
    <3>7. Sum(N) \in Nat /\ Sum(I) \in Nat
      <4> HIDE DEF N, I
      <4> QED BY <3>1, SumNat
    <3> HIDE DEF A, B, R, N, I, K, d
    <3> QED BY <1>4, <1>6, <1>7, <3>2, <3>5, <3>6, <3>7
  <2> QED BY <2>1, <2>2 DEF OneStory, Known
<1>10. Available(w) <= Sum(R)
  <2> HIDE DEF A, R, d
  <2> QED BY <1>4, <1>7, <1>8, <1>9
<1> QED BY <1>10

(* XMR and WOW: what is not locked is short of what the list has spent.      *)
LEMMA CryptonoteDeducted ==
  ASSUME CoinAssumptions, FlightInv, InputInv, Reported, Priced, NEW w \in Window, Solo(w), Covers(w),
         scene.family # "utxo", OneStory(w)
  PROVE  Available(w) <= Sum((Coin \cup Mined(shown[w]))
                               \ InputsOf(Listed(shown[w]) \cup {p \in heard[w] : Owed(p)}))
<1> DEFINE L == Listed(shown[w])
           M == Mined(shown[w])
           K == PendingOutgoingFor(known[w])
           H == {p \in heard[w] : Owed(p)}
           R == (Coin \cup M) \ InputsOf(L \cup H)
           U == Unspent(shown[w])
           I == InputsOf(K)
           d == Total(Takes, K)
<1>1. /\ K \subseteq heard[w] /\ heard[w] \subseteq Payment /\ M \subseteq L /\ L \subseteq Payment
  BY DEF FlightInv, FlightShape, InputInv, KnowsWhatItHeard, PendingOutgoingFor, Listed, Mined
<1>2. H \subseteq L \cup K
  BY KnownOrShown DEF Known
<1>3. Natural(Takes, K) /\ I \subseteq Coin \cup Payment /\ Sum(I) <= d
  <2>1. K \subseteq Payment
    BY <1>1
  <2> HIDE DEF K
  <2> QED BY <2>1, TakesAll
<1>4. U \subseteq R \cup I /\ R \cup I \subseteq Coin \cup Payment /\ U \subseteq Coin \cup Payment
  <2>1. U \subseteq (Coin \cup M) \ InputsOf(L)
    BY DEF Unspent
  <2>2. InputsOf(L \cup H) \subseteq InputsOf(L) \cup I
    BY <1>2 DEF InputsOf
  <2> HIDE DEF U, I
  <2> QED BY <1>1, <1>3, <2>1, <2>2
<1>5. Available(w) = IF Sum(U) > d THEN Sum(U) - d ELSE 0
  BY DEF Available, AvailableDeduction, InFlightInputsTotal, Confirmed, OneStory
<1> HIDE DEF U, R, I, K
<1>6. Sum(U) \in Nat /\ Sum(R) \in Nat /\ Sum(I) \in Nat /\ d \in Nat
  BY <1>3, <1>4, SumNat, TotalNat
<1>7. Natural(Worths, R \cup I)
  BY <1>4, Amounts, NaturalWithin
<1>8. Sum(U) <= Sum(R) + Sum(I)
  BY <1>4, <1>7, TotalBelow DEF Sum
<1>9. Available(w) <= Sum(R)
  <2> HIDE DEF d
  <2> QED BY <1>3, <1>5, <1>6, <1>8
<1> QED BY <1>9 DEF R

(* The inductive invariant.                                                  *)
SoloInv ==
  /\ Reported /\ Priced
  /\ \A w \in Window : scene.windows = {w} => Solo(w) /\ Covers(w)

(* It holds at the start.                                                    *)
LEMMA SoloStart ==
  ASSUME FlightAssumptions, CoinAssumptions, Init
  PROVE  SoloInv
<1>1. Reported
  BY DEF Init, Reported, Ordered, Idle
<1>2. Priced
  <2>1. \A p \in Payment : pay[p] = Nothing
    BY DEF Init
  <2>2. Sum({}) = 0
    BY TotalNothing DEF Sum
  <2> QED BY <2>1, <2>2 DEF Priced, Nothing
<1>3. ASSUME NEW w \in Window PROVE Solo(w) /\ Covers(w)
  BY DEF Init, Solo, Covers, Idle, Nothing
<1> QED BY <1>1, <1>2, <1>3 DEF SoloInv

(* No step breaks it.                                                        *)
LEMMA SoloNext ==
  ASSUME CoinAssumptions, ~Overlap, FlightInv, InputInv, SoloInv, [Next]_vars
  PROVE  SoloInv'
<1>1. Reported' /\ Priced'
  BY ReportedStep, PricedStep DEF SoloInv
<1>2. scene'.windows = scene.windows
  BY SceneStep DEF FlightInv
<1>3. ASSUME NEW w \in Window, scene.windows = {w} PROVE Solo(w)' /\ Covers(w)'
  BY <1>3, SoloStep, CoversStep DEF SoloInv
<1> QED BY <1>1, <1>2, <1>3 DEF SoloInv

(* SentIsDeducted: a window that refreshes one balance at a time does not show *)
(* as available what it has sent, whichever reads of the history fail, until   *)
(* the entry is let go for its age; where the balance itself may fail to be    *)
(* read, for BTC and LTC until the payment is mined.                           *)
THEOREM DeductedWhenSent ==
  ASSUME FlightAssumptions, CoinAssumptions, ~Overlap
  PROVE  FundsSpec => []SentIsDeducted
<1>1. FundsSpec => [](FlightInv /\ InputInv)
  BY FlightsHold
<1>2. FundsInit => SoloInv
  BY SoloStart DEF FundsInit
<1>3. FlightInv /\ InputInv /\ SoloInv /\ [FundsNext]_<<part, vars, tips, sends>> => SoloInv'
  <2>1. [FundsNext]_<<part, vars, tips, sends>> => [Next]_vars
    BY DEF FundsNext
  <2> QED BY <2>1, SoloNext
<1>4. FlightInv /\ InputInv /\ SoloInv => SentIsDeducted
  <2> SUFFICES ASSUME FlightInv, InputInv, SoloInv, NEW w \in Window, scene.windows = {w}, OneStory(w)
               PROVE  Available(w) <= Sum((Coin \cup IF scene.family = "utxo"
                                                     THEN Listed(shown[w]) \cup heard[w]
                                                     ELSE Mined(shown[w]))
                                           \ InputsOf(Listed(shown[w]) \cup {p \in heard[w] : Owed(p)}))
    BY DEF SentIsDeducted
  <2>1. Reported /\ Priced /\ Solo(w) /\ Covers(w)
    BY DEF SoloInv
  <2>2. CASE scene.family = "utxo"
    <3>1. Coin \cup (Listed(shown[w]) \cup heard[w]) = Coin \cup Listed(shown[w]) \cup heard[w]
      OBVIOUS
    <3> QED BY <2>1, <2>2, <3>1, UtxoDeducted
  <2>3. CASE scene.family # "utxo"
    BY <2>1, <2>3, CryptonoteDeducted
  <2> QED BY <2>2, <2>3
<1> QED BY <1>1, <1>2, <1>3, <1>4, PTL DEF FundsSpec

--------------------------------------------------------------------------------
(* Tips.                                                                       *)

(* No wallet is nobody, and the attempts are a number.                      *)
TipAssumptions == None \notin Claimer \cup {"sender"} /\ MaxTries \in Nat

TipJob == [at : {"idle", "backup", "fund", "cancel", "attach", "annotate", "note", "discard",
              "sweep", "mark", "remove"},
        row : Tip!Status, kept : BOOLEAN, left : Nat]

TipShape ==
  /\ win \in [Window -> TipJob]
  /\ claim \in [Claimer -> {"idle", "prove", "sweep", "report"}]
  /\ status \in Tip!Status
  /\ backup \in BOOLEAN /\ funded \in BOOLEAN
  /\ told \subseteq Claimer \cup {"sender"}

(* A window that marks the tip, or removes its backup, had its sweep        *)
(* accepted.                                                                *)
SweptBack == \A w \in Window : win[w].at \in {"mark", "remove"} => spentBy = "sender"

(* And so had a claimer who reports.                                        *)
SweptFor == \A c \in Claimer : claim[c] = "report" => spentBy = c

(* Before the coins are sent their key is in storage, or could not be put   *)
(* there, and it stays there until they are spent or the row is discarded.  *)
BackedUp ==
  funded \/ (\E w \in Window : win[w].at = "fund") =>
    backup \/ lacking \/ discarded \/ spentBy # None

TipInv ==
  TipShape /\ SweptBack /\ SweptFor /\ Tip!SuccessIsPaid /\ Tip!ClawedBackIsReturned /\ BackedUp

(* Tips begin with nobody told of anything.                                  *)
LEMMA TipStart == Tip!Init => TipInv
<1> SUFFICES ASSUME Tip!Init PROVE TipInv
  OBVIOUS
<1>1. Tip!Idle \in TipJob
  BY DEF Tip!Idle, TipJob, Tip!Status
<1>2. TipShape
  BY <1>1 DEF Tip!Init, TipShape, Tip!Status
<1>3. SweptBack /\ SweptFor
  BY DEF Tip!Init, SweptBack, SweptFor, Tip!Idle
<1>4. Tip!SuccessIsPaid /\ Tip!ClawedBackIsReturned
  BY DEF Tip!Init, Tip!SuccessIsPaid, Tip!ClawedBackIsReturned
<1>5. BackedUp
  BY DEF Tip!Init, BackedUp, Tip!Idle
<1>6. QED
  BY <1>2, <1>3, <1>4, <1>5 DEF TipInv

(* A window goes on to another step, and no other does.                      *)
LEMMA TipGoes ==
  ASSUME TipShape, NEW w \in Window,
         NEW step \in {"backup", "fund", "cancel", "attach", "annotate", "note", "discard",
                      "sweep", "mark", "remove"},
         Tip!Goto(w, step)
  PROVE  /\ win' \in [Window -> TipJob]
         /\ \A v \in Window : win'[v].at = IF v = w THEN step ELSE win[v].at
<1>1. win' = [win EXCEPT ![w] = [win[w] EXCEPT !.at = step]] /\ win[w] \in TipJob
  BY DEF Tip!Goto, TipShape
<1>2. [win[w] EXCEPT !.at = step] \in TipJob /\ [win[w] EXCEPT !.at = step].at = step
  BY <1>1 DEF TipJob
<1>3. QED
  BY <1>1, <1>2 DEF TipShape

(* A window is done, and no other is.                                        *)
LEMMA TipEnds ==
  ASSUME TipShape, NEW w \in Window, Tip!Ends(w)
  PROVE  /\ win' \in [Window -> TipJob]
         /\ \A v \in Window : win'[v].at = IF v = w THEN "idle" ELSE win[v].at
<1>1. Tip!Idle \in TipJob /\ Tip!Idle.at = "idle"
  BY DEF Tip!Idle, TipJob, Tip!Status
<1>2. QED
  BY <1>1 DEF Tip!Ends, TipShape

(* What most steps do to what the invariant speaks of: nothing, or what     *)
(* makes it weaker.                                                         *)
Harmless ==
  /\ UNCHANGED <<spentBy, told, discarded, lacking>>
  /\ backup' \in BOOLEAN /\ (backup => backup')
  /\ funded' \in BOOLEAN /\ (funded' => funded \/ \E w \in Window : win[w].at = "fund")
  /\ status' \in Tip!Status /\ (status' = "clawed_back" => status = "clawed_back")
  /\ win' \in [Window -> TipJob]
  /\ \A w \in Window : win'[w].at \in {"fund", "mark", "remove"} => win'[w].at = win[w].at
  /\ claim' \in [Claimer -> {"idle", "prove", "sweep", "report"}]
  /\ \A c \in Claimer : claim'[c] = "report" => spentBy = c

(* Such a step keeps the invariant.                                          *)
LEMMA HarmlessStep == TipInv /\ Harmless => TipInv'
<1> SUFFICES ASSUME TipInv, Harmless PROVE TipInv'
  OBVIOUS
<1>1. TipShape' /\ SweptFor'
  BY DEF TipInv, Harmless, TipShape, SweptFor
<1>2. SweptBack'
  BY DEF TipInv, Harmless, SweptBack
<1>3. Tip!SuccessIsPaid' /\ Tip!ClawedBackIsReturned'
  BY DEF TipInv, Harmless, Tip!SuccessIsPaid, Tip!ClawedBackIsReturned
<1>4. BackedUp'
  BY DEF TipInv, Harmless, BackedUp
<1>5. QED
  BY <1>1, <1>2, <1>3, <1>4 DEF TipInv

(* The sender's steps that are so.                                          *)
LEMMA SenderHarmless ==
  ASSUME TipInv, TipAssumptions, NEW w \in Window,
         \/ Tip!CreateDraft(w) \/ Tip!Fund(w) \/ Tip!CancelUnfunded(w) \/ Tip!AttachFunding(w) \/ Tip!AttachUnsent(w)
         \/ Tip!AttachFailed(w) \/ Tip!ReadForNote(w) \/ Tip!WriteNote(w) \/ Tip!Load(w) \/ Tip!Discard(w)
         \/ Tip!Clawback(w) \/ Tip!Close(w)
  PROVE  Harmless
<1>1. /\ win \in [Window -> TipJob] /\ win[w] \in TipJob
      /\ claim \in [Claimer -> {"idle", "prove", "sweep", "report"}]
      /\ status \in Tip!Status /\ backup \in BOOLEAN /\ funded \in BOOLEAN
      /\ \A c \in Claimer : claim[c] = "report" => spentBy = c
  BY DEF TipInv, TipShape, SweptFor
<1>2. UNCHANGED <<spentBy, claim, told, discarded, lacking>>
  BY DEF Tip!CreateDraft, Tip!Fund, Tip!CancelUnfunded, Tip!AttachFunding,
         Tip!AttachUnsent, Tip!AttachFailed, Tip!ReadForNote,
         Tip!WriteNote, Tip!Load, Tip!Discard, Tip!Clawback, Tip!Close,
         Tip!network, Tip!backend, Tip!history
<1>3. backup' \in BOOLEAN /\ (backup => backup')
  BY <1>1 DEF Tip!CreateDraft, Tip!Fund, Tip!CancelUnfunded, Tip!AttachFunding,
              Tip!AttachUnsent, Tip!AttachFailed, Tip!ReadForNote,
         Tip!WriteNote, Tip!Load, Tip!Discard, Tip!Clawback, Tip!Close
<1>4. funded' \in BOOLEAN /\ (funded' => funded \/ \E v \in Window : win[v].at = "fund")
  <2>1. CASE Tip!Fund(w)
    <3>1. win[w].at = "fund" /\ (funded' = TRUE \/ funded' = funded)
      BY <2>1 DEF Tip!Fund
    <3>2. QED
      BY <1>1, <3>1
  <2>2. CASE ~Tip!Fund(w)
    <3>1. UNCHANGED funded
      BY <2>2 DEF Tip!CreateDraft, Tip!CancelUnfunded, Tip!AttachFunding,
                  Tip!AttachUnsent, Tip!AttachFailed, Tip!ReadForNote,
         Tip!WriteNote, Tip!Load, Tip!Discard, Tip!Clawback, Tip!Close,
         Tip!network
    <3>2. QED
      BY <1>1, <3>1
  <2>3. QED
    BY <2>1, <2>2
<1>5. status' \in Tip!Status /\ (status' = "clawed_back" => status = "clawed_back")
  <2>1. \/ UNCHANGED status
        \/ status' = "draft" \/ status' = "cancelled"
        \/ status' = IF status = "draft" THEN "cancelled" ELSE status
        \/ status' = IF status = "draft" THEN "confirming" ELSE status
    BY DEF Tip!CreateDraft, Tip!Fund, Tip!CancelUnfunded, Tip!AttachFunding,
           Tip!AttachUnsent, Tip!AttachFailed, Tip!ReadForNote,
           Tip!WriteNote, Tip!Load, Tip!Discard, Tip!Clawback, Tip!Close,
           Tip!backend
  <2>2. QED
    BY <1>1, <2>1 DEF Tip!Status
<1>6. /\ win' \in [Window -> TipJob]
      /\ \A v \in Window : win'[v].at \in {"fund", "mark", "remove"} => win'[v].at = win[v].at
  <2>1. \/ \E step \in {"backup", "cancel", "annotate", "note", "discard", "sweep"} : Tip!Goto(w, step)
        \/ Tip!Ends(w) \/ UNCHANGED win
        \/ win' = [win EXCEPT ![w].at = "attach", ![w].left = MaxTries]
        \/ win[w].left > 0 /\ win' = [win EXCEPT ![w].left = @ - 1]
        \/ win' = [win EXCEPT ![w].row = status, ![w].kept = backup]
        \/ win' = [win EXCEPT ![w].row = IF backup THEN "pending" ELSE "none", ![w].kept = backup]
    BY DEF Tip!CreateDraft, Tip!Fund, Tip!CancelUnfunded, Tip!AttachFunding,
           Tip!AttachUnsent, Tip!AttachFailed, Tip!ReadForNote,
           Tip!WriteNote, Tip!Load, Tip!Discard, Tip!Clawback, Tip!Close
  <2>2. CASE \E step \in {"backup", "cancel", "annotate", "note", "discard", "sweep"} : Tip!Goto(w, step)
    BY <2>2, TipGoes DEF TipInv
  <2>3. CASE Tip!Ends(w)
    BY <2>3, TipEnds DEF TipInv
  <2>4. CASE UNCHANGED win
    BY <1>1, <2>4
  <2>5. ASSUME NEW job \in TipJob, job.at \notin {"fund", "mark", "remove"} \/ job.at = win[w].at,
               win' = [win EXCEPT ![w] = job]
        PROVE  /\ win' \in [Window -> TipJob]
               /\ \A v \in Window : win'[v].at \in {"fund", "mark", "remove"} => win'[v].at = win[v].at
    BY <1>1, <2>5
  <2>6. CASE win' = [win EXCEPT ![w].at = "attach", ![w].left = MaxTries]
    <3> DEFINE job == [win[w] EXCEPT !.at = "attach", !.left = MaxTries]
    <3>1. job \in TipJob /\ job.at = "attach"
      BY <1>1 DEF TipJob, TipAssumptions
    <3>2. win' = [win EXCEPT ![w] = job]
      BY <2>6
    <3>3. QED
      BY <3>1, <3>2, <2>5
  <2>7. CASE win[w].left > 0 /\ win' = [win EXCEPT ![w].left = @ - 1]
    <3> DEFINE job == [win[w] EXCEPT !.left = @ - 1]
    <3>1. job \in TipJob /\ job.at = win[w].at
      BY <1>1, <2>7 DEF TipJob
    <3>2. win' = [win EXCEPT ![w] = job]
      BY <2>7
    <3>3. QED
      BY <3>1, <3>2, <2>5
  <2>8. ASSUME NEW row \in Tip!Status, win' = [win EXCEPT ![w].row = row, ![w].kept = backup]
        PROVE  /\ win' \in [Window -> TipJob]
               /\ \A v \in Window : win'[v].at \in {"fund", "mark", "remove"} => win'[v].at = win[v].at
    <3> DEFINE job == [win[w] EXCEPT !.row = row, !.kept = backup]
    <3>1. job \in TipJob /\ job.at = win[w].at
      BY <1>1 DEF TipJob
    <3>2. win' = [win EXCEPT ![w] = job]
      BY <2>8
    <3>3. QED
      BY <3>1, <3>2, <2>5
  <2>9. (IF backup THEN "pending" ELSE "none") \in Tip!Status
    BY DEF Tip!Status
  <2>10. QED
    BY <1>1, <2>1, <2>2, <2>3, <2>4, <2>6, <2>7, <2>8, <2>9
<1>7. QED
  BY <1>1, <1>2, <1>3, <1>4, <1>5, <1>6 DEF Harmless

(* So are the claimers' first and last steps, and the backend's own.        *)
LEMMA ClaimerHarmless ==
  ASSUME TipInv, NEW c \in Claimer, Tip!Claim(c) \/ Tip!ProveEarlier(c) \/ Tip!CloseClaimer(c)
  PROVE  Harmless
<1>1. /\ \/ UNCHANGED <<Tip!network, reported, backup, win, Tip!history>>
         \/ UNCHANGED <<Tip!network, Tip!backend, backup, win, Tip!history>>
      /\ status' = status \/ status' = "claiming"
      /\ \/ UNCHANGED claim
         \/ \E step \in {"idle", "prove", "sweep"} : Tip!At(c, step)
         \/ spentBy = c /\ Tip!At(c, "report")
  BY DEF Tip!Claim, Tip!ProveEarlier, Tip!CloseClaimer, Tip!backend
<1>2. /\ claim' \in [Claimer -> {"idle", "prove", "sweep", "report"}]
      /\ \A d \in Claimer : claim'[d] = "report" => spentBy = d
  BY <1>1 DEF Tip!At, TipInv, TipShape, SweptFor
<1>3. QED
  BY <1>1, <1>2 DEF Harmless, TipInv, TipShape, Tip!Status, Tip!network, Tip!history

(* What the backend does by itself is such a step.                           *)
LEMMA BackendHarmless == TipInv /\ Tip!Backend => Harmless
<1> SUFFICES ASSUME TipInv, Tip!Backend PROVE Harmless
  OBVIOUS
<1>1. /\ UNCHANGED <<Tip!network, backup, win, claim, Tip!history>>
      /\ status' \in {"pending", "cancelled", "claimed"}
  BY DEF Tip!Backend
<1>2. QED
  BY <1>1 DEF Harmless, TipInv, TipShape, SweptFor, Tip!Status, Tip!network, Tip!history

(* No step of either side, or of the backend, breaks the invariant.          *)
LEMMA TipStep ==
  ASSUME TipAssumptions
  PROVE  TipInv /\ [Tip!Next]_(Tip!vars) => TipInv'
<1> SUFFICES ASSUME TipInv, [Tip!Next]_(Tip!vars) PROVE TipInv'
  OBVIOUS
<1> USE DEF TipInv
<1>1. ASSUME NEW w \in Window, Tip!StoreTipKeyBackup(w) PROVE TipInv'
  <2>1. /\ win' \in [Window -> TipJob]
        /\ \A v \in Window : win'[v].at = IF v = w THEN "fund" ELSE win[v].at
    BY <1>1, TipGoes DEF Tip!StoreTipKeyBackup
  <2>2. /\ UNCHANGED <<Tip!network, Tip!backend, claim, told, discarded>>
        /\ \/ backup' = TRUE /\ UNCHANGED lacking
           \/ lacking' = TRUE /\ UNCHANGED backup
    BY <1>1 DEF Tip!StoreTipKeyBackup
  <2>3. TipShape' /\ SweptBack' /\ SweptFor'
    BY <2>1, <2>2 DEF TipShape, SweptBack, SweptFor, Tip!network, Tip!backend
  <2>4. Tip!SuccessIsPaid' /\ Tip!ClawedBackIsReturned'
    BY <2>2 DEF Tip!SuccessIsPaid, Tip!ClawedBackIsReturned, Tip!network,
                Tip!backend
  <2>5. BackedUp'
    BY <2>2 DEF BackedUp
  <2>6. QED
    BY <2>3, <2>4, <2>5
<1>2. ASSUME NEW w \in Window, Tip!RemoveDiscarded(w) PROVE TipInv'
  <2>1. /\ win' \in [Window -> TipJob]
        /\ \A v \in Window : win'[v].at = IF v = w THEN "idle" ELSE win[v].at
    BY <1>2, TipEnds DEF Tip!RemoveDiscarded
  <2>2. UNCHANGED <<Tip!network, Tip!backend, claim, told>> /\ backup' = FALSE /\ discarded' = TRUE
    BY <1>2 DEF Tip!RemoveDiscarded
  <2>3. TipShape' /\ SweptBack' /\ SweptFor'
    BY <2>1, <2>2 DEF TipShape, SweptBack, SweptFor, Tip!network, Tip!backend
  <2>4. Tip!SuccessIsPaid' /\ Tip!ClawedBackIsReturned' /\ BackedUp'
    BY <2>2 DEF Tip!SuccessIsPaid, Tip!ClawedBackIsReturned, BackedUp, Tip!network,
                Tip!backend
  <2>5. QED
    BY <2>3, <2>4
(* The network takes one spend: nobody was told of another before.          *)
<1>3. ASSUME NEW w \in Window, Tip!SweepBack(w) PROVE TipInv'
  <2>1. CASE Tip!Ends(w) /\ UNCHANGED spentBy
    <3>1. /\ win' \in [Window -> TipJob]
          /\ \A v \in Window : win'[v].at = IF v = w THEN "idle" ELSE win[v].at
      BY <2>1, TipEnds
    <3>2. UNCHANGED <<Tip!network, Tip!backend, backup, claim, Tip!history>>
      BY <1>3, <2>1 DEF Tip!SweepBack, Tip!network
    <3>3. Harmless
      BY <3>1, <3>2 DEF Harmless, TipShape, SweptFor, Tip!network, Tip!backend,
                        Tip!history
    <3>4. QED
      BY <3>3, HarmlessStep
  <2>2. CASE Tip!Lists(TRUE) /\ spentBy' = "sender" /\ (Tip!Goto(w, "mark") \/ Tip!Ends(w))
    <3>1. /\ win' \in [Window -> TipJob]
          /\ \A v \in Window : v # w => win'[v].at = win[v].at
          /\ win'[w].at \in {"mark", "idle"}
      BY <2>2, TipGoes, TipEnds
    <3>2. spentBy = None /\ UNCHANGED <<funded, Tip!backend, backup, claim, Tip!history>>
      BY <1>3, <2>2 DEF Tip!SweepBack, Tip!Lists
    <3>3. TipShape' /\ SweptBack'
      BY <2>2, <3>1, <3>2 DEF TipShape, SweptBack, Tip!backend, Tip!history
    <3>4. SweptFor' /\ Tip!SuccessIsPaid'
      BY <3>2 DEF TipAssumptions, TipShape, SweptFor, Tip!SuccessIsPaid, Tip!history
    <3>5. Tip!ClawedBackIsReturned' /\ BackedUp'
      BY <2>2, <3>2 DEF TipAssumptions, Tip!ClawedBackIsReturned, BackedUp, Tip!backend
    <3>6. QED
      BY <3>3, <3>4, <3>5
  <2>3. QED
    BY <1>3, <2>1, <2>2 DEF Tip!SweepBack
<1>4. ASSUME NEW w \in Window, Tip!MarkClawedBack(w) PROVE TipInv'
  <2>1. spentBy = "sender" /\ UNCHANGED <<Tip!network, reported, backup, claim, Tip!history>>
    BY <1>4 DEF Tip!MarkClawedBack, SweptBack
  <2>2. /\ win' \in [Window -> TipJob]
        /\ \A v \in Window : win'[v].at = IF v = w THEN "remove" ELSE win[v].at
    BY <1>4, TipGoes DEF Tip!MarkClawedBack
  <2>3. status' \in Tip!Status
    BY <1>4 DEF Tip!MarkClawedBack, TipShape, Tip!Status
  <2>4. TipShape' /\ SweptBack' /\ SweptFor'
    BY <2>1, <2>2, <2>3 DEF TipShape, SweptBack, SweptFor, Tip!network, Tip!history
  <2>5. Tip!SuccessIsPaid' /\ Tip!ClawedBackIsReturned' /\ BackedUp'
    BY <2>1 DEF TipAssumptions, Tip!SuccessIsPaid, Tip!ClawedBackIsReturned, BackedUp,
                Tip!network, Tip!history
  <2>6. QED
    BY <2>4, <2>5
<1>5. ASSUME NEW w \in Window, Tip!RemoveReturned(w) PROVE TipInv'
  <2>1. /\ spentBy = "sender" /\ UNCHANGED <<Tip!network, Tip!backend, claim, discarded, lacking>>
        /\ backup' = FALSE /\ told' = told \cup {"sender"}
    BY <1>5 DEF Tip!RemoveReturned, SweptBack
  <2>2. /\ win' \in [Window -> TipJob]
        /\ \A v \in Window : win'[v].at = IF v = w THEN "idle" ELSE win[v].at
    BY <1>5, TipEnds DEF Tip!RemoveReturned
  <2>3. TipShape' /\ SweptBack' /\ SweptFor'
    BY <2>1, <2>2 DEF TipShape, SweptBack, SweptFor, Tip!network, Tip!backend
  <2>4. Tip!SuccessIsPaid' /\ Tip!ClawedBackIsReturned' /\ BackedUp'
    BY <2>1 DEF TipAssumptions, Tip!SuccessIsPaid, Tip!ClawedBackIsReturned, BackedUp,
                Tip!network, Tip!backend
  <2>5. QED
    BY <2>3, <2>4
<1>6. ASSUME NEW c \in Claimer, Tip!SweepTip(c) PROVE TipInv'
  <2>1. UNCHANGED <<funded, Tip!backend, backup, win, Tip!history>>
    BY <1>6 DEF Tip!SweepTip
  <2>2. CASE Tip!At(c, "idle") /\ UNCHANGED spentBy
    BY <2>1, <2>2, HarmlessStep DEF Harmless, TipShape, SweptFor, Tip!At, Tip!backend,
       Tip!history
  <2>3. CASE Tip!Lists(TRUE) /\ spentBy' = c /\ (Tip!At(c, "report") \/ Tip!At(c, "idle"))
    <3>1. spentBy = None
      BY <2>3 DEF Tip!Lists
    <3>2. \A d \in Claimer : d # c => claim'[d] = claim[d]
      BY <2>3 DEF Tip!At, TipShape
    <3>3. TipShape' /\ SweptBack'
      BY <2>1, <2>3, <3>1 DEF TipAssumptions, TipShape, SweptBack, Tip!At, Tip!backend,
                              Tip!history
    <3>4. SweptFor' /\ Tip!SuccessIsPaid'
      BY <2>1, <2>3, <3>1, <3>2 DEF TipAssumptions, TipShape, SweptFor, Tip!SuccessIsPaid,
         Tip!history
    <3>5. Tip!ClawedBackIsReturned' /\ BackedUp'
      BY <2>1, <2>3, <3>1 DEF TipAssumptions, Tip!ClawedBackIsReturned, BackedUp,
                              Tip!backend, Tip!history
    <3>6. QED
      BY <3>3, <3>4, <3>5
  <2>4. QED
    BY <1>6, <2>2, <2>3 DEF Tip!SweepTip
<1>7. ASSUME NEW c \in Claimer, Tip!ReportSweep(c) PROVE TipInv'
  <2>1. /\ spentBy = c /\ told' = told \cup {c} /\ Tip!At(c, "idle")
        /\ UNCHANGED <<Tip!network, status, backup, win, discarded, lacking>>
    BY <1>7 DEF Tip!ReportSweep, SweptFor
  <2>2. TipShape' /\ SweptBack' /\ SweptFor'
    BY <2>1 DEF TipShape, SweptBack, SweptFor, Tip!At, Tip!network
  <2>3. Tip!SuccessIsPaid' /\ Tip!ClawedBackIsReturned' /\ BackedUp'
    BY <2>1 DEF Tip!SuccessIsPaid, Tip!ClawedBackIsReturned, BackedUp, Tip!network
  <2>4. QED
    BY <2>2, <2>3
<1>8. CASE UNCHANGED Tip!vars
  BY <1>8 DEF Tip!vars, TipShape, SweptBack, SweptFor, Tip!SuccessIsPaid,
              Tip!ClawedBackIsReturned, BackedUp
<1>9. QED
  BY <1>1, <1>2, <1>3, <1>4, <1>5, <1>6, <1>7, <1>8,
     SenderHarmless, ClaimerHarmless, BackendHarmless, HarmlessStep DEF Tip!Next

(* So it always holds.                                                       *)
LEMMA TipsHold ==
  ASSUME TipAssumptions
  PROVE  FundsSpec => []TipInv
<1>1. FundsInit => TipInv
  BY TipStart DEF FundsInit
<1>2. TipInv /\ [FundsNext]_<<part, vars, tips, sends>> => TipInv'
  <2>1. [FundsNext]_<<part, vars, tips, sends>> => [Tip!Next]_(Tip!vars)
    BY DEF FundsNext, tips, Tip!vars
  <2> QED BY <2>1, TipStep
<1>3. QED
  BY <1>1, <1>2, PTL DEF FundsSpec

(* SuccessIsPaid: who is told that the coins came to him has them: the        *)
(* network took his spend and no other's, for any windows, claimers and lost  *)
(* answers.                                                                   *)
THEOREM SuccessMeansPaid ==
  ASSUME None \notin Claimer \cup {"sender"}, MaxTries \in Nat
  PROVE  FundsSpec => []SuccessIsPaid
<1>1. FundsSpec => []TipInv
  BY TipsHold DEF TipAssumptions
<1>2. TipInv => SuccessIsPaid
  BY DEF TipInv, SuccessIsPaid
<1>3. QED
  BY <1>1, <1>2, PTL

(* ClawedBackIsReturned: the backend is told of a clawback only when the      *)
(* tip's coins are the sender's.                                              *)
THEOREM ReturnedWhenMarked ==
  ASSUME None \notin Claimer \cup {"sender"}, MaxTries \in Nat
  PROVE  FundsSpec => []ClawedBackIsReturned
<1>1. FundsSpec => []TipInv
  BY TipsHold DEF TipAssumptions
<1>2. TipInv => ClawedBackIsReturned
  BY DEF TipInv, ClawedBackIsReturned
<1>3. QED
  BY <1>1, <1>2, PTL

(* KeptUnlessDiscarded: unspent coins at the tip's key are within somebody's  *)
(* reach, unless the backup of the key could not be stored or was discarded   *)
(* with the row.                                                              *)
THEOREM KeptOrGivenUp ==
  ASSUME None \notin Claimer \cup {"sender"}, MaxTries \in Nat
  PROVE  FundsSpec => []KeptUnlessDiscarded
<1>1. FundsSpec => []TipInv
  BY TipsHold DEF TipAssumptions
<1>2. TipInv => KeptUnlessDiscarded
  BY DEF TipInv, BackedUp, KeptUnlessDiscarded, Tip!KeptUnlessDiscarded
<1>3. QED
  BY <1>1, <1>2, PTL

--------------------------------------------------------------------------------
(* Send: what SendDraftProofs proves of SendDraft holds of what the popup does *)
(* with funds as a whole, since no other part touches what is Send's.          *)
SendProofs == INSTANCE SendDraftProofs WITH Scenario <- Drafts

(* The two names of its initial states, and of its steps, stand for the same. *)
LEMMA SameInit == Sends!Init <=> SendProofs!Init
  BY Zenon DEF
    Sends!Init, Sends!Idle, SendProofs!Init, SendProofs!Idle

(* The steps of Send here are those its proofs are about.                    *)
LEMMA SameNext == Sends!Next <=> SendProofs!Next
  BY Zenon DEF
    Sends!Cardinality, SendProofs!Cardinality,
    Sends!Next, Sends!OpenSend, Sends!PickAsset, Sends!EnterAddress, Sends!Amount,
    Sends!Compose, Sends!Back, Sends!Exit, Sends!Navigate, Sends!Submit,
    Sends!CheckMemoDeposit, Sends!Broadcast, Sends!NameDeposit, Sends!ShowReceipt,
    Sends!StartBuild, Sends!Built, Sends!StartFinalize, Sends!Finalized, Sends!StartCancel,
    Sends!ClearCancelled, Sends!Building, Sends!Cancelled, Sends!AskHandoff, Sends!WriteHandoff, Sends!ToStatus, Sends!ConfirmSwap,
    Sends!Continue, Sends!CloseSwap, Sends!Poll, Sends!Reopen, Sends!ShowsReceipt, Sends!Fresh,
    Sends!history, Sends!fixed, Sends!At, Sends!MayLeave, Sends!Unmounted, Sends!Running,
    Sends!Paying, Sends!Begins, Sends!MemoCheck, Sends!Goes, Sends!Ends, Sends!IsDeposit,
    Sends!ReceiptStep, Sends!Idle, Sends!ExchangeInFlight, Sends!InProgress,
    Sends!DepositDraft, Sends!PayLinkDraft, Sends!Busy, Sends!Address, Sends!Quoted,
    SendProofs!Next, SendProofs!OpenSend, SendProofs!PickAsset, SendProofs!EnterAddress,
    SendProofs!Amount, SendProofs!Compose, SendProofs!Back, SendProofs!Exit,
    SendProofs!Navigate, SendProofs!Submit, SendProofs!CheckMemoDeposit, SendProofs!Broadcast,
    SendProofs!NameDeposit, SendProofs!ShowReceipt, SendProofs!StartBuild, SendProofs!Built,
    SendProofs!StartFinalize, SendProofs!Finalized, SendProofs!StartCancel,
    SendProofs!ClearCancelled, SendProofs!Building, SendProofs!Cancelled, SendProofs!AskHandoff, SendProofs!WriteHandoff, SendProofs!ToStatus,
    SendProofs!ConfirmSwap, SendProofs!Continue, SendProofs!CloseSwap, SendProofs!Poll,
    SendProofs!Reopen, SendProofs!ShowsReceipt, SendProofs!Fresh, SendProofs!history,
    SendProofs!fixed, SendProofs!At, SendProofs!MayLeave, SendProofs!Unmounted,
    SendProofs!Running, SendProofs!Paying, SendProofs!Begins, SendProofs!MemoCheck,
    SendProofs!Goes, SendProofs!Ends, SendProofs!IsDeposit, SendProofs!ReceiptStep,
    SendProofs!Idle, SendProofs!ExchangeInFlight, SendProofs!InProgress,
    SendProofs!DepositDraft, SendProofs!PayLinkDraft, SendProofs!Busy, SendProofs!Address,
    SendProofs!Quoted

(* So a behaviour of the popup is one of Send.                               *)
LEMMA SendsAsBefore == FundsSpec => SendProofs!Spec
<1>1. FundsInit => SendProofs!Init
  BY SameInit DEF FundsInit
<1>2. [FundsNext]_<<part, vars, tips, sends>> => [SendProofs!Next]_(SendProofs!vars)
  BY SameNext DEF FundsNext, sends, SendProofs!vars
<1> QED BY <1>1, <1>2, PTL DEF FundsSpec, SendProofs!Spec

(* VaultPaidWithMemo: whatever the user types, leaves or opens, a payment to   *)
(* THORChain's vault is a quoted deposit with its own memo, for any handlers   *)
(* and trades, if no trade is named like the vault.                            *)
THEOREM VaultNeedsMemo ==
  ASSUME None # "vault", \A sc \in Drafts : "vault" \notin sc.swaps
  PROVE  FundsSpec => []VaultPaidWithMemo
<1>1. SendProofs!Spec => []SendProofs!VaultPaidWithMemo
  BY SendProofs!VaultNeedsMemo
<1>2. VaultPaidWithMemo <=> SendProofs!VaultPaidWithMemo
  BY DEF VaultPaidWithMemo, Sends!VaultPaidWithMemo, SendProofs!VaultPaidWithMemo,
     Sends!Quoted, SendProofs!Quoted
<1> QED BY <1>1, <1>2, SendsAsBefore, PTL

(* TxidIsDeposit: the txid a swap is followed by, and every one the journal    *)
(* names, is that of a payment to the swap's own deposit address, with its     *)
(* memo where it has one.                                                      *)
THEOREM TxidNamesDeposit ==
  ASSUME None # "vault", \A sc \in Drafts : "vault" \notin sc.swaps
  PROVE  FundsSpec => []TxidIsDeposit
<1>1. SendProofs!Spec => []SendProofs!TxidIsDeposit
  BY SendProofs!TxidNamesDeposit
<1>2. TxidIsDeposit <=> SendProofs!TxidIsDeposit
  BY DEF TxidIsDeposit, Sends!TxidIsDeposit, SendProofs!TxidIsDeposit,
     Sends!Address, SendProofs!Address
<1> QED BY <1>1, <1>2, SendsAsBefore, PTL

(* ExchangeKept: a Grin payment kept for its reply stays in Send until it is   *)
(* finalized or given up, as long as no screen is left whose handler is under  *)
(* way and no cancel has set off another build, for any handlers, drafts and   *)
(* hand-offs.                                                                  *)
THEOREM ExchangeStays ==
  ASSUME SendProofs!Nothing, None # "vault", \A sc \in Drafts : "vault" \notin sc.swaps
  PROVE  FundsSpec => []ExchangeKept
<1>1. SendProofs!Spec => []SendProofs!ExchangeKept
  BY SendProofs!ExchangeStays
<1>2. ExchangeKept <=> SendProofs!ExchangeKept
  BY DEF ExchangeKept, Sends!ExchangeKept, SendProofs!ExchangeKept
<1> QED BY <1>1, <1>2, SendsAsBefore, PTL
================================================================================
