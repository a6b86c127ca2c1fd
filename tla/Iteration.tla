----------------------------- MODULE Iteration -----------------------------
(***************************************************************************)
(* Induction and recursion over 0..N, for the loops that the models write  *)
(* as recursive functions: induction is stated for a set of numbers, and   *)
(* recursion for the function that makes the next value of the last one.   *)
(***************************************************************************)
EXTENDS Integers, WellFoundedInduction, TLAPS

\* A set that has 0 and, with a number below N, the next one, has all of 0..N.
LEMMA UpTo ==
  ASSUME NEW N \in Nat, NEW S, 0 \in S,
         \A n \in 0..N : n < N /\ n \in S => n + 1 \in S
  PROVE  0..N \subseteq S
<1> DEFINE Missing == (0..N) \ S
           R == OpToRel(<, Nat)
<1>1. IsWellFoundedOn(R, Nat)
  BY NatLessThanWellFounded
<1>2. \A m, n \in Nat : m < n => <<m, n>> \in R
  BY DEF OpToRel
<1> SUFFICES ASSUME Missing # {} PROVE FALSE
  OBVIOUS
<1>3. Missing \subseteq Nat
  OBVIOUS
<1> HIDE DEF R, Missing
<1>4. PICK n \in Missing : \A m \in Missing : ~ (<<m, n>> \in R)
  BY <1>1, <1>3, WFMin
<1>5. n \in 0..N /\ n \notin S
  BY DEF Missing
<1>6. n - 1 \in 0..N /\ n - 1 < N /\ n - 1 + 1 = n
  BY <1>5
<1>7. n \in Nat /\ n - 1 \in Nat /\ n - 1 < n
  BY <1>5, <1>6
<1>8. n - 1 \notin Missing
  BY <1>2, <1>4, <1>7, Zenon
<1> QED
  BY <1>5, <1>6, <1>8 DEF Missing

\* What a loop starts with and every turn keeps, all its turns have.
LEMMA Stays ==
  ASSUME NEW N \in Nat, NEW W, NEW w, w[0] \in W,
         \A n \in 1..N : w[n - 1] \in W => w[n] \in W
  PROVE  \A n \in 0..N : w[n] \in W
<1> DEFINE S == {n \in 0..N : w[n] \in W}
<1>1. 0 \in S
  OBVIOUS
<1>2. ASSUME NEW n \in 0..N, n < N, n \in S PROVE n + 1 \in S
  <2>1. n + 1 \in 1..N /\ n + 1 - 1 = n /\ n + 1 \in 0..N
    BY <1>2
  <2> QED
    BY <1>2, <2>1
<1> HIDE DEF S
<1>3. 0..N \subseteq S
  BY <1>1, <1>2, UpTo
<1> QED
  BY <1>3 DEF S

\* The first k numbers of w, each made of the one before by G.
Steps(w, G, s, k) ==
  /\ w[0] = s
  /\ \A n \in 1..k : w[n] = G[<<w[n - 1], n>>]

\* What a step G makes of s, N times over: a function defined by recursion.
LEMMA Iterated ==
  ASSUME NEW N \in Nat, NEW W, NEW s \in W, NEW G \in [W \X (1..N) -> W]
  PROVE  \E w \in [0..N -> W] : Steps(w, G, s, N)
<1> DEFINE Reached == {k \in 0..N : \E w \in [0..k -> W] : Steps(w, G, s, k)}
<1>1. 0 \in Reached
  <2> DEFINE w == [n \in 0..0 |-> s]
  <2>1. w \in [0..0 -> W] /\ Steps(w, G, s, 0)
    BY DEF Steps
  <2> HIDE DEF w
  <2> QED
    BY <2>1
<1>2. ASSUME NEW k \in 0..N, k < N, k \in Reached PROVE k + 1 \in Reached
  <2>1. PICK w \in [0..k -> W] : Steps(w, G, s, k)
    BY <1>2
  <2> DEFINE g == G[<<w[k], k + 1>>]
             v == [n \in 0..(k + 1) |-> IF n = k + 1 THEN g ELSE w[n]]
  <2>2. g \in W
    <3>1. w[k] \in W /\ k + 1 \in 1..N
      BY <1>2
    <3>2. <<w[k], k + 1>> \in W \X (1..N)
      BY <3>1
    <3> QED
      BY <3>2
  <2>3. w[k] = v[k] /\ k + 1 \in 0..(k + 1) /\ v[k + 1] = g /\ v[0] = w[0]
    OBVIOUS
  <2>4. \A n \in 1..k : n \in 0..(k + 1) /\ n - 1 \in 0..(k + 1) /\ v[n] = w[n] /\ v[n - 1] = w[n - 1]
    OBVIOUS
  <2>5. v \in [0..(k + 1) -> W]
    BY <2>2
  <2>6. g = G[<<v[k], k + 1>>]
    BY <2>3
  <2> HIDE DEF v, g
  <2>7. \A n \in 1..(k + 1) : v[n] = G[<<v[n - 1], n>>]
    <3> TAKE n \in 1..(k + 1)
    <3>1. CASE n = k + 1
      BY <2>3, <2>6, <3>1
    <3>2. CASE n # k + 1
      BY <2>1, <2>4, <3>2 DEF Steps
    <3> QED
      BY <3>1, <3>2
  <2>8. Steps(v, G, s, k + 1)
    BY <2>1, <2>3, <2>7 DEF Steps
  <2>9. k + 1 \in 0..N
    BY <1>2
  <2> QED
    BY <2>5, <2>8, <2>9
<1> HIDE DEF Reached
<1>3. 0..N \subseteq Reached
  BY <1>1, <1>2, UpTo
<1>4. N \in Reached
  BY <1>3
<1> QED
  BY <1>4 DEF Reached
=============================================================================
