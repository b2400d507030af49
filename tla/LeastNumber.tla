------------------------------- MODULE LeastNumber -------------------------------
(***************************************************************************)
(* The least-number principle, for the definitions that CHOOSE the first   *)
(* position of a sequence with some property, and with it induction on     *)
(* sets of numbers and the existence of what a loop goes through.          *)
(***************************************************************************)
EXTENDS Integers, WellFoundedInduction, TLAPS

\* A nonempty set of naturals has a least element: the search of std::string::find
\* for the first match is well defined.
LEMMA LeastNatural ==
  ASSUME NEW T \in SUBSET Nat, T # {}
  PROVE  \E m \in T : \A k \in T : m <= k
<1>1. PICK m \in T : \A k \in T : ~ (<<k, m>> \in OpToRel(<, Nat))
  BY NatLessThanWellFounded, WFMin
<1>2. \A k \in T : ~ (k < m)
  BY <1>1 DEF OpToRel
<1> QED  BY <1>2

\* What holds of 0 and of the successor of each number below n holds of n.
LEMMA UpTo ==
  ASSUME NEW n \in Nat, NEW T, 0 \in T, \A i \in 0..n - 1 : i \in T => i + 1 \in T
  PROVE  \A i \in 0..n : i \in T
<1> DEFINE Bad == {i \in 0..n : i \notin T}
<1>1. SUFFICES ASSUME Bad # {} PROVE FALSE
  OBVIOUS
<1>2. Bad \in SUBSET Nat
  OBVIOUS
<1>3. PICK m \in Bad : \A k \in Bad : m <= k
  BY <1>1, <1>2, LeastNatural
<1>4. m # 0 /\ m - 1 \in 0..n - 1 /\ m - 1 \notin Bad
  BY <1>3
<1> QED  BY <1>3, <1>4

\* f goes from a on by steps.
IsTrack(f, n, S, a, step) ==
  /\ f \in [0..n -> S] /\ f[0] = a
  /\ \A i \in 1..n : f[i] = step[<<i, f[i - 1]>>]

\* The steps of a loop can be taken one after the other.
LEMMA TrackExists ==
  ASSUME NEW n \in Nat, NEW S, NEW a \in S, NEW step \in [(1..n) \X S -> S]
  PROVE  \E f : IsTrack(f, n, S, a, step)
<1> DEFINE Tracks(m) == {f \in [0..m -> S] :
                         f[0] = a /\ \A i \in 1..m : f[i] = step[<<i, f[i - 1]>>]}
           T == {m \in 0..n : Tracks(m) # {}}
<1>1. 0 \in T
  <2> DEFINE f == [i \in 0..0 |-> a]
  <2>2. f \in [0..0 -> S] /\ f[0] = a
    OBVIOUS
  <2>3. \A i \in 1..0 : f[i] = step[<<i, f[i - 1]>>]
    OBVIOUS
  <2> HIDE DEF f
  <2>1. f \in Tracks(0)
    BY <2>2, <2>3
  <2> QED  BY <2>1
<1>2. ASSUME NEW m \in 0..n - 1, m \in T PROVE m + 1 \in T
  <2>1. PICK f : f \in Tracks(m)
    BY <1>2
  <2> DEFINE g == [i \in 0..m + 1 |-> IF i = m + 1 THEN step[<<m + 1, f[m]>>] ELSE f[i]]
  <2>2. f \in [0..m -> S] /\ f[0] = a /\ \A i \in 1..m : f[i] = step[<<i, f[i - 1]>>]
    BY <2>1
  <2>3. step[<<m + 1, f[m]>>] \in S
    <3>1. <<m + 1, f[m]>> \in (1..n) \X S
      BY <2>2
    <3> QED  BY <3>1
  <2>4. g \in [0..m + 1 -> S]
    <3>1. ASSUME NEW i \in 0..m + 1 PROVE g[i] \in S
      <4>1. i = m + 1 \/ i \in 0..m
        OBVIOUS
      <4> QED  BY <2>2, <2>3, <4>1
    <3> QED  BY <3>1
  <2>5. g[0] = a
    BY <2>2
  <2>6. ASSUME NEW i \in 1..m + 1 PROVE g[i] = step[<<i, g[i - 1]>>]
    <3>1. CASE i = m + 1
      <4>1. i - 1 = m /\ m \in 0..m + 1 /\ m # m + 1
        BY <3>1
      <4>2. g[i - 1] = f[m] /\ g[i] = step[<<i, f[m]>>]
        BY <3>1, <4>1
      <4> QED  BY <4>2
    <3>2. CASE i # m + 1
      <4>1. i \in 1..m /\ g[i] = f[i] /\ g[i - 1] = f[i - 1]
        BY <3>2
      <4> QED  BY <2>2, <4>1
    <3> QED  BY <3>1, <3>2
  <2> HIDE DEF g
  <2>7. g \in Tracks(m + 1)
    BY <2>4, <2>5, <2>6
  <2> QED  BY <2>7
<1> HIDE DEF T
<1>3. n \in T
  BY <1>1, <1>2, UpTo
<1> QED  BY <1>3 DEF T, IsTrack

\* What goes from a on by the steps, as long as it stays in S, stays in S.
LEMMA TrackStays ==
  ASSUME NEW n \in Nat, NEW S, NEW a \in S, NEW step \in [(1..n) \X S -> S],
         NEW f, f = [i \in 0..n |-> f[i]], f[0] = a,
         \A i \in 1..n : f[i - 1] \in S => f[i] = step[<<i, f[i - 1]>>]
  PROVE  IsTrack(f, n, S, a, step)
<1> DEFINE T == {i \in 0..n : f[i] \in S}
<1>1. 0 \in T
  OBVIOUS
<1>2. ASSUME NEW i \in 0..n - 1, i \in T PROVE i + 1 \in T
  <2>1. PICK k \in 1..n : k = i + 1 /\ k - 1 = i /\ k \in 0..n
    OBVIOUS
  <2>2. f[k] = step[<<k, f[i]>>] /\ <<k, f[i]>> \in (1..n) \X S
    BY <1>2, <2>1
  <2> QED  BY <2>1, <2>2
<1> HIDE DEF T
<1>3. \A i \in 0..n : i \in T
  BY <1>1, <1>2, UpTo
<1>4. \A i \in 0..n : f[i] \in S
  BY <1>3 DEF T
<1>5. f \in [0..n -> S]
  BY <1>4
<1>6. \A i \in 1..n : i - 1 \in 0..n
  OBVIOUS
<1> QED  BY <1>4, <1>5, <1>6 DEF IsTrack
===============================================================================
