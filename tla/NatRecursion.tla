---------------------------- MODULE NatRecursion ----------------------------
(***************************************************************************)
(* Induction over the natural numbers and functions defined by recursion   *)
(* on them, stated with sets and functions where the library's theorems    *)
(* have operators: S is what is true of a number, step what the next value *)
(* is made of.                                                             *)
(***************************************************************************)
EXTENDS Integers, WellFoundedInduction, TLAPS

\* A set of naturals that holds 0, and with every number the next, is all of
\* them: its complement would have a smallest element.
LEMMA SetInduction ==
    ASSUME NEW S \in SUBSET Nat, 0 \in S, \A n \in S : n + 1 \in S
    PROVE  S = Nat
<1> SUFFICES ASSUME Nat \ S # {} PROVE FALSE
  OBVIOUS
<1>1. PICK n \in Nat \ S : \A m \in Nat \ S : <<m, n>> \notin OpToRel(<, Nat)
  BY NatLessThanWellFounded, WFMin
<1>2. n # 0 /\ n - 1 \in Nat
  OBVIOUS
<1>3. <<n - 1, n>> \in OpToRel(<, Nat)
  BY <1>2 DEF OpToRel
<1>4. n - 1 \in S
  BY <1>1, <1>2, <1>3
<1> QED
  BY <1>2, <1>4

\* A nonempty set of naturals that is bounded has a greatest element.
LEMMA HasGreatest ==
    ASSUME NEW b \in Nat, NEW S \in SUBSET (0 .. b), S # {}
    PROVE  \E i \in S : \A j \in S : j <= i
<1> DEFINE Above == {n \in Nat : \E i \in S : i >= n}
<1>1. \A i \in S : i \in Nat /\ i < b + 1
  OBVIOUS
<1>2. 0 \in Above
  <2>1. PICK i \in S : TRUE
    OBVIOUS
  <2>2. i >= 0
    BY <1>1
  <2> QED
    BY <2>2
<1>3. b + 1 \notin Above
  BY <1>1
<1>4. PICK n \in Above : n + 1 \notin Above
  <2> HIDE DEF Above
  <2>1. Above \in SUBSET Nat
    BY DEF Above
  <2>2. Above # Nat
    BY <1>3
  <2> QED
    BY <1>2, <2>1, <2>2, SetInduction
<1>5. PICK i \in S : i >= n
  BY <1>4
<1>6. \A j \in S : j < n + 1
  BY <1>1, <1>4
<1> QED
  BY <1>1, <1>4, <1>5, <1>6

-----------------------------------------------------------------------------
\* f follows the recursion up to n.
Follows(f, n, base, step) == /\ f[0] = base
                             /\ \A i \in 1 .. n : f[i] = step[i][f[i - 1]]

\* Up to every n there is a function that follows the recursion.
LEMMA PartialRecursion ==
    ASSUME NEW V, NEW base \in V, NEW step \in [Nat -> [V -> V]]
    PROVE  \A n \in Nat : \E f \in [0 .. n -> V] : Follows(f, n, base, step)
<1> DEFINE S == {n \in Nat : \E f \in [0 .. n -> V] : Follows(f, n, base, step)}
<1>1. 0 \in S
  <2> DEFINE f == [i \in 0 .. 0 |-> base]
  <2>1. f \in [0 .. 0 -> V] /\ Follows(f, 0, base, step)
    BY DEF Follows
  <2> QED
    BY <2>1
<1>2. ASSUME NEW n \in S PROVE n + 1 \in S
  <2>1. n \in Nat /\ n + 1 \in Nat
    OBVIOUS
  <2>2. PICK f \in [0 .. n -> V] : Follows(f, n, base, step)
    OBVIOUS
  <2> HIDE DEF S
  <2> DEFINE g == [i \in 0 .. n + 1 |-> IF i = n + 1 THEN step[n + 1][f[n]] ELSE f[i]]
  <2>3. g \in [0 .. n + 1 -> V]
    BY <2>1
  <2>4. g[0] = base
    BY <2>1, <2>2 DEF Follows
  <2>5. ASSUME NEW i \in 1 .. n + 1 PROVE g[i] = step[i][g[i - 1]]
    <3>1. CASE i = n + 1
      <4>1. g[i - 1] = f[n] /\ g[i] = step[n + 1][f[n]]
        BY <2>1, <3>1
      <4> HIDE DEF g
      <4> QED
        BY <3>1, <4>1
    <3>2. CASE i # n + 1
      <4>1. g[i - 1] = f[i - 1] /\ g[i] = f[i] /\ i \in 1 .. n
        BY <2>1, <3>2
      <4> HIDE DEF g
      <4> QED
        BY <2>2, <4>1 DEF Follows
    <3> QED
      BY <3>1, <3>2
  <2> HIDE DEF g
  <2>6. Follows(g, n + 1, base, step)
    BY <2>4, <2>5 DEF Follows
  <2> QED
    BY <2>1, <2>3, <2>6 DEF S
<1> HIDE DEF S
<1>3. S \in SUBSET Nat
  BY DEF S
<1>4. S = Nat
  BY <1>1, <1>2, <1>3, SetInduction
<1> QED
  BY <1>4 DEF S

\* Two functions that follow the same recursion agree as far as both do.
LEMMA FollowersAgree ==
    ASSUME NEW base, NEW step, NEW f, NEW g, NEW n \in Nat, NEW m \in Nat, n <= m,
           Follows(f, n, base, step), Follows(g, m, base, step)
    PROVE  f[n] = g[n]
<1> DEFINE S == {i \in Nat : i <= n => f[i] = g[i]}
<1>1. 0 \in S
  BY DEF Follows
<1>2. ASSUME NEW i \in S PROVE i + 1 \in S
  <2> SUFFICES ASSUME i + 1 <= n PROVE f[i + 1] = g[i + 1]
    OBVIOUS
  <2>1. f[i] = g[i]
    OBVIOUS
  <2>2. i + 1 \in 1 .. n /\ i + 1 \in 1 .. m /\ (i + 1) - 1 = i
    OBVIOUS
  <2> QED
    BY <2>1, <2>2 DEF Follows
<1> HIDE DEF S
<1>3. S \in SUBSET Nat
  BY DEF S
<1>4. S = Nat
  BY <1>1, <1>2, <1>3, SetInduction
<1> QED
  BY <1>4 DEF S

\* f is the function that a recursion over the naturals defines.
IsRecursive(f, V, base, step) == /\ f \in [Nat -> V]
                                 /\ f[0] = base
                                 /\ \A n \in Nat \ {0} : f[n] = step[n][f[n - 1]]

\* Every recursion over the naturals defines a function.
LEMMA Recursion ==
    ASSUME NEW V, NEW base \in V, NEW step \in [Nat -> [V -> V]]
    PROVE  \E f : IsRecursive(f, V, base, step)
<1> DEFINE part(n) == CHOOSE g \in [0 .. n -> V] : Follows(g, n, base, step)
           f == [n \in Nat |-> part(n)[n]]
<1>1. ASSUME NEW n \in Nat
      PROVE  part(n) \in [0 .. n -> V] /\ Follows(part(n), n, base, step)
  BY PartialRecursion
<1> HIDE DEF part
<1>2. f \in [Nat -> V]
  BY <1>1
<1>3. f[0] = base
  BY <1>1 DEF Follows
<1>4. ASSUME NEW n \in Nat \ {0} PROVE f[n] = step[n][f[n - 1]]
  <2>1. n - 1 \in Nat /\ n \in 1 .. n /\ n - 1 <= n
    OBVIOUS
  <2>2. part(n)[n] = step[n][part(n)[n - 1]]
    BY <1>1, <2>1 DEF Follows
  <2>3. part(n - 1)[n - 1] = part(n)[n - 1]
    BY <1>1, <2>1, FollowersAgree
  <2> QED
    BY <2>1, <2>2, <2>3
<1> HIDE DEF f
<1> QED
  BY <1>2, <1>3, <1>4 DEF IsRecursive
=============================================================================
