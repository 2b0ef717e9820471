----------------------------- MODULE Recursion -----------------------------
(***************************************************************************)
(* Induction and recursion on the numbers from 0 to n. Both are about a    *)
(* set and a function, since none of the provers takes a predicate or an   *)
(* operator.                                                               *)
(***************************************************************************)
EXTENDS Integers, WellFoundedInduction, TLAPS

\* A set that holds 0, and with a number below n the next one, holds 0 to n.
LEMMA UpTo ==
  ASSUME NEW n \in Nat, NEW T,
         0 \in T, \A k \in 0 .. n - 1 : k \in T => k + 1 \in T
  PROVE  0 .. n \subseteq T
<1> DEFINE Rest == (0 .. n) \ T
<1> SUFFICES ASSUME Rest # {} PROVE FALSE
  OBVIOUS
<1>1. PICK least \in Rest : \A k \in Rest : ~(<<k, least>> \in OpToRel(<, Nat))
  <2>1. Rest \subseteq Nat
    OBVIOUS
  <2> QED BY <2>1, NatLessThanWellFounded, WFMin
<1>2. ASSUME NEW k \in Rest PROVE ~(k < least)
  <2>1. ASSUME k < least PROVE <<k, least>> \in OpToRel(<, Nat)
    <3>1. <<k, least>> \in Nat \X Nat /\ <<k, least>>[1] < <<k, least>>[2]
      BY <2>1
    <3> QED BY <3>1, Zenon DEF OpToRel
  <2> QED BY <1>1, <2>1
<1>3. least - 1 \in T /\ least - 1 \in 0 .. n - 1
  BY <1>2
<1> QED BY <1>3

\* f goes from first up to f[n], each value made from the one before it.
Follows(f, n, first, step) ==
  /\ f[0] = first
  /\ \A k \in 1 .. n : f[k] = step[k][f[k - 1]]

\* A first value and a rule for the next one determine such a function.
LEMMA RecursionExists ==
  ASSUME NEW n \in Nat, NEW S, NEW first \in S, NEW step \in [1 .. n -> [S -> S]]
  PROVE  \E f \in [0 .. n -> S] : Follows(f, n, first, step)
<1> DEFINE Until(f, m) == Follows(f, m, first, step)
           T == {m \in Nat : \E f \in [0 .. n -> S] : Until(f, m)}
<1> USE DEF Follows
<1>1. 0 \in T
  <2>1. [k \in 0 .. n |-> first] \in [0 .. n -> S] /\ Until([k \in 0 .. n |-> first], 0)
    OBVIOUS
  <2> QED BY <2>1
<1>2. ASSUME NEW m \in 0 .. n - 1, m \in T PROVE m + 1 \in T
  <2>1. PICK f \in [0 .. n -> S] : Until(f, m)
    BY <1>2
  <2> DEFINE new == step[m + 1][f[m]]
             g == [f EXCEPT ![m + 1] = new]
  <2>2. new \in S
    <3>1. f[m] \in S /\ m + 1 \in 1 .. n
      OBVIOUS
    <3> QED BY <3>1
  <2> HIDE DEF new
  <2>3. g \in [0 .. n -> S] /\ g[m + 1] = new /\ \A k \in 0 .. m : g[k] = f[k]
    BY <2>2
  <2> HIDE DEF g
  <2>4. Until(g, m + 1)
    <3>1. g[0] = first
      BY <2>1, <2>3
    <3>2. ASSUME NEW k \in 1 .. m PROVE g[k] = step[k][g[k - 1]]
      BY <2>1, <2>3
    <3>3. g[m + 1] = step[m + 1][g[m]]
      <4>1. g[m] = f[m]
        BY <2>3
      <4> QED BY <2>3, <4>1 DEF new
    <3>4. ASSUME NEW k \in 1 .. m + 1 PROVE g[k] = step[k][g[k - 1]]
      <4>1. CASE k = m + 1
        <5>1. k - 1 = m
          BY <4>1
        <5> QED BY <3>3, <4>1, <5>1
      <4> QED BY <3>2, <4>1
    <3> QED BY <3>1, <3>4
  <2> HIDE DEF Until
  <2>5. \E h \in [0 .. n -> S] : Until(h, m + 1)
    BY <2>3, <2>4
  <2> QED BY <2>5
<1>3. n \in T
  <2> HIDE DEF T
  <2>1. 0 .. n \subseteq T
    BY <1>1, <1>2, UpTo
  <2> QED BY <2>1
<1> QED BY <1>3
=============================================================================
