----------------------------- MODULE Recursion -----------------------------
(***************************************************************************)
(* Recursion and induction, for the proofs on definitions that recurse: a  *)
(* function that is looked up only where its arguments are of lower rank   *)
(* exists and obeys its definition.                                        *)
(*                                                                         *)
(* The definition is Body, of the function, its argument, and a parameter  *)
(* it is made for; an instance names them.                                 *)
(***************************************************************************)
EXTENDS Integers, WellFoundedInduction, TLAPS

CONSTANTS
    Arguments(_),    \* of a parameter: where the function is defined
    Rank(_),         \* of an argument
    Body(_, _, _)    \* of the function, an argument and a parameter

Obeys(f, p)  == f = [x \in Arguments(p) |-> Body(f, x, p)]
Function(p)  == CHOOSE f : Obeys(f, p)

AgreeBelow(f, g, x, p) ==
    \A y \in Arguments(p) : Rank(y) < Rank(x) => f[y] = g[y]

LooksBelow(p) ==
    \A x \in Arguments(p) :
        /\ Rank(x) \in Nat
        /\ \A f, g : AgreeBelow(f, g, x, p) => Body(f, x, p) = Body(g, x, p)

-----------------------------------------------------------------------------
(* Induction over the naturals, as facts about sets                         *)

LEMMA LeastNatural ==
    ASSUME NEW T, T \subseteq Nat, T # {}
    PROVE  \E x \in T : \A y \in T : x <= y
<1> DEFINE Less == {p \in Nat \X Nat : p[1] < p[2]}
<1>1. IsWellFoundedOn(Less, Nat)
  BY NatLessThanWellFounded DEF OpToRel
<1>2. \A x, y \in Nat : <<y, x>> \in Less <=> y < x
  OBVIOUS
<1> HIDE DEF Less
<1>3. PICK x \in T : \A y \in T : ~ (<<y, x>> \in Less)
  BY <1>1, WFMin
<1>4. ASSUME NEW y \in T PROVE x <= y
  <2>1. x \in Nat /\ y \in Nat
    OBVIOUS
  <2>2. ~(y < x)
    BY <1>2, <1>3, <2>1, Zenon
  <2> QED BY <2>1, <2>2
<1> QED BY <1>4

LEMMA SetInduction ==
    ASSUME NEW S, 0 \in S, \A n \in Nat : n \in S => n + 1 \in S
    PROVE  Nat \subseteq S
<1> DEFINE T == Nat \ S
<1>1. ASSUME T # {} PROVE FALSE
  <2>1. PICK n \in T : \A m \in T : n <= m
    BY <1>1, LeastNatural
  <2>2. n # 0 /\ n - 1 \in Nat /\ n - 1 \notin T
    BY <2>1
  <2> QED BY <2>1, <2>2
<1> QED BY <1>1

-----------------------------------------------------------------------------
(* Functions that obey the definition up to a rank                          *)

ObeysBelow(f, n, p) ==
    \A x \in Arguments(p) : Rank(x) < n => f[x] = Body(f, x, p)

LEMMA SomeObeysBelow ==
    ASSUME NEW p, LooksBelow(p), NEW n \in Nat
    PROVE  \E f : ObeysBelow(f, n, p)
<1> DEFINE S == {k \in Nat : \E f : ObeysBelow(f, k, p)}
<1>1. 0 \in S
  BY DEF ObeysBelow, LooksBelow
<1>2. ASSUME NEW k \in Nat, k \in S PROVE k + 1 \in S
  <2>1. PICK f : ObeysBelow(f, k, p)
    BY <1>2
  <2> DEFINE g == [x \in Arguments(p) |-> Body(f, x, p)]
  <2>2. ASSUME NEW x \in Arguments(p), Rank(x) < k + 1
        PROVE  g[x] = Body(g, x, p)
    <3>1. AgreeBelow(f, g, x, p)
      BY <2>1, <2>2 DEF AgreeBelow, ObeysBelow, LooksBelow
    <3> HIDE DEF g
    <3>2. Body(f, x, p) = Body(g, x, p)
      BY <3>1 DEF LooksBelow
    <3> QED BY <3>2 DEF g
  <2> HIDE DEF g
  <2> QED BY <2>2 DEF ObeysBelow
<1> HIDE DEF S
<1>3. n \in S
  BY <1>1, <1>2, SetInduction
<1> QED BY <1>3 DEF S

LEMMA OneObeysBelow ==
    ASSUME NEW p, LooksBelow(p), NEW n \in Nat, NEW m \in Nat, n <= m,
           NEW f, NEW g, ObeysBelow(f, n, p), ObeysBelow(g, m, p)
    PROVE  \A x \in Arguments(p) : Rank(x) < n => f[x] = g[x]
<1> DEFINE S == {k \in Nat : k <= n =>
                    \A x \in Arguments(p) : Rank(x) < k => f[x] = g[x]}
<1>1. 0 \in S
  BY DEF LooksBelow
<1>2. ASSUME NEW k \in Nat, k \in S PROVE k + 1 \in S
  <2> SUFFICES ASSUME k + 1 <= n, NEW x \in Arguments(p), Rank(x) < k + 1
               PROVE  f[x] = g[x]
    OBVIOUS
  <2>1. Rank(x) \in Nat
    BY DEF LooksBelow
  <2>2. AgreeBelow(f, g, x, p)
    BY <1>2, <2>1 DEF AgreeBelow, LooksBelow
  <2>3. Body(f, x, p) = Body(g, x, p)
    BY <2>2 DEF LooksBelow
  <2> QED BY <2>1, <2>3 DEF ObeysBelow
<1> HIDE DEF S
<1>3. n \in S
  BY <1>1, <1>2, SetInduction
<1> QED BY <1>3 DEF S

-----------------------------------------------------------------------------
(* A recursive definition whose look-ups have lower rank defines a function *)
(* that obeys it.                                                          *)
LEMMA FunctionObeys ==
    ASSUME NEW p, LooksBelow(p)
    PROVE  Obeys(Function(p), p)
<1> DEFINE Part(n) == CHOOSE f : ObeysBelow(f, n, p)
           F == [x \in Arguments(p) |-> Part(Rank(x) + 1)[x]]
<1>1. \A n \in Nat : ObeysBelow(Part(n), n, p)
  BY SomeObeysBelow
<1> HIDE DEF Part
<1>2. ASSUME NEW x \in Arguments(p)
      PROVE  F[x] = Body(F, x, p)
  <2>1. PICK n \in Nat : n = Rank(x) + 1
    BY DEF LooksBelow
  <2>2. Part(n)[x] = Body(Part(n), x, p)
    BY <1>1, <2>1 DEF ObeysBelow, LooksBelow
  <2>3. AgreeBelow(Part(n), F, x, p)
    <3> SUFFICES ASSUME NEW y \in Arguments(p), Rank(y) < Rank(x)
                 PROVE  Part(n)[y] = F[y]
      BY DEF AgreeBelow
    <3>1. PICK k \in Nat : k = Rank(y) + 1
      BY DEF LooksBelow
    <3>2. k <= n /\ Rank(y) < k
      BY <2>1, <3>1 DEF LooksBelow
    <3>3. \A z \in Arguments(p) : Rank(z) < k => Part(k)[z] = Part(n)[z]
      BY <1>1, <3>2, OneObeysBelow
    <3> QED BY <3>1, <3>2, <3>3
  <2> HIDE DEF F
  <2>4. Body(Part(n), x, p) = Body(F, x, p)
    BY <2>3 DEF LooksBelow
  <2> QED BY <2>1, <2>2, <2>4 DEF F
<1>3. F = [x \in Arguments(p) |-> F[x]]
  OBVIOUS
<1> HIDE DEF F
<1>4. F = [x \in Arguments(p) |-> Body(F, x, p)]
  BY <1>2, <1>3
<1>5. Obeys(F, p)
  BY <1>4 DEF Obeys
<1> QED BY <1>5 DEF Function
=============================================================================
