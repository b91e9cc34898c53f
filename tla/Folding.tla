------------------------------- MODULE Folding -------------------------------
(***************************************************************************)
(* What the folds of the community modules compute: sums of a function     *)
(* over a finite set.                                                      *)
(*                                                                         *)
(* The provers cannot instantiate the library's induction theorems, whose  *)
(* parameter is an operator.  That strict inclusion of finite subsets is   *)
(* well founded is a fact about sets, so an induction is stated here as    *)
(* the choice of a least counterexample.                                   *)
(***************************************************************************)
EXTENDS Integers, FiniteSets, Functions, FiniteSetTheorems, WellFoundedInduction, TLAPS

(* A set of subsets of a finite set has one with no other member below it. *)
LEMMA LeastSubset ==
    ASSUME NEW S, IsFiniteSet(S), NEW T \in SUBSET SUBSET S, T # {}
    PROVE  \E least \in T : \A s \in T : s \subseteq least => s = least
<1>1. FiniteSubsetsOf(S) = SUBSET S
  BY FS_FiniteSubsetsOfFinite
<1>2. IsWellFoundedOn(StrictSubsetOrdering(S), SUBSET S)
  BY <1>1, FS_StrictSubsetOrderingWellFounded
<1>3. PICK least \in T : \A s \in T : ~(<<s, least>> \in StrictSubsetOrdering(S))
  BY <1>2, WFMin, Zenon
<1>4. ASSUME NEW s \in T, s \subseteq least PROVE s = least
  <2>1. s \in SUBSET S /\ least \in SUBSET S
    OBVIOUS
  <2>2. s # least => <<s, least>> \in StrictSubsetOrdering(S)
    BY <1>4, <2>1 DEF StrictSubsetOrdering
  <2> QED
    BY <1>3, <2>2
<1> QED
  BY <1>4

(* So what follows for a subset from all the smaller ones holds for all.   *)
Inductive(S, G) ==
    \A s \in SUBSET S : (\A r \in SUBSET s : r # s => r \in G) => s \in G

LEMMA SubsetInduction ==
    ASSUME NEW S, IsFiniteSet(S), NEW G, Inductive(S, G)
    PROVE  \A s \in SUBSET S : s \in G
<1> DEFINE bad == {s \in SUBSET S : s \notin G}
<1>1. SUFFICES ASSUME bad # {} PROVE FALSE
  OBVIOUS
<1>2. bad \in SUBSET SUBSET S
  OBVIOUS
<1>3. PICK least \in bad : \A s \in bad : s \subseteq least => s = least
  <2> HIDE DEF bad
  <2> QED
    BY <1>1, <1>2, LeastSubset
<1>4. \A r \in SUBSET least : r # least => r \in G
  BY <1>3
<1> QED
  BY <1>3, <1>4 DEF Inductive

(* The same over the natural numbers.                                      *)
LEMMA NatSetInduction ==
    ASSUME NEW G, 0 \in G, \A n \in Nat : n \in G => n + 1 \in G
    PROVE  Nat \subseteq G
<1> SUFFICES ASSUME NEW n \in Nat PROVE n \in G
  OBVIOUS
<1> DEFINE below(i) == 0..(i - 1)
           B == {s \in SUBSET (0..n) : \A i \in 0..n : s = below(i + 1) => \A j \in 0..i : j \in G}
<1>1. IsFiniteSet(0..n)
  BY FS_Interval
<1>2. ASSUME NEW s \in SUBSET (0..n), \A r \in SUBSET s : r # s => r \in B
      PROVE  s \in B
  <2>1. SUFFICES ASSUME NEW i \in 0..n, s = below(i + 1) PROVE \A j \in 0..i : j \in G
    OBVIOUS
  <2>2. CASE i = 0
    BY <2>2
  <2>3. CASE i # 0
    <3>1. below(i) \in SUBSET s /\ i \in s /\ i \notin below(i)
      BY <2>1, <2>3
    <3>2. below(i) \in B
      BY <1>2, <3>1
    <3>3. i - 1 \in 0..n /\ below(i) = below((i - 1) + 1)
      BY <2>3
    <3>4. \A j \in 0..(i - 1) : j \in G
      BY <3>2, <3>3
    <3>5. i \in G
      BY <2>3, <3>3, <3>4
    <3> QED
      BY <3>4, <3>5
  <2> QED
    BY <2>2, <2>3
<1>3. Inductive(0..n, B)
  BY <1>2 DEF Inductive
<1>4. 0..n \in B
  <2> HIDE DEF B
  <2> QED
    BY <1>1, <1>3, SubsetInduction
<1>5. 0..n = below(n + 1) /\ n \in 0..n
  OBVIOUS
<1> QED
  BY <1>4, <1>5

-----------------------------------------------------------------------------
(* Functions defined by recursion over the subsets of a set: each takes    *)
(* one picked element and what the function is without it.                 *)

Picks(pick, S) == \A s \in SUBSET S : s # {} => pick[s] \in s

Iterates(step, base, pick, S, t) ==
    \A s \in SUBSET S : t[s] = IF s = {} THEN base ELSE step[<<pick[s], t[s \ {pick[s]}]>>]

(* Two of them agree where both are defined.                               *)
LEMMA IterationsAgree ==
    ASSUME NEW S, IsFiniteSet(S), NEW R \in SUBSET S, NEW step, NEW base, NEW pick, Picks(pick, S),
           NEW t, Iterates(step, base, pick, S, t), NEW r, Iterates(step, base, pick, R, r)
    PROVE  \A s \in SUBSET R : t[s] = r[s]
<1> DEFINE G == {s \in SUBSET R : t[s] = r[s]}
<1>1. IsFiniteSet(R)
  BY FS_Subset
<1>2. ASSUME NEW s \in SUBSET R, \A u \in SUBSET s : u # s => u \in G
      PROVE  t[s] = r[s]
  <2>1. /\ s \in SUBSET S
        /\ t[s] = IF s = {} THEN base ELSE step[<<pick[s], t[s \ {pick[s]}]>>]
        /\ r[s] = IF s = {} THEN base ELSE step[<<pick[s], r[s \ {pick[s]}]>>]
    BY DEF Iterates
  <2>2. CASE s = {}
    BY <2>1, <2>2
  <2>3. CASE s # {}
    <3>1. pick[s] \in s
      BY <2>1, <2>3 DEF Picks
    <3>2. s \ {pick[s]} \in SUBSET s /\ s \ {pick[s]} # s
      BY <3>1
    <3>3. t[s \ {pick[s]}] = r[s \ {pick[s]}]
      BY <1>2, <3>2
    <3> QED
      BY <2>1, <2>3, <3>3
  <2> QED
    BY <2>2, <2>3
<1>3. Inductive(R, G)
  BY <1>2 DEF Inductive
<1>4. \A s \in SUBSET R : s \in G
  <2> HIDE DEF G
  <2> QED
    BY <1>1, <1>3, SubsetInduction
<1> QED
  BY <1>4

(* There is one for every step that keeps to a set of values.              *)
LEMMA IterationExists ==
    ASSUME NEW S, IsFiniteSet(S), NEW V, NEW base \in V, NEW step \in [S \X V -> V],
           NEW pick, Picks(pick, S)
    PROVE  \E t \in [SUBSET S -> V] : Iterates(step, base, pick, S, t)
<1> DEFINE Ok(s, t) == t \in [SUBSET s -> V] /\ Iterates(step, base, pick, s, t)
           G == {s \in SUBSET S : \E t : Ok(s, t)}
<1>1. ASSUME NEW s \in SUBSET S, \A u \in SUBSET s : u # s => u \in G
      PROVE  \E t : Ok(s, t)
  <2> DEFINE H == [r \in SUBSET s |-> CHOOSE t : Ok(r, t)]
             less(u) == u \ {pick[u]}
             t == [u \in SUBSET s |-> IF u = {} THEN base ELSE step[<<pick[u], H[less(u)][less(u)]>>]]
  <2>1. ASSUME NEW u \in SUBSET s, u # {}
        PROVE  pick[u] \in u /\ less(u) \in SUBSET s /\ less(u) # s /\ less(u) \in SUBSET u
    BY <2>1 DEF Picks
  <2>2. ASSUME NEW r \in SUBSET s, r # s
        PROVE  H[r] \in [SUBSET r -> V] /\ Iterates(step, base, pick, r, H[r])
    <3>1. \E x : Ok(r, x)
      BY <1>1, <2>2
    <3>2. H[r] = CHOOSE x : Ok(r, x)
      OBVIOUS
    <3>3. Ok(r, H[r])
      <4> HIDE DEF Ok, H
      <4> QED
        BY <3>1, <3>2
    <3> QED
      BY <3>3
  <2>3. ASSUME NEW v \in SUBSET s, v # s
        PROVE  t[v] = H[v][v]
    <3>1. H[v] \in [SUBSET v -> V] /\ Iterates(step, base, pick, v, H[v])
      BY <2>2, <2>3
    <3>2. H[v][v] = IF v = {} THEN base ELSE step[<<pick[v], H[v][less(v)]>>]
      BY <3>1 DEF Iterates
    <3>3. CASE v = {}
      BY <3>2, <3>3
    <3>4. CASE v # {}
      <4>1. less(v) \in SUBSET v /\ less(v) # s /\ less(v) \in SUBSET s
        BY <2>1, <3>4
      <4>2. Iterates(step, base, pick, less(v), H[less(v)])
        BY <2>2, <4>1
      <4>3. IsFiniteSet(v) /\ Picks(pick, v)
        BY FS_Subset DEF Picks
      <4>4. H[v][less(v)] = H[less(v)][less(v)]
        <5> HIDE DEF H, less
        <5> QED
          BY <3>1, <4>1, <4>2, <4>3, IterationsAgree
      <4>5. t[v] = step[<<pick[v], H[less(v)][less(v)]>>]
        BY <3>4
      <4> QED
        BY <3>2, <3>4, <4>4, <4>5
    <3> QED
      BY <3>3, <3>4
  <2>4. t \in [SUBSET s -> V]
    <3>1. ASSUME NEW u \in SUBSET s, u # {}
          PROVE  step[<<pick[u], H[less(u)][less(u)]>>] \in V
      <4>1. pick[u] \in S /\ less(u) \in SUBSET s /\ less(u) # s
        BY <2>1, <3>1
      <4>2. H[less(u)][less(u)] \in V
        BY <2>2, <4>1
      <4> HIDE DEF H, less
      <4> QED
        BY <4>1, <4>2
    <3> HIDE DEF H, less
    <3> QED
      BY <3>1
  <2>5. ASSUME NEW u \in SUBSET s
        PROVE  t[u] = IF u = {} THEN base ELSE step[<<pick[u], t[less(u)]>>]
    <3>1. t[u] = IF u = {} THEN base ELSE step[<<pick[u], H[less(u)][less(u)]>>]
      OBVIOUS
    <3>2. u # {} => t[less(u)] = H[less(u)][less(u)]
      BY <2>1, <2>3
    <3> HIDE DEF t, H, less
    <3> QED
      BY <3>1, <3>2
  <2>6. Iterates(step, base, pick, s, t)
    BY <2>5 DEF Iterates
  <2> QED
    BY <2>4, <2>6
<1>2. Inductive(S, G)
  BY <1>1 DEF Inductive
<1>3. S \in G
  <2> HIDE DEF G
  <2> QED
    BY <1>2, SubsetInduction
<1> QED
  BY <1>3

-----------------------------------------------------------------------------
(* Sums, as SumFunctionOnSet of the community modules defines them.        *)

(* A sum over a finite set takes its members one by one, in some order.    *)
AnyOf(s) == CHOOSE x \in s : TRUE
SumPick(S) == [s \in SUBSET S |-> AnyOf(s)]

Unrolls(f, S, t) ==
    t = [s \in SUBSET S |-> IF s = {} THEN 0 ELSE f[AnyOf(s)] + t[s \ {AnyOf(s)}]]

LEMMA SumIsUnrolled ==
    ASSUME NEW f, NEW S
    PROVE  SumFunctionOnSet(f, S) = (CHOOSE t : Unrolls(f, S, t))[S]
BY DEF SumFunctionOnSet, FoldFunctionOnSet, MapThenFoldSet, Unrolls, AnyOf

LEMMA SumUnrolls ==
    ASSUME NEW S, IsFiniteSet(S), NEW f, \A x \in S : f[x] \in Int
    PROVE  \E t \in [SUBSET S -> Int] : Unrolls(f, S, t)
<1> DEFINE step == [p \in S \X Int |-> f[p[1]] + p[2]]
           pick == SumPick(S)
<1>1. step \in [S \X Int -> Int]
  OBVIOUS
<1>2. Picks(pick, S)
  BY DEF Picks, SumPick, AnyOf
<1>3. PICK t \in [SUBSET S -> Int] : Iterates(step, 0, pick, S, t)
  <2> SUFFICES ASSUME NEW V, V = Int, NEW zero, zero = 0
               PROVE  \E t \in [SUBSET S -> V] : Iterates(step, zero, pick, S, t)
    OBVIOUS
  <2>1. zero \in V /\ step \in [S \X V -> V]
    BY <1>1
  <2> HIDE DEF step, pick
  <2> QED
    BY <1>2, <2>1, IterationExists, Zenon
<1>4. ASSUME NEW s \in SUBSET S
      PROVE  t[s] = IF s = {} THEN 0 ELSE f[AnyOf(s)] + t[s \ {AnyOf(s)}]
  <2>1. t[s] = IF s = {} THEN 0 ELSE step[<<pick[s], t[s \ {pick[s]}]>>]
    BY <1>3 DEF Iterates
  <2>2. pick[s] = AnyOf(s)
    BY DEF SumPick
  <2>3. ASSUME s # {} PROVE step[<<pick[s], t[s \ {pick[s]}]>>] = f[pick[s]] + t[s \ {pick[s]}]
    <3>1. pick[s] \in S /\ t[s \ {pick[s]}] \in Int
      BY <1>2, <1>3, <2>3 DEF Picks
    <3> HIDE DEF pick
    <3> QED
      BY <3>1
  <2> HIDE DEF step, pick
  <2> QED
    BY <2>1, <2>2, <2>3
<1>5. Unrolls(f, S, t)
  BY <1>3, <1>4 DEF Unrolls
<1> QED
  BY <1>5

(* Two tables agree where both are defined, for functions that agree there. *)
LEMMA UnrollsAgree ==
    ASSUME NEW S, NEW R \in SUBSET S, IsFiniteSet(R), NEW f, NEW g, \A x \in R : f[x] = g[x],
           NEW t, Unrolls(f, S, t), NEW r, Unrolls(g, R, r)
    PROVE  \A s \in SUBSET R : t[s] = r[s]
<1> DEFINE G == {s \in SUBSET R : t[s] = r[s]}
<1>1. ASSUME NEW s \in SUBSET R, \A u \in SUBSET s : u # s => u \in G
      PROVE  t[s] = r[s]
  <2>1. t[s] = IF s = {} THEN 0 ELSE f[AnyOf(s)] + t[s \ {AnyOf(s)}]
    <3>1. s \in SUBSET S
      OBVIOUS
    <3> QED
      BY <3>1, Zenon DEF Unrolls
  <2>2. r[s] = IF s = {} THEN 0 ELSE g[AnyOf(s)] + r[s \ {AnyOf(s)}]
    BY Zenon DEF Unrolls
  <2>3. CASE s = {}
    BY <2>1, <2>2, <2>3
  <2>4. CASE s # {}
    <3>1. AnyOf(s) \in s
      BY <2>4 DEF AnyOf
    <3>2. s \ {AnyOf(s)} \in SUBSET s /\ s \ {AnyOf(s)} # s
      BY <3>1
    <3>3. t[s \ {AnyOf(s)}] = r[s \ {AnyOf(s)}]
      BY <1>1, <3>2
    <3>4. f[AnyOf(s)] = g[AnyOf(s)]
      BY <3>1
    <3> QED
      BY <2>1, <2>2, <2>4, <3>3, <3>4
  <2> QED
    BY <2>3, <2>4
<1>2. Inductive(R, G)
  BY <1>1 DEF Inductive
<1>3. \A s \in SUBSET R : s \in G
  <2> HIDE DEF G
  <2> QED
    BY <1>2, SubsetInduction
<1> QED
  BY <1>3

(* The sum is the value of some table that unrolls it.                     *)
LEMMA SumTable ==
    ASSUME NEW S, IsFiniteSet(S), NEW f, \A x \in S : f[x] \in Int
    PROVE  \E t : /\ \A s \in SUBSET S : t[s] \in Int
                  /\ Unrolls(f, S, t)
                  /\ SumFunctionOnSet(f, S) = t[S]
<1> DEFINE t == CHOOSE t : Unrolls(f, S, t)
<1>1. PICK r \in [SUBSET S -> Int] : Unrolls(f, S, r)
  BY SumUnrolls
<1>2. Unrolls(f, S, t)
  BY <1>1
<1>3. SumFunctionOnSet(f, S) = t[S]
  BY SumIsUnrolled
<1>4. \A s \in SUBSET S : t[s] = r[s]
  <2> HIDE DEF t
  <2>1. S \in SUBSET S
    OBVIOUS
  <2> QED
    BY <1>1, <1>2, <2>1, UnrollsAgree
<1> HIDE DEF t
<1> QED
  BY <1>1, <1>2, <1>3, <1>4

-----------------------------------------------------------------------------
(* The facts about sums that the proofs cite.                              *)

Sum(f, S) == SumFunctionOnSet(f, S)

LEMMA SumInt ==
    ASSUME NEW S, IsFiniteSet(S), NEW f, \A x \in S : f[x] \in Int
    PROVE  Sum(f, S) \in Int
BY SumTable DEF Sum

LEMMA SumEmpty ==
    ASSUME NEW f
    PROVE  Sum(f, {}) = 0
<1>1. PICK t : Unrolls(f, {}, t) /\ SumFunctionOnSet(f, {}) = t[{}]
  BY SumTable, FS_EmptySet
<1>2. t[{}] = 0
  BY <1>1 DEF Unrolls
<1> QED
  BY <1>1, <1>2 DEF Sum

(* Functions that agree have one sum.                                      *)
LEMMA SumSame ==
    ASSUME NEW S, IsFiniteSet(S), NEW f, \A x \in S : f[x] \in Int,
           NEW g, \A x \in S : g[x] = f[x]
    PROVE  Sum(g, S) = Sum(f, S)
<1>1. PICK t : Unrolls(f, S, t) /\ SumFunctionOnSet(f, S) = t[S]
  BY SumTable
<1>2. PICK r : Unrolls(g, S, r) /\ SumFunctionOnSet(g, S) = r[S]
  <2>1. \A x \in S : g[x] \in Int
    OBVIOUS
  <2> QED
    BY <2>1, SumTable
<1>3. S \in SUBSET S
  OBVIOUS
<1>4. \A s \in SUBSET S : t[s] = r[s]
  BY <1>1, <1>2, <1>3, UnrollsAgree
<1> QED
  BY <1>1, <1>2, <1>3, <1>4 DEF Sum

(* A sum without the element that is taken first.                          *)
LEMMA SumStep ==
    ASSUME NEW S, IsFiniteSet(S), NEW f, \A x \in S : f[x] \in Int, S # {}
    PROVE  /\ AnyOf(S) \in S
           /\ Sum(f, S) = f[AnyOf(S)] + Sum(f, S \ {AnyOf(S)})
<1> DEFINE rest == S \ {AnyOf(S)}
<1>1. AnyOf(S) \in S
  BY DEF AnyOf
<1>2. PICK t : Unrolls(f, S, t) /\ SumFunctionOnSet(f, S) = t[S]
  BY SumTable
<1>3. t[S] = f[AnyOf(S)] + t[rest]
  <2>1. S \in SUBSET S
    OBVIOUS
  <2> QED
    BY <1>2, <2>1, Zenon DEF Unrolls
<1>4. rest \in SUBSET S /\ IsFiniteSet(rest) /\ \A x \in rest : f[x] \in Int
  BY FS_Subset
<1>5. PICK r : Unrolls(f, rest, r) /\ SumFunctionOnSet(f, rest) = r[rest]
  <2> HIDE DEF rest
  <2> QED
    BY <1>4, SumTable
<1>6. t[rest] = r[rest]
  <2>1. \A s \in SUBSET rest : t[s] = r[s]
    <3> HIDE DEF rest
    <3> QED
      BY <1>2, <1>4, <1>5, UnrollsAgree
  <2> QED
    BY <2>1
<1> QED
  BY <1>1, <1>2, <1>3, <1>5, <1>6 DEF Sum

(* Nothing but zeros. *)
LEMMA SumZero ==
    ASSUME NEW S, IsFiniteSet(S), NEW f, \A x \in S : f[x] = 0
    PROVE  Sum(f, S) = 0
<1> DEFINE G == {s \in SUBSET S : Sum(f, s) = 0}
<1>1. ASSUME NEW s \in SUBSET S, \A u \in SUBSET s : u # s => u \in G
      PROVE  Sum(f, s) = 0
  <2>1. CASE s = {}
    BY <2>1, SumEmpty
  <2>2. CASE s # {}
    <3> DEFINE rest == s \ {AnyOf(s)}
    <3>1. IsFiniteSet(s) /\ \A x \in s : f[x] \in Int
      BY FS_Subset
    <3>2. AnyOf(s) \in s /\ Sum(f, s) = f[AnyOf(s)] + Sum(f, rest)
      BY <2>2, <3>1, SumStep
    <3>3. rest \in SUBSET s /\ rest # s
      BY <3>2
    <3>4. Sum(f, rest) = 0
      BY <1>1, <3>3
    <3> QED
      BY <3>2, <3>4
  <2> QED
    BY <2>1, <2>2
<1>2. Inductive(S, G)
  BY <1>1 DEF Inductive
<1>3. S \in SUBSET S
  OBVIOUS
<1> HIDE DEF G
<1>4. S \in G
  BY <1>2, <1>3, SubsetInduction
<1> QED
  BY <1>4 DEF G

(* So without any of its elements.                                         *)
LEMMA SumPoint ==
    ASSUME NEW S, IsFiniteSet(S), NEW f, \A x \in S : f[x] \in Int, NEW x \in S
    PROVE  Sum(f, S) = f[x] + Sum(f, S \ {x})
<1> DEFINE G == {s \in SUBSET S : \A e \in s : Sum(f, s) = f[e] + Sum(f, s \ {e})}
<1>1. ASSUME NEW s \in SUBSET S, \A u \in SUBSET s : u # s => u \in G, NEW e \in s
      PROVE  Sum(f, s) = f[e] + Sum(f, s \ {e})
  <2> DEFINE any == AnyOf(s)
  <2>1. IsFiniteSet(s) /\ \A z \in s : f[z] \in Int
    BY FS_Subset
  <2>2. any \in s /\ Sum(f, s) = f[any] + Sum(f, s \ {any})
    BY <2>1, SumStep
  <2> HIDE DEF any
  <2>3. CASE e = any
    BY <2>2, <2>3
  <2>4. CASE e # any
    <3> DEFINE both == s \ {e, any}
    <3>1. s \ {any} \in G /\ s \ {e} \in G
      BY <1>1, <2>2
    <3>2. (s \ {any}) \ {e} = both /\ (s \ {e}) \ {any} = both /\ e \in s \ {any} /\ any \in s \ {e}
      BY <2>2, <2>4
    <3>3. Sum(f, s \ {any}) = f[e] + Sum(f, both) /\ Sum(f, s \ {e}) = f[any] + Sum(f, both)
      BY <3>1, <3>2
    <3>4. f[e] \in Int /\ f[any] \in Int /\ Sum(f, both) \in Int
      <4>1. IsFiniteSet(both) /\ \A z \in both : f[z] \in Int
        BY <2>1, FS_Subset
      <4> HIDE DEF both
      <4> QED
        BY <2>1, <2>2, <4>1, SumInt
    <3> HIDE DEF both
    <3> QED
      BY <2>2, <3>3, <3>4
  <2> QED
    BY <2>3, <2>4
<1>2. Inductive(S, G)
  BY <1>1 DEF Inductive
<1>3. S \in G
  <2> HIDE DEF G
  <2> QED
    BY <1>2, SubsetInduction
<1> QED
  BY <1>3

LEMMA SumNat ==
    ASSUME NEW S, IsFiniteSet(S), NEW f, \A x \in S : f[x] \in Nat
    PROVE  Sum(f, S) \in Nat
<1> DEFINE G == {s \in SUBSET S : Sum(f, s) \in Nat}
<1>1. ASSUME NEW s \in SUBSET S, \A u \in SUBSET s : u # s => u \in G
      PROVE  Sum(f, s) \in Nat
  <2>1. CASE s = {}
    BY <2>1, SumEmpty
  <2>2. CASE s # {}
    <3>1. PICK x : x \in s
      BY <2>2
    <3>2. IsFiniteSet(s) /\ \A z \in s : f[z] \in Int
      BY FS_Subset
    <3>3. Sum(f, s) = f[x] + Sum(f, s \ {x})
      BY <3>1, <3>2, SumPoint
    <3>4. s \ {x} \in G
      BY <1>1, <3>1
    <3> QED
      BY <3>1, <3>3, <3>4
  <2> QED
    BY <2>1, <2>2
<1>2. Inductive(S, G)
  BY <1>1 DEF Inductive
<1>3. S \in G
  <2> HIDE DEF G
  <2> QED
    BY <1>2, SubsetInduction
<1> QED
  BY <1>3

(* The sum of a part and that of the rest.                                 *)
LEMMA SumSplit ==
    ASSUME NEW S, IsFiniteSet(S), NEW f, \A x \in S : f[x] \in Int, NEW A \in SUBSET S
    PROVE  Sum(f, S) = Sum(f, A) + Sum(f, S \ A)
<1> DEFINE G == {s \in SUBSET A : Sum(f, S) = Sum(f, s) + Sum(f, S \ s)}
<1>1. ASSUME NEW s \in SUBSET A, \A u \in SUBSET s : u # s => u \in G
      PROVE  Sum(f, S) = Sum(f, s) + Sum(f, S \ s)
  <2>1. CASE s = {}
    <3>1. S \ s = S /\ Sum(f, S) \in Int
      BY <2>1, SumInt
    <3> QED
      BY <2>1, <3>1, SumEmpty
  <2>2. CASE s # {}
    <3>1. PICK x : x \in s
      BY <2>2
    <3> DEFINE less == s \ {x}
               more == S \ less
    <3>2. /\ IsFiniteSet(s) /\ IsFiniteSet(less) /\ IsFiniteSet(more) /\ IsFiniteSet(S \ s)
          /\ \A z \in s : f[z] \in Int
      BY FS_Subset
    <3>3. Sum(f, s) = f[x] + Sum(f, less)
      BY <3>1, <3>2, SumPoint
    <3>4. x \in more /\ more \ {x} = S \ s /\ \A z \in more : f[z] \in Int
      BY <3>1
    <3>5. Sum(f, more) = f[x] + Sum(f, S \ s)
      <4>1. Sum(f, more) = f[x] + Sum(f, more \ {x})
        <5> HIDE DEF more
        <5> QED
          BY <3>2, <3>4, SumPoint
      <4> QED
        BY <3>4, <4>1
    <3>6. Sum(f, S) = Sum(f, less) + Sum(f, more)
      <4>1. less \in G
        BY <1>1, <3>1
      <4> QED
        BY <4>1
    <3>7. Sum(f, less) \in Int /\ Sum(f, S \ s) \in Int /\ f[x] \in Int
      <4>1. (\A z \in less : f[z] \in Int) /\ \A z \in S \ s : f[z] \in Int
        OBVIOUS
      <4> HIDE DEF less
      <4> QED
        BY <3>1, <3>2, <4>1, SumInt
    <3> HIDE DEF less, more
    <3> QED
      BY <3>3, <3>5, <3>6, <3>7
  <2> QED
    BY <2>1, <2>2
<1>2. Inductive(A, G)
  BY <1>1 DEF Inductive
<1>3. A \in G
  <2>1. IsFiniteSet(A)
    BY FS_Subset
  <2> HIDE DEF G
  <2> QED
    BY <1>2, <2>1, SubsetInduction
<1> QED
  BY <1>3

(* Functions that differ at one element.                                   *)
LEMMA SumChange ==
    ASSUME NEW S, IsFiniteSet(S), NEW f, \A x \in S : f[x] \in Int,
           NEW e \in S, NEW g, g[e] \in Int, \A x \in S \ {e} : g[x] = f[x]
    PROVE  Sum(g, S) = Sum(f, S) + g[e] - f[e]
<1>1. \A x \in S : g[x] \in Int
  OBVIOUS
<1>2. Sum(f, S) = f[e] + Sum(f, S \ {e}) /\ Sum(g, S) = g[e] + Sum(g, S \ {e})
  BY <1>1, SumPoint
<1>3. IsFiniteSet(S \ {e}) /\ \A x \in S \ {e} : f[x] \in Int
  BY FS_Subset
<1> DEFINE rest == S \ {e}
<1>4. Sum(g, rest) = Sum(f, rest) /\ Sum(f, rest) \in Int
  <2>1. \A x \in rest : g[x] = f[x]
    OBVIOUS
  <2> HIDE DEF rest
  <2>2. IsFiniteSet(rest) /\ \A x \in rest : f[x] \in Int
    BY <1>3 DEF rest
  <2> QED
    BY <2>1, <2>2, SumSame, SumInt
<1> QED
  BY <1>2, <1>4

(* The difference of two functions, element by element.                    *)
LEMMA SumDifference ==
    ASSUME NEW S, IsFiniteSet(S), NEW f, \A x \in S : f[x] \in Int, NEW g, \A x \in S : g[x] \in Int,
           NEW h, \A x \in S : h[x] = f[x] - g[x]
    PROVE  Sum(h, S) = Sum(f, S) - Sum(g, S)
<1> DEFINE G == {s \in SUBSET S : Sum(h, s) = Sum(f, s) - Sum(g, s)}
<1>1. ASSUME NEW s \in SUBSET S, \A u \in SUBSET s : u # s => u \in G
      PROVE  Sum(h, s) = Sum(f, s) - Sum(g, s)
  <2>1. CASE s = {}
    BY <2>1, SumEmpty
  <2>2. CASE s # {}
    <3>1. PICK x : x \in s
      BY <2>2
    <3> DEFINE less == s \ {x}
    <3>2. /\ IsFiniteSet(s) /\ IsFiniteSet(less)
          /\ \A z \in s : f[z] \in Int /\ g[z] \in Int /\ h[z] \in Int
      BY FS_Subset
    <3>3. /\ Sum(f, s) = f[x] + Sum(f, less) /\ Sum(g, s) = g[x] + Sum(g, less)
          /\ Sum(h, s) = h[x] + Sum(h, less)
      BY <3>1, <3>2, SumPoint
    <3>4. Sum(h, less) = Sum(f, less) - Sum(g, less)
      <4>1. less \in G
        BY <1>1, <3>1
      <4> QED
        BY <4>1
    <3>5. Sum(f, less) \in Int /\ Sum(g, less) \in Int
      <4>1. \A z \in less : f[z] \in Int /\ g[z] \in Int
        BY <3>2
      <4> HIDE DEF less
      <4> QED
        BY <3>2, <4>1, SumInt
    <3>6. f[x] \in Int /\ g[x] \in Int /\ h[x] = f[x] - g[x]
      BY <3>1
    <3> HIDE DEF less
    <3> QED
      BY <3>3, <3>4, <3>5, <3>6
  <2> QED
    BY <2>1, <2>2
<1>2. Inductive(S, G)
  BY <1>1 DEF Inductive
<1>3. S \in G
  <2> HIDE DEF G
  <2> QED
    BY <1>2, SubsetInduction
<1> QED
  BY <1>3

(* The same values under other names.                                      *)
Renames(b, S) == \A x, y \in S : b[x] = b[y] => x = y

LEMMA SumRenamed ==
    ASSUME NEW S, IsFiniteSet(S), NEW f, \A x \in S : f[x] \in Int,
           NEW b, Renames(b, S), NEW g, \A x \in S : g[b[x]] = f[x]
    PROVE  Sum(g, {b[x] : x \in S}) = Sum(f, S)
<1> DEFINE Named(s) == {b[x] : x \in s}
           G == {s \in SUBSET S : IsFiniteSet(Named(s)) /\ Sum(g, Named(s)) = Sum(f, s)}
<1>1. ASSUME NEW s \in SUBSET S, \A u \in SUBSET s : u # s => u \in G
      PROVE  IsFiniteSet(Named(s)) /\ Sum(g, Named(s)) = Sum(f, s)
  <2>1. CASE s = {}
    <3>1. Named(s) = {}
      BY <2>1
    <3> HIDE DEF Named
    <3> QED
      BY <2>1, <3>1, SumEmpty, FS_EmptySet
  <2>2. CASE s # {}
    <3>1. PICK x : x \in s
      BY <2>2
    <3> DEFINE less == s \ {x}
    <3>2. IsFiniteSet(s) /\ \A z \in s : f[z] \in Int
      BY FS_Subset
    <3>3. Sum(f, s) = f[x] + Sum(f, less)
      BY <3>1, <3>2, SumPoint
    <3>4. IsFiniteSet(Named(s)) /\ b[x] \in Named(s) /\ \A z \in Named(s) : g[z] \in Int
      <4>1. IsFiniteSet(Named(less))
        BY <1>1, <3>1
      <4>2. Named(s) = Named(less) \cup {b[x]}
        BY <3>1
      <4>3. \A z \in Named(s) : g[z] \in Int
        BY <3>2
      <4>4. IsFiniteSet(Named(less) \cup {b[x]})
        <5> HIDE DEF Named
        <5> QED
          BY <4>1, FS_AddElement
      <4> QED
        BY <4>2, <4>3, <4>4
    <3>5. Named(s) \ {b[x]} = Named(less)
      BY <3>1 DEF Renames
    <3>6. Sum(g, Named(s)) = g[b[x]] + Sum(g, Named(less))
      <4>1. Sum(g, Named(s)) = g[b[x]] + Sum(g, Named(s) \ {b[x]})
        <5> HIDE DEF Named
        <5> QED
          BY <3>4, SumPoint
      <4> QED
        BY <3>5, <4>1
    <3>7. Sum(g, Named(less)) = Sum(f, less)
      <4>1. less \in G
        BY <1>1, <3>1
      <4> QED
        BY <4>1
    <3>8. g[b[x]] = f[x]
      BY <3>1
    <3> QED
      BY <3>3, <3>4, <3>6, <3>7, <3>8
  <2> QED
    BY <2>1, <2>2
<1>2. Inductive(S, G)
  BY <1>1 DEF Inductive
<1>3. S \in G
  <2> HIDE DEF G
  <2> QED
    BY <1>2, SubsetInduction
<1> QED
  BY <1>3

\* A set of numbers has a least one.
LEMMA LeastNumber ==
    ASSUME NEW S \in SUBSET Nat, S # {}
    PROVE  \E x \in S : \A y \in S : x <= y
<1> SUFFICES ASSUME \A x \in S : \E y \in S : y < x PROVE FALSE
    OBVIOUS
<1> DEFINE G == {n \in Nat : \A x \in S : x > n}
<1>1. 0 \in G
    BY Z3
<1>2. ASSUME NEW n \in Nat, n \in G PROVE n + 1 \in G
    <2> SUFFICES ASSUME NEW x \in S PROVE x > n + 1
        OBVIOUS
    <2>1. PICK y \in S : y < x
        OBVIOUS
    <2>2. y > n
        BY <1>2
    <2> QED
        BY <2>1, <2>2
<1> HIDE DEF G
<1>3. Nat \subseteq G
    BY <1>1, <1>2, NatSetInduction
<1>4. PICK x \in S : TRUE
    OBVIOUS
<1>5. x \in G /\ x \in Nat
    BY <1>3
<1> QED
    BY <1>4, <1>5 DEF G
=============================================================================
