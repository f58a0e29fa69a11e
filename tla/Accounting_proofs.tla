-------------------------- MODULE Accounting_proofs --------------------------
(***************************************************************************)
(* Traffic accounting for any number of peers and requests, any limits,    *)
(* any reset intervals and any clock: no byte is billed twice, what Xray   *)
(* carries is billed as Ledger promises, every counter stays within its    *)
(* type, and a user whom an administrator has disabled stays disabled.     *)
(*                                                                         *)
(* The sums over peers and workers are recursive functions on the subsets  *)
(* of a finite set.  What they satisfy is shown by minimal                 *)
(* counterexamples: strict inclusion is well founded on those subsets.     *)
(***************************************************************************)
EXTENDS Accounting, FiniteSetTheorems, TLAPS

-----------------------------------------------------------------------------
(* Sums over finite sets. *)

(* What sums f over the subsets of S, as Total does.                        *)
Sums(f, g, S) ==
  g = [T \in SUBSET S |-> IF T = {} THEN 0
                          ELSE LET x == CHOOSE x \in T : TRUE IN f[x] + g[T \ {x}]]

SumOver(f, S) == (CHOOSE g : Sums(f, g, S))[S]

LEMMA TotalIsSum == ASSUME NEW f PROVE Total(f) = SumOver(f, DOMAIN f)
  BY DEF Total, SumOver, Sums

(* A family of subsets of a finite set has all of them if it has each one   *)
(* whose proper subsets it has.                                             *)
LEMMA SubsetInduction ==
  ASSUME NEW D, IsFiniteSet(D), NEW Good,
         \A S \in SUBSET D : (\A T \in SUBSET S : T # S => T \in Good) => S \in Good
  PROVE  \A S \in SUBSET D : S \in Good
<1> DEFINE Bad == (SUBSET D) \ Good
<1>1. SUFFICES ASSUME Bad # {} PROVE FALSE
  OBVIOUS
<1>2. IsWellFoundedOn(StrictSubsetOrdering(D), SUBSET D)
  BY FS_StrictSubsetOrderingWellFounded, FS_FiniteSubsetsOfFinite
<1>3. PICK S \in Bad : \A T \in Bad : <<T, S>> \notin StrictSubsetOrdering(D)
  <2>. HIDE DEF Bad
  <2>1. Bad \subseteq SUBSET D
    BY DEF Bad
  <2>. QED  BY <1>1, <1>2, <2>1, WFMin
<1>4. ASSUME NEW T \in SUBSET S, T # S PROVE T \in Good
  <2>1. <<T, S>> \in StrictSubsetOrdering(D)
    BY <1>4 DEF StrictSubsetOrdering
  <2>. QED  BY <1>3, <1>4, <2>1
<1>5. S \in SUBSET D /\ S \notin Good
  OBVIOUS
<1>6. S \in Good
  BY <1>4, <1>5
<1>. QED  BY <1>5, <1>6

LEMMA SumsAt ==
  ASSUME NEW f, NEW g, NEW S, Sums(f, g, S), NEW T \in SUBSET S
  PROVE  /\ T = {} => g[T] = 0
         /\ T # {} => \E x \in T : x = (CHOOSE y \in T : TRUE) /\ g[T] = f[x] + g[T \ {x}]
<1> DEFINE x == CHOOSE y \in T : TRUE
<1>1. T # {} => x \in T
  OBVIOUS
<1> DEFINE v(U) == IF U = {} THEN 0 ELSE LET y == CHOOSE y \in U : TRUE IN f[y] + g[U \ {y}]
<1>2. g = [U \in SUBSET S |-> v(U)]
  BY DEF Sums
<1>3. g[T] = v(T)
  <2>. HIDE DEF v
  <2>. QED  BY <1>2
<1>. QED  BY <1>1, <1>3

(* There is at most one such function, and its values do not depend on S.   *)
LEMMA SumsAgree ==
  ASSUME NEW D, IsFiniteSet(D), NEW f, NEW g, NEW h, NEW S, NEW T,
         Sums(f, g, S), Sums(f, h, T), D \subseteq S, D \subseteq T
  PROVE  g[D] = h[D]
<1> DEFINE Good == {U \in SUBSET D : g[U] = h[U]}
<1>1. ASSUME NEW U \in SUBSET D, \A V \in SUBSET U : V # U => V \in Good PROVE U \in Good
  <2>1. U \in SUBSET S /\ U \in SUBSET T
    OBVIOUS
  <2>2. CASE U = {}
    BY <2>1, <2>2, SumsAt
  <2>3. CASE U # {}
    <3>1. \E x \in U : x = (CHOOSE y \in U : TRUE) /\ g[U] = f[x] + g[U \ {x}]
      BY <2>1, <2>3, SumsAt
    <3>2. \E x \in U : x = (CHOOSE y \in U : TRUE) /\ h[U] = f[x] + h[U \ {x}]
      BY <2>1, <2>3, SumsAt
    <3>3. PICK x \in U : /\ x = (CHOOSE y \in U : TRUE)
                         /\ g[U] = f[x] + g[U \ {x}] /\ h[U] = f[x] + h[U \ {x}]
      BY <3>1, <3>2
    <3>4. g[U \ {x}] = h[U \ {x}]
      BY <1>1
    <3>. QED  BY <3>3, <3>4
  <2>. QED  BY <2>2, <2>3
<1>2. \A U \in SUBSET D : U \in Good
  <2>. HIDE DEF Good
  <2>. QED  BY <1>1, SubsetInduction
<1>. QED  BY <1>2

(* And there is one, when S is finite.                                      *)
LEMMA SumsExist ==
  ASSUME NEW D, IsFiniteSet(D), NEW f
  PROVE  \A S \in SUBSET D : \E g : Sums(f, g, S)
<1> DEFINE Good == {S \in SUBSET D : \E g : Sums(f, g, S)}
<1>1. ASSUME NEW S \in SUBSET D, \A T \in SUBSET S : T # S => T \in Good PROVE S \in Good
  <2> DEFINE first(U) == CHOOSE y \in U : TRUE
             v(U) == IF U = {} THEN 0 ELSE f[first(U)] + SumOver(f, U \ {first(U)})
             g == [U \in SUBSET S |-> v(U)]
  <2>1. ASSUME NEW U \in SUBSET S, U # S PROVE Sums(f, CHOOSE h : Sums(f, h, U), U)
    <3>1. \E h : Sums(f, h, U)
      BY <1>1, <2>1
    <3>. QED  BY <3>1
  <2>2. ASSUME NEW U \in SUBSET S, U # S PROVE SumOver(f, U) = v(U)
    <3> DEFINE h == CHOOSE h : Sums(f, h, U)
    <3>1. Sums(f, h, U) /\ SumOver(f, U) = h[U]
      BY <2>1, <2>2 DEF SumOver
    <3>. HIDE DEF h
    <3>2. CASE U = {}
      BY <3>1, <3>2, SumsAt
    <3>3. CASE U # {}
      <4>1. PICK x \in U : x = first(U) /\ h[U] = f[x] + h[U \ {x}]
        <5>1. U \in SUBSET U
          OBVIOUS
        <5>2. \E x \in U : x = (CHOOSE y \in U : TRUE) /\ h[U] = f[x] + h[U \ {x}]
          BY <3>1, <3>3, <5>1, SumsAt
        <5>. QED  BY <5>2
      <4> DEFINE W == U \ {x}
                 k == CHOOSE k : Sums(f, k, W)
      <4>2. W \in SUBSET S /\ W # S /\ W \subseteq U /\ W \subseteq W /\ W \subseteq D
        OBVIOUS
      <4>3. Sums(f, k, W) /\ SumOver(f, W) = k[W]
        BY <2>1, <4>2 DEF SumOver
      <4>4. IsFiniteSet(W)
        BY <4>2, FS_Subset
      <4>. HIDE DEF W, k
      <4>5. h[W] = k[W]
        BY <3>1, <4>2, <4>3, <4>4, SumsAgree
      <4>. QED  BY <3>1, <3>3, <4>1, <4>3, <4>5 DEF W
    <3>. QED  BY <3>2, <3>3
  <2>3. ASSUME NEW U \in SUBSET S, U # {} PROVE g[U \ {first(U)}] = SumOver(f, U \ {first(U)})
    <3> DEFINE W == U \ {first(U)}
    <3>1. first(U) \in U
      BY <2>3
    <3>. HIDE DEF first
    <3>2. W \in SUBSET S /\ W # S
      BY <3>1
    <3>. HIDE DEF W, v
    <3>3. g[W] = v(W)
      BY <3>2
    <3>. QED  BY <2>2, <3>2, <3>3 DEF W
  <2>4. ASSUME NEW U \in SUBSET S
        PROVE  v(U) = IF U = {} THEN 0 ELSE f[first(U)] + g[U \ {first(U)}]
    <3>. HIDE DEF g, first
    <3>. QED  BY <2>3, <2>4
  <2>5. Sums(f, g, S)
    <3>1. g = [U \in SUBSET S |-> IF U = {} THEN 0 ELSE f[first(U)] + g[U \ {first(U)}]]
      <4> DEFINE w(U) == IF U = {} THEN 0 ELSE f[first(U)] + g[U \ {first(U)}]
      <4>1. \A U \in SUBSET S : v(U) = w(U)
        BY <2>4
      <4>. HIDE DEF v, w
      <4>2. g = [U \in SUBSET S |-> w(U)]
        BY <4>1
      <4>. QED  BY <4>2 DEF w
    <3>. HIDE DEF g
    <3>. QED  BY <3>1 DEF Sums
  <2>. QED  BY <2>5
<1>2. \A S \in SUBSET D : S \in Good
  <2>. HIDE DEF Good
  <2>. QED  BY <1>1, SubsetInduction
<1>. QED  BY <1>2

(* What the sum over a set is, one chosen element at a time.                *)
LEMMA SumStep ==
  ASSUME NEW f, NEW S, IsFiniteSet(S)
  PROVE  /\ S = {} => SumOver(f, S) = 0
         /\ S # {} => \E x \in S : SumOver(f, S) = f[x] + SumOver(f, S \ {x})
<1> DEFINE g == CHOOSE g : Sums(f, g, S)
<1>1. Sums(f, g, S) /\ SumOver(f, S) = g[S]
  <2>1. \E h : Sums(f, h, S)
    BY SumsExist, S \in SUBSET S
  <2>. QED  BY <2>1 DEF SumOver
<1>. HIDE DEF g
<1>2. CASE S = {}
  BY <1>1, <1>2, SumsAt
<1>3. CASE S # {}
  <2>1. PICK x \in S : g[S] = f[x] + g[S \ {x}]
    <3>1. S \in SUBSET S
      OBVIOUS
    <3>2. \E x \in S : x = (CHOOSE y \in S : TRUE) /\ g[S] = f[x] + g[S \ {x}]
      BY <1>1, <1>3, <3>1, SumsAt
    <3>. QED  BY <3>2
  <2> DEFINE W == S \ {x}
             k == CHOOSE k : Sums(f, k, W)
  <2>2. W \subseteq S /\ W \subseteq W /\ IsFiniteSet(W)
    BY FS_Subset
  <2>3. Sums(f, k, W) /\ SumOver(f, W) = k[W]
    <3>1. \E h : Sums(f, h, W)
      BY <2>2, SumsExist
    <3>. QED  BY <3>1 DEF SumOver
  <2>. HIDE DEF W, k
  <2>4. g[W] = k[W]
    BY <1>1, <2>2, <2>3, SumsAgree
  <2>. QED  BY <1>1, <2>1, <2>3, <2>4 DEF W
<1>. QED  BY <1>2, <1>3

(* The order does not matter: any element may be taken out.                 *)
LEMMA SumOut ==
  ASSUME NEW D, IsFiniteSet(D), NEW f \in [D -> Int]
  PROVE  \A S \in SUBSET D : /\ SumOver(f, S) \in Int
                            /\ \A x \in S : SumOver(f, S) = f[x] + SumOver(f, S \ {x})
<1> DEFINE Fine(S) == /\ SumOver(f, S) \in Int
                      /\ \A x \in S : SumOver(f, S) = f[x] + SumOver(f, S \ {x})
           Good == {S \in SUBSET D : Fine(S)}
<1>1. ASSUME NEW S \in SUBSET D, \A T \in SUBSET S : T # S => T \in Good PROVE S \in Good
  <2>1. CASE S = {}
    BY <2>1, FS_EmptySet, SumStep
  <2>2. CASE S # {}
    <3>1. IsFiniteSet(S)
      BY FS_Subset
    <3>2. PICK y \in S : SumOver(f, S) = f[y] + SumOver(f, S \ {y})
      BY <2>2, <3>1, SumStep
    <3>3. ASSUME NEW x \in S
          PROVE  /\ SumOver(f, S \ {x}) \in Int
                 /\ \A z \in S \ {x} : SumOver(f, S \ {x}) = f[z] + SumOver(f, (S \ {x}) \ {z})
      <4>1. S \ {x} \in SUBSET S /\ S \ {x} # S
        OBVIOUS
      <4>. QED  BY <1>1, <4>1
    <3>4. SumOver(f, S) \in Int
      BY <3>2, <3>3
    <3>5. ASSUME NEW x \in S, x # y PROVE SumOver(f, S) = f[x] + SumOver(f, S \ {x})
      <4>1. /\ SumOver(f, S \ {y}) = f[x] + SumOver(f, (S \ {y}) \ {x})
            /\ SumOver(f, S \ {x}) = f[y] + SumOver(f, (S \ {x}) \ {y})
        BY <3>3, <3>5
      <4>2. (S \ {y}) \ {x} = (S \ {x}) \ {y}
        OBVIOUS
      <4>3. SumOver(f, (S \ {x}) \ {y}) \in Int
        <5>1. (S \ {x}) \ {y} \in SUBSET S /\ (S \ {x}) \ {y} # S
          OBVIOUS
        <5>. QED  BY <1>1, <5>1
      <4>4. f[x] \in Int /\ f[y] \in Int
        OBVIOUS
      <4> DEFINE rest == SumOver(f, (S \ {x}) \ {y})
      <4>5. SumOver(f, S \ {y}) = f[x] + rest /\ SumOver(f, S \ {x}) = f[y] + rest
        BY <4>1, <4>2
      <4>6. rest \in Int
        BY <4>3
      <4>. HIDE DEF rest
      <4>. QED  BY <3>2, <4>4, <4>5, <4>6
    <3>. QED  BY <3>2, <3>4, <3>5
  <2>. QED  BY <2>1, <2>2
<1>2. \A S \in SUBSET D : S \in Good
  <2>. HIDE DEF Good
  <2>. QED  BY <1>1, SubsetInduction
<1>. QED  BY <1>2

(* Sums compare as their terms do.                                          *)
LEMMA SumMonotone ==
  ASSUME NEW D, IsFiniteSet(D), NEW f \in [D -> Int], NEW E, IsFiniteSet(E), NEW g \in [E -> Int]
  PROVE  \A S \in SUBSET (D \cap E) :
           (\A x \in S : f[x] <= g[x]) => SumOver(f, S) <= SumOver(g, S)
<1> DEFINE B == D \cap E
           Fine(S) == (\A x \in S : f[x] <= g[x]) => SumOver(f, S) <= SumOver(g, S)
           Good == {S \in SUBSET B : Fine(S)}
<1>1. ASSUME NEW S \in SUBSET B, \A T \in SUBSET S : T # S => T \in Good PROVE S \in Good
  <2>1. CASE S = {}
    <3>1. SumOver(f, S) = 0 /\ SumOver(g, S) = 0
      BY <2>1, FS_EmptySet, SumStep
    <3>. QED  BY <3>1
  <2>2. CASE S # {}
    <3>1. PICK x \in S : TRUE
      BY <2>2
    <3>2. SumOver(f, S) = f[x] + SumOver(f, S \ {x}) /\ SumOver(f, S \ {x}) \in Int
      <4>1. S \in SUBSET D /\ S \ {x} \in SUBSET D
        OBVIOUS
      <4>. QED  BY <4>1, SumOut
    <3>3. SumOver(g, S) = g[x] + SumOver(g, S \ {x}) /\ SumOver(g, S \ {x}) \in Int
      <4>1. S \in SUBSET E /\ S \ {x} \in SUBSET E
        OBVIOUS
      <4>. QED  BY <4>1, SumOut
    <3>4. Fine(S \ {x})
      <4>1. S \ {x} \in SUBSET S /\ S \ {x} # S
        OBVIOUS
      <4>. QED  BY <1>1, <4>1
    <3>5. f[x] \in Int /\ g[x] \in Int
      OBVIOUS
    <3>6. ASSUME \A y \in S : f[y] <= g[y] PROVE SumOver(f, S) <= SumOver(g, S)
      <4>1. SumOver(f, S \ {x}) <= SumOver(g, S \ {x}) /\ f[x] <= g[x]
        BY <3>4, <3>6
      <4>. QED  BY <3>2, <3>3, <3>5, <4>1
    <3>7. Fine(S)
      BY <3>6
    <3>. QED  BY <3>7
  <2>. QED  BY <2>1, <2>2
<1>2. \A S \in SUBSET B : S \in Good
  <2>1. IsFiniteSet(B)
    BY FS_Intersection
  <2>. HIDE DEF Good, B
  <2>. QED  BY <1>1, <2>1, SubsetInduction
<1>. QED  BY <1>2

(* Total: its type, its bounds, and what an update does to it.              *)
LEMMA TotalMonotone ==
  ASSUME NEW D, IsFiniteSet(D), NEW f \in [D -> Int], NEW g \in [D -> Int],
         \A x \in D : f[x] <= g[x]
  PROVE  Total(f) \in Int /\ Total(g) \in Int /\ Total(f) <= Total(g)
<1>1. Total(f) = SumOver(f, D) /\ Total(g) = SumOver(g, D)
  BY TotalIsSum
<1>2. SumOver(f, D) \in Int /\ SumOver(g, D) \in Int
  BY SumOut
<1>3. D \in SUBSET (D \cap D)
  OBVIOUS
<1>4. SumOver(f, D) <= SumOver(g, D)
  BY <1>3, SumMonotone
<1>. QED  BY <1>1, <1>2, <1>4

LEMMA TotalUpdate ==
  ASSUME NEW D, IsFiniteSet(D), NEW f \in [D -> Int], NEW x \in D, NEW v \in Int
  PROVE  Total([f EXCEPT ![x] = v]) = Total(f) - f[x] + v
<1> DEFINE g == [f EXCEPT ![x] = v]
           S == D \ {x}
<1>1. g \in [D -> Int] /\ g[x] = v /\ \A y \in S : g[y] = f[y]
  OBVIOUS
<1>. HIDE DEF g
<1>2. Total(f) = SumOver(f, D) /\ Total(g) = SumOver(g, D)
  BY <1>1, TotalIsSum
<1>3. D \in SUBSET D /\ S \in SUBSET D /\ S \in SUBSET (D \cap D)
  OBVIOUS
<1>4. SumOver(f, D) = f[x] + SumOver(f, S) /\ SumOver(f, S) \in Int
  BY <1>3, SumOut
<1>5. SumOver(g, D) = g[x] + SumOver(g, S) /\ SumOver(g, S) \in Int
  BY <1>1, <1>3, SumOut
<1>6. \A y \in S : f[y] \in Int
  OBVIOUS
<1>7. SumOver(f, S) <= SumOver(g, S)
  BY <1>1, <1>3, <1>6, SumMonotone
<1>8. SumOver(g, S) <= SumOver(f, S)
  BY <1>1, <1>3, <1>6, SumMonotone
<1>9. f[x] \in Int
  OBVIOUS
<1>. QED  BY <1>1, <1>2, <1>4, <1>5, <1>7, <1>8, <1>9 DEF g

LEMMA ZeroTotal ==
  ASSUME NEW D, IsFiniteSet(D)
  PROVE  Total([x \in D |-> 0]) = 0
<1> DEFINE f == [x \in D |-> 0]
           Good == {S \in SUBSET D : SumOver(f, S) = 0}
<1>0. f \in [D -> Int] /\ \A x \in D : f[x] = 0
  OBVIOUS
<1>. HIDE DEF f
<1>1. ASSUME NEW S \in SUBSET D, \A T \in SUBSET S : T # S => T \in Good PROVE S \in Good
  <2>1. CASE S = {}
    BY <2>1, FS_EmptySet, SumStep
  <2>2. CASE S # {}
    <3>1. PICK x \in S : SumOver(f, S) = f[x] + SumOver(f, S \ {x})
      BY <1>0, <2>2, SumOut
    <3>2. S \ {x} \in SUBSET S /\ S \ {x} # S
      OBVIOUS
    <3>3. SumOver(f, S \ {x}) = 0 /\ f[x] = 0
      BY <1>0, <1>1, <3>2
    <3>. QED  BY <3>1, <3>3
  <2>. QED  BY <2>1, <2>2
<1>2. \A S \in SUBSET D : S \in Good
  <2>. HIDE DEF Good
  <2>. QED  BY <1>1, SubsetInduction
<1>3. SumOver(f, D) = 0
  BY <1>2
<1>4. Total(f) = SumOver(f, D)
  BY <1>0, TotalIsSum
<1>. QED  BY <1>3, <1>4 DEF f

(* A sum of naturals is no less than each of them.                          *)
LEMMA TotalBounds ==
  ASSUME NEW D, IsFiniteSet(D), NEW f \in [D -> Nat]
  PROVE  Total(f) \in Nat /\ \A x \in D : f[x] <= Total(f)
<1> DEFINE zero == [x \in D |-> 0]
<1>1. /\ f \in [D -> Int] /\ zero \in [D -> Int]
      /\ \A x \in D : zero[x] <= f[x]
  OBVIOUS
<1>2. Total(zero) = 0
  BY ZeroTotal
<1>3. Total(f) \in Int /\ 0 <= Total(f)
  <2>. HIDE DEF zero
  <2>. QED  BY <1>1, <1>2, TotalMonotone
<1>4. ASSUME NEW x \in D PROVE f[x] <= Total(f)
  <2> DEFINE g == [f EXCEPT ![x] = 0]
  <2>1. /\ g \in [D -> Int]
        /\ \A y \in D : zero[y] <= g[y]
    OBVIOUS
  <2>2. Total(g) = Total(f) - f[x] + 0
    BY <1>1, TotalUpdate
  <2>3. 0 <= Total(g)
    <3>. HIDE DEF zero, g
    <3>. QED  BY <1>1, <1>2, <2>1, TotalMonotone
  <2>4. f[x] \in Int
    OBVIOUS
  <2>. QED  BY <1>3, <2>2, <2>3, <2>4
<1>. QED  BY <1>3, <1>4

-----------------------------------------------------------------------------
(* Types, with the counters left unbounded: their bounds follow from what   *)
(* is billed.                                                               *)

LooseUser == [status : Status, reason : LifecycleStatus, xray : Nat, wg : Nat, used : Nat,
              limit : Limit, days : Days, expires : Expiry, nextReset : ResetTime]
LoosePeer == [enabled : BOOLEAN, rx : Nat, base : Nat]
Seen == UNION {[S -> Nat] : S \in SUBSET Peer}

AtJob == [at : {"idle", "wgRead", "xrayRead", "resets", "enforce", "reconcile"}]
SeenJob == [at : {"wgWrite"}, seen : Seen]
DeltaJob == [at : {"xrayWrite"}, delta : Nat]
BuildJob == [at : {"build"}, cycle : BOOLEAN, todo : Todo]
ApplyJob == [at : {"apply"}, cycle : BOOLEAN, todo : Todo, serve : BOOLEAN]
PeersJob == [at : {"peers"}, todo : Todo]
DoneJob == [at : {"peerDone"}, todo : Todo, peer : Peer, ok : BOOLEAN]
LooseJob == AtJob \cup SeenJob \cup DeltaJob \cup BuildJob \cup ApplyJob \cup PeersJob \cup DoneJob

PanelTyped ==
  /\ now \in 0..MaxTime
  /\ user \in LooseUser
  /\ client \in BOOLEAN
  /\ peers \in [Peer -> LoosePeer]
NodesTyped ==
  /\ kernel \in [Peer -> [installed : BOOLEAN, bytes : Nat]]
  /\ xray \in [serving : BOOLEAN, bytes : Nat]
JobsTyped == job \in [Worker -> LooseJob]
HistoryTyped ==
  history \in [xray : Bytes, wg : Bytes, xrayForgiven : Nat,
               wgForgiven : 0..MaxBytes + 1, crashes : 0..MaxCrashes]
Typed == PanelTyped /\ NodesTyped /\ JobsTyped /\ HistoryTyped

(* c bounds what each peer has carried in WireGuard: his counter in the     *)
(* kernel, the one in his row and any that is on its way between the two.   *)
Covers(c) ==
  /\ Total(c) <= history.wg
  /\ \A p \in Peer : kernel[p].bytes <= c[p] /\ peers[p].rx <= c[p] /\ peers[p].base <= c[p]
  /\ \A w \in Worker : job[w].at = "wgWrite" =>
       \A p \in DOMAIN job[w].seen : job[w].seen[p] <= c[p]
Carried == \E c \in [Peer -> Nat] : Covers(c)

Charged == BilledOnce /\ WireGuardBounded
Books == Typed /\ Charged /\ Carried

(* The books stay right, and the step is one of the ledger or none.         *)
Kept == Books' /\ [Bill!Next]_Bill!vars

LEMMA Finite == IsFiniteSet(Worker) /\ IsFiniteSet(Peer)
<1>1. IsFiniteSet({Loop})
  BY FS_Singleton
<1>. QED  BY <1>1, FS_Union, AccountingAssumption DEF Worker

LEMMA Places ==
  ASSUME NEW j \in LooseJob
  PROVE  /\ j.at = "wgWrite" => j.seen \in Seen
         /\ j.at = "xrayWrite" => j.delta \in Nat
         /\ j.at \in {"build", "apply"} => j.cycle \in BOOLEAN
         /\ j.at \in {"build", "apply", "peers", "peerDone"} => j.todo \in Todo
         /\ j.at = "apply" => j.serve \in BOOLEAN
         /\ j.at = "peerDone" => j.peer \in Peer /\ j.ok \in BOOLEAN
  BY DEF LooseJob, AtJob, SeenJob, DeltaJob, BuildJob, ApplyJob, PeersJob, DoneJob

LEMMA PartialFunctions ==
  ASSUME NEW f
  PROVE  /\ f \in Todo <=> DOMAIN f \subseteq Peer /\ f \in [DOMAIN f -> BOOLEAN]
         /\ f \in Seen <=> DOMAIN f \subseteq Peer /\ f \in [DOMAIN f -> Nat]
  BY DEF Todo, Seen

(* The bytes a worker at j has taken from Xray and not yet written.         *)
Taken(j) == IF j.at = "xrayWrite" THEN j.delta ELSE 0

LEMMA FlightTyped ==
  ASSUME JobsTyped PROVE Flight \in [Worker -> Nat] /\ \A w \in Worker : Flight[w] = Taken(job[w])
<1>1. ASSUME NEW w \in Worker PROVE InFlight(w) \in Nat /\ InFlight(w) = Taken(job[w])
  <2>1. job[w] \in LooseJob
    BY DEF JobsTyped
  <2>. QED  BY <2>1, Places DEF InFlight, Taken
<1>. QED  BY <1>1 DEF Flight

LEMMA FlightMoves ==
  ASSUME JobsTyped, NEW w \in Worker, NEW j \in LooseJob, Goto(w, j)
  PROVE  /\ Total(Flight)' = Total(Flight) - Taken(job[w]) + Taken(j)
         /\ Total(Flight) \in Nat /\ Taken(job[w]) \in Nat /\ Taken(j) \in Nat
         /\ Taken(job[w]) <= Total(Flight)
<1> DEFINE f == Flight
           v == Taken(j)
<1>1. /\ f \in [Worker -> Nat] /\ f[w] = Taken(job[w])
  BY FlightTyped
<1>2. v \in Nat
  BY Places DEF Taken
<1>3. Flight' = [f EXCEPT ![w] = v]
  <2>1. job' = [job EXCEPT ![w] = j] /\ job \in [Worker -> LooseJob]
    BY DEF Goto, JobsTyped
  <2>2. \A q \in Worker : q # w => job'[q] = job[q]
    BY <2>1
  <2>3. job'[w] = j
    BY <2>1
  <2>4. \A q \in Worker : InFlight(q)' = IF q = w THEN v ELSE InFlight(q)
    BY <2>2, <2>3 DEF InFlight, Taken
  <2>. QED  BY <2>4 DEF Flight
<1>4. Total(f) \in Nat /\ f[w] <= Total(f)
  BY <1>1, Finite, TotalBounds
<1>. HIDE DEF f, v
<1>5. Total([f EXCEPT ![w] = v]) = Total(f) - f[w] + v
  <2>1. f \in [Worker -> Int] /\ v \in Int
    BY <1>1, <1>2
  <2>. QED  BY <2>1, Finite, TotalUpdate
<1>6. Total(Flight)' = Total([f EXCEPT ![w] = v])
  BY <1>3
<1>. QED  BY <1>1, <1>2, <1>4, <1>5, <1>6 DEF f, v

-----------------------------------------------------------------------------
(* The row of the user. *)

SameBill(u, v) == v.xray = u.xray /\ v.wg = u.wg /\ v.used = u.used
Cleared(v) == v.xray = 0 /\ v.wg = 0 /\ v.used = 0

LEMMA ForgivenRow ==
  ASSUME NEW u \in LooseUser
  PROVE  Forgiven(u) \in LooseUser /\ Cleared(Forgiven(u))
  BY DEF Forgiven, Cleared, LooseUser

LEMMA StatusRow ==
  ASSUME NEW u \in LooseUser, NEW status \in LifecycleStatus
  PROVE  WithStatus(u, status) \in LooseUser /\ SameBill(u, WithStatus(u, status))
  BY DEF WithStatus, SameBill, LooseUser, Status

LEMMA ReconciledRow ==
  ASSUME NEW u \in LooseUser
  PROVE  Reconciled(u) \in LooseUser /\ SameBill(u, Reconciled(u))
<1>1. Reconciled(u) = WithStatus(u, userLifecycleStatus(u))
  BY DEF Reconciled, WithStatus
<1>2. userLifecycleStatus(u) \in LifecycleStatus
  BY DEF userLifecycleStatus, LifecycleStatus
<1>. QED  BY <1>1, <1>2, StatusRow

LEMMA NextResetRow ==
  ASSUME NEW u \in LooseUser, NEW t \in ResetTime
  PROVE  /\ [u EXCEPT !.nextReset = t] \in LooseUser
         /\ SameBill(u, [u EXCEPT !.nextReset = t])
         /\ Cleared(u) => Cleared([u EXCEPT !.nextReset = t])
  BY DEF SameBill, Cleared, LooseUser

LEMMA ExpiryRow ==
  ASSUME NEW u \in LooseUser, NEW t \in Expiry
  PROVE  /\ [u EXCEPT !.expires = t] \in LooseUser
         /\ SameBill(u, [u EXCEPT !.expires = t])
  BY DEF SameBill, LooseUser

LEMMA TermsRow ==
  ASSUME NEW u \in LooseUser, NEW limit \in Limit, NEW days \in Days
  PROVE  LET v == [u EXCEPT !.limit = limit, !.days = days]
         IN  v \in LooseUser /\ SameBill(u, v)
  BY DEF SameBill, LooseUser

LEMMA PlanRow ==
  ASSUME NEW u \in LooseUser, NEW limit \in Limit, NEW days \in Days,
         NEW e \in Expiry, NEW t \in ResetTime
  PROVE  LET v == [u EXCEPT !.limit = limit, !.days = days, !.expires = e, !.nextReset = t]
         IN  v \in LooseUser /\ SameBill(u, v)
  BY DEF SameBill, LooseUser

(* The next reset is within one interval of now.                            *)
LEMMA Divides ==
  ASSUME NEW a \in Nat, NEW d \in Nat \ {0}
  PROVE  (a \div d) \in Nat /\ (a \div d) * d <= a
  OBVIOUS

LEMMA ResetTimes ==
  ASSUME now \in 0..MaxTime, NEW days \in Days
  PROVE  /\ Never \in ResetTime
         /\ NextReset(days) \in ResetTime /\ now + days \in ResetTime
         /\ \A t \in ResetTime : days > 0 => advanceResetAt(t, days) \in ResetTime
<1>1. days \in Nat /\ MaxTime \in Nat /\ now \in Nat
  BY AccountingAssumption
<1>2. \A t \in 0..(MaxTime + days) : t \in ResetTime
  BY DEF ResetTime
<1>3. Never \in 0..(MaxTime + days) /\ now + days \in 0..(MaxTime + days)
  BY <1>1 DEF Never
<1>4. NextReset(days) \in 0..(MaxTime + days)
  BY <1>3 DEF NextReset
<1>5. ASSUME NEW t \in ResetTime, days > 0 PROVE advanceResetAt(t, days) \in ResetTime
  <2>1. CASE t > now
    BY <1>5, <2>1 DEF advanceResetAt
  <2>2. CASE ~(t > now)
    <3>1. t \in Nat
      BY <1>1, AccountingAssumption DEF ResetTime
    <3> DEFINE a == now - t
               k == (a \div days) * days
    <3>2. a \in Nat /\ t + a = now
      BY <1>1, <2>2, <3>1
    <3>3. (a \div days) \in Nat /\ k <= a
      BY <1>1, <1>5, <3>2, Divides
    <3>4. k \in Nat /\ (a \div days + 1) * days = k + days
      BY <1>1, <3>3
    <3>5. advanceResetAt(t, days) = t + (a \div days + 1) * days
      BY <2>2 DEF advanceResetAt
    <3>. HIDE DEF a, k
    <3>6. advanceResetAt(t, days) = t + (k + days)
      BY <3>4, <3>5
    <3>7. t + (k + days) \in 0..(MaxTime + days)
      BY <1>1, <3>1, <3>2, <3>3, <3>4
    <3>. QED  BY <1>2, <3>6, <3>7
  <2>. QED  BY <2>1, <2>2
<1>. QED  BY <1>2, <1>3, <1>4, <1>5

(* The loop of advanceResetAt, which adds an interval while the reset is    *)
(* not ahead of now, ends at the first reset after t that is, however many  *)
(* were missed: no due reset is left over and none is skipped.              *)
THEOREM ResetIsNext ==
  ASSUME NEW t \in Nat, NEW days \in Nat \ {0}, now \in Nat
  PROVE  LET next == advanceResetAt(t, days) IN
         /\ next > now
         /\ \E k \in Nat : next = t + k * days
         /\ \A k \in Nat : t + k * days > now => next <= t + k * days
<1> DEFINE next == advanceResetAt(t, days)
<1>1. CASE t > now
  <2>1. next = t
    BY <1>1 DEF advanceResetAt
  <2>2. \A k \in Nat : k * days \in Nat
    OBVIOUS
  <2>3. t = t + 0 * days /\ 0 \in Nat
    OBVIOUS
  <2>. HIDE DEF next
  <2>4. \A k \in Nat : next <= t + k * days
    BY <2>1, <2>2
  <2>. QED  BY <1>1, <2>1, <2>3, <2>4 DEF next
<1>2. CASE ~(t > now)
  <2> DEFINE a == now - t
             q == a \div days
  <2>1. a \in Nat /\ t + a = now
    BY <1>2
  <2>2. next = t + (q + 1) * days
    BY <1>2 DEF advanceResetAt
  <2>3. q \in Nat /\ q * days <= a /\ a < q * days + days
    <3>. HIDE DEF a
    <3>. QED  BY <2>1
  <2>. HIDE DEF a, q, next
  <2>4. q * days \in Nat /\ (q + 1) * days = q * days + days
    BY <2>3
  <2>5. next > now
    BY <2>1, <2>2, <2>3, <2>4
  <2>6. ASSUME NEW k \in Nat, t + k * days > now PROVE next <= t + k * days
    <3>1. k * days \in Nat /\ k * days > a
      <4>1. k * days \in Nat
        OBVIOUS
      <4>. QED  BY <4>1, <2>1, <2>6
    <3>2. CASE k <= q
      <4>1. k * days <= q * days
        BY <3>2, <2>3
      <4>. QED  BY <3>1, <4>1, <2>1, <2>3, <2>4
    <3>3. CASE ~(k <= q)
      <4>1. (q + 1) * days <= k * days
        <5>1. q + 1 <= k /\ q + 1 \in Nat
          BY <3>3, <2>3
        <5>. QED  BY <5>1
      <4>. QED  BY <3>1, <4>1, <2>2, <2>3, <2>4
    <3>. QED  BY <3>2, <3>3
  <2>7. q + 1 \in Nat
    BY <2>3
  <2>. QED  BY <2>2, <2>5, <2>6, <2>7 DEF next
<1>. QED  BY <1>1, <1>2

-----------------------------------------------------------------------------
(* The steps of the workers. *)

(* The bounds on what peers have carried that a step must respect.          *)
Within(c, k, rows, j) ==
  /\ \A p \in Peer : k[p].bytes <= c[p] /\ rows[p].rx <= c[p] /\ rows[p].base <= c[p]
  /\ j.at = "wgWrite" => \A p \in DOMAIN j.seen : j.seen[p] <= c[p]

(* What becomes of bytes to be charged, of which there were before and are  *)
(* after: some are charged or lost, or none are and the bill is forgiven.   *)
Entry(before, after) ==
  /\ history'.xray = history.xray
  /\ \/ /\ after <= before /\ history'.xrayForgiven = history.xrayForgiven
        /\ user'.xray = user.xray \/ user'.xray + after = user.xray + before
     \/ /\ after = before /\ user'.xray = 0
        /\ history'.xrayForgiven = history.xrayForgiven + user.xray

LEMMA EntryIsStep ==
  ASSUME NEW before \in Nat, NEW after \in Nat, Pending = before, Pending' = after,
         user.xray \in Nat, user'.xray \in Nat, Entry(before, after)
  PROVE  [Bill!Next]_Bill!vars
<1> DEFINE n == before - after
<1>1. CASE user'.xray = 0 /\ history'.xrayForgiven = history.xrayForgiven + user.xray
             /\ after = before
  BY <1>1 DEF Entry, Bill!Next, Bill!Reset
<1>2. CASE after < before /\ history'.xrayForgiven = history.xrayForgiven
  <2>1. n \in 1..Pending /\ Pending' = Pending - n
    BY <1>2
  <2>2. CASE user'.xray = user.xray
    BY <1>2, <2>1, <2>2 DEF Entry, Bill!Next, Bill!Lose
  <2>3. CASE user'.xray + after = user.xray + before
    <3>1. user'.xray = user.xray + n
      BY <2>3
    <3>. QED  BY <1>2, <2>1, <3>1 DEF Entry, Bill!Next, Bill!Charge
  <2>. QED  BY <1>2, <2>2, <2>3 DEF Entry
<1>3. CASE after = before /\ user'.xray = user.xray
             /\ history'.xrayForgiven = history.xrayForgiven
  BY <1>3 DEF Entry, Bill!vars
<1>. QED  BY <1>1, <1>2, <1>3 DEF Entry

LEMMA WorkerStep ==
  ASSUME Books, NEW w \in Worker, NEW j \in LooseJob, Goto(w, j),
         PanelTyped', NodesTyped', HistoryTyped',
         history'.wg = history.wg,
         Entry(xray.bytes + Taken(job[w]), xray'.bytes + Taken(j)),
         user'.wg <= history.wg, user'.used = user'.xray + user'.wg,
         \A c \in [Peer -> Nat] : Covers(c) => Within(c, kernel', peers', j)
  PROVE  Kept
<1>1. job' = [job EXCEPT ![w] = j] /\ job \in [Worker -> LooseJob]
  BY DEF Goto, Books, Typed, JobsTyped
<1>2. Typed'
  BY <1>1 DEF Typed, JobsTyped
<1>3. Charged' /\ [Bill!Next]_Bill!vars
  <2> DEFINE b == xray.bytes + Taken(job[w])
             a == xray'.bytes + Taken(j)
             before == xray.bytes + Total(Flight)
             after == before - b + a
  <2>1. /\ Total(Flight)' = Total(Flight) - Taken(job[w]) + Taken(j)
        /\ Total(Flight) \in Nat /\ Taken(job[w]) \in Nat /\ Taken(j) \in Nat
        /\ Taken(job[w]) <= Total(Flight)
    BY FlightMoves DEF Books, Typed
  <2>2. /\ user.xray \in Nat /\ history.xrayForgiven \in Nat /\ xray.bytes \in Nat
        /\ user'.xray \in Nat /\ history'.xrayForgiven \in Nat /\ xray'.bytes \in Nat
        /\ history.xray \in Int
    BY DEF Books, Typed, PanelTyped, NodesTyped, HistoryTyped, LooseUser, Bytes
  <2>3. Pending = before /\ Pending' = xray'.bytes + Total(Flight)'
    BY DEF Pending
  <2>4. /\ Pending' = after /\ before \in Nat /\ after \in Nat
        /\ a \in Nat /\ b \in Nat /\ after - before = a - b
    BY <2>1, <2>2, <2>3
  <2>5. Entry(b, a)
    OBVIOUS
  <2>6. user.xray + history.xrayForgiven + before <= history.xray
    BY <2>3 DEF Books, Charged, BilledOnce, WireGuardBounded
  <2>. HIDE DEF a, b, before, after
  <2>7. Entry(before, after)
    BY <2>2, <2>4, <2>5 DEF Entry
  <2>8. user'.xray + history'.xrayForgiven + after <= history'.xray
    BY <2>2, <2>4, <2>6, <2>7 DEF Entry
  <2>. QED  BY <2>2, <2>3, <2>4, <2>7, <2>8, EntryIsStep DEF Charged, BilledOnce, WireGuardBounded
<1>4. Carried'
  <2>1. PICK c \in [Peer -> Nat] : Covers(c)
    BY DEF Books, Carried
  <2>2. Within(c, kernel', peers', j)
    BY <2>1
  <2>3. ASSUME NEW q \in Worker, job'[q].at = "wgWrite"
        PROVE  \A p \in DOMAIN job'[q].seen : job'[q].seen[p] <= c[p]
    <3>1. CASE q = w
      BY <1>1, <2>2, <3>1, <2>3 DEF Within
    <3>2. CASE q # w
      <4>1. job'[q] = job[q]
        BY <1>1, <3>2
      <4>. QED  BY <2>1, <2>3, <4>1 DEF Covers
    <3>. QED  BY <3>1, <3>2
  <2>4. /\ Total(c) <= history'.wg
        /\ \A p \in Peer :
             kernel'[p].bytes <= c[p] /\ peers'[p].rx <= c[p] /\ peers'[p].base <= c[p]
    BY <2>1, <2>2 DEF Covers, Within
  <2>5. Covers(c)'
    BY <2>3, <2>4 DEF Covers
  <2>. QED  BY <2>5 DEF Carried
<1>. QED  BY <1>2, <1>3, <1>4 DEF Books, Kept

(* What holds of the counters as they are.                                  *)
LEMMA AsTheyAre ==
  ASSUME Books
  PROVE  /\ user.wg <= history.wg /\ user.used = user.xray + user.wg
         /\ user \in LooseUser /\ user.xray \in Nat /\ user.wg \in Nat /\ user.used \in Nat
         /\ history.xrayForgiven \in Nat /\ xray.bytes \in Nat
         /\ history.xray \in Nat /\ history.wg \in Nat
         /\ \A c : Covers(c) =>
              \A p \in Peer :
                kernel[p].bytes <= c[p] /\ peers[p].rx <= c[p] /\ peers[p].base <= c[p]
  BY DEF Books, Charged, BilledOnce, WireGuardBounded, Covers, Typed, PanelTyped, NodesTyped, HistoryTyped, LooseUser, Bytes

(* A step that only moves its worker.                                       *)
LEMMA MoveStep ==
  ASSUME Books, NEW w \in Worker, NEW j \in LooseJob, Goto(w, j),
         Taken(j) = 0, Taken(job[w]) = 0,
         UNCHANGED <<now, panel, nodes, history>>,
         j.at = "wgWrite" => \A p \in DOMAIN j.seen : p \in Peer /\ j.seen[p] = kernel[p].bytes
  PROVE  Kept
<1>1. /\ now' = now /\ user' = user /\ client' = client /\ peers' = peers
      /\ kernel' = kernel /\ xray' = xray /\ history' = history
  BY DEF panel, nodes
<1>2. PanelTyped' /\ NodesTyped' /\ HistoryTyped'
  BY <1>1 DEF Books, Typed, PanelTyped, NodesTyped, HistoryTyped
<1>3. \A c \in [Peer -> Nat] : Covers(c) => Within(c, kernel', peers', j)
  BY <1>1, AsTheyAre DEF Within
<1>4. /\ user'.wg <= history.wg /\ user'.used = user'.xray + user'.wg
      /\ Entry(xray.bytes + Taken(job[w]), xray'.bytes + Taken(j))
  BY <1>1, AsTheyAre DEF Entry
<1>. QED  BY <1>1, <1>2, <1>3, <1>4, WorkerStep

LEMMA AtJobs ==
  ASSUME NEW at \in {"idle", "wgRead", "xrayRead", "resets", "enforce", "reconcile"}
  PROVE  At(at) \in LooseJob /\ At(at).at = at /\ Taken(At(at)) = 0
  BY DEF At, LooseJob, AtJob, Taken

LEMMA StartSyncBooks == ASSUME Books, NEW w \in Worker, StartSync(w) PROVE Kept
<1>1. Goto(w, At("wgRead")) /\ job[w].at = "idle" /\ UNCHANGED <<now, panel, nodes, history>>
  BY DEF StartSync
<1>2. Taken(job[w]) = 0
  BY <1>1 DEF Taken
<1>. QED  BY <1>1, <1>2, AtJobs, MoveStep

LEMMA WGReadBooks == ASSUME Books, NEW w \in Worker, WGRead(w) PROVE Kept
<1>1. PICK heard \in SUBSET Peer :
        Goto(w, [at |-> "wgWrite",
                 seen |-> [p \in {q \in heard : kernel[q].installed} |-> kernel[p].bytes]])
  BY DEF WGRead
<1> DEFINE S == {q \in heard : kernel[q].installed}
           seen == [p \in S |-> kernel[p].bytes]
           j == [at |-> "wgWrite", seen |-> seen]
<1>2. DOMAIN seen \subseteq Peer /\ \A p \in DOMAIN seen : p \in Peer /\ seen[p] = kernel[p].bytes
  OBVIOUS
<1>3. seen \in Seen
  <2>1. \A p \in Peer : kernel[p].bytes \in Nat
    BY DEF Books, Typed, NodesTyped
  <2>2. seen \in [DOMAIN seen -> Nat]
    BY <2>1
  <2>. QED  BY <1>2, <2>2, PartialFunctions
<1>. HIDE DEF seen
<1>4. j \in LooseJob /\ j.at = "wgWrite" /\ j.seen = seen /\ Taken(j) = 0
  BY <1>3 DEF LooseJob, SeenJob, Taken
<1>5. Goto(w, j) /\ Taken(job[w]) = 0 /\ UNCHANGED <<now, panel, nodes, history>>
  BY <1>1 DEF WGRead, Taken, seen
<1>. HIDE DEF j
<1>. QED  BY <1>2, <1>4, <1>5, MoveStep

LEMMA EndSyncBooks == ASSUME Books, NEW w \in Worker, EndSync(w) PROVE Kept
<1> DEFINE at == IF w = Loop THEN "reconcile" ELSE "idle"
<1>1. Goto(w, At(at)) /\ job[w].at = "peers" /\ UNCHANGED <<now, panel, nodes, history>>
  BY DEF EndSync
<1>2. Taken(job[w]) = 0 /\ at \in {"idle", "reconcile"}
  BY <1>1 DEF Taken
<1>. HIDE DEF at
<1>3. At(at) \in LooseJob /\ At(at).at # "wgWrite" /\ Taken(At(at)) = 0
  BY <1>2, AtJobs
<1>. QED  BY <1>1, <1>2, <1>3, MoveStep

LEMMA StartReconcileBooks == ASSUME Books, StartReconcile PROVE Kept
<1>1. /\ Goto(Loop, At("reconcile")) /\ job[Loop].at = "idle" /\ Loop \in Worker
      /\ UNCHANGED <<now, panel, nodes, history>>
  BY DEF StartReconcile, Worker
<1>2. Taken(job[Loop]) = 0
  BY <1>1 DEF Taken
<1>. QED  BY <1>1, <1>2, AtJobs, MoveStep

LEMMA BuildBooks == ASSUME Books, NEW w \in Worker, Build(w) PROVE Kept
<1> DEFINE serve == client /\ user.status = "active"
           j == [at |-> "apply", cycle |-> job[w].cycle, todo |-> job[w].todo, serve |-> serve]
<1>1. /\ Goto(w, j) /\ job[w].at = "build" /\ UNCHANGED <<now, panel, nodes, history>>
  BY DEF Build
<1>2. job[w].cycle \in BOOLEAN /\ job[w].todo \in Todo
  BY <1>1, Places DEF Books, Typed, JobsTyped
<1>3. serve \in BOOLEAN
  BY DEF Books, Typed, PanelTyped
<1>. HIDE DEF serve
<1>4. j \in LooseJob /\ j.at = "apply"
  BY <1>2, <1>3 DEF LooseJob, ApplyJob
<1>. HIDE DEF j
<1>5. Taken(job[w]) = 0 /\ Taken(j) = 0
  BY <1>1, <1>4 DEF Taken
<1>. QED  BY <1>1, <1>4, <1>5, MoveStep

(* What a worker goes on with after a deployment.                           *)
LEMMA AfterDeployMoves ==
  ASSUME Books, NEW w \in Worker, job[w].at = "apply", AfterDeploy(w)
  PROVE  /\ Taken(job[w]) = 0
         /\ \E j \in LooseJob : Goto(w, j) /\ j.at \in {"peers", "idle"} /\ Taken(j) = 0
<1> DEFINE j == [at |-> "peers", todo |-> job[w].todo]
<1>1. job[w].todo \in Todo
  BY Places DEF Books, Typed, JobsTyped
<1>2. j \in LooseJob /\ j.at = "peers" /\ Taken(j) = 0
  BY <1>1 DEF LooseJob, PeersJob, Taken
<1>3. At("idle") \in LooseJob /\ At("idle").at = "idle" /\ Taken(At("idle")) = 0
  BY AtJobs
<1>4. Taken(job[w]) = 0
  BY DEF Taken
<1>5. Goto(w, j) \/ Goto(w, At("idle"))
  BY DEF AfterDeploy
<1>. HIDE DEF j
<1>. QED  BY <1>2, <1>3, <1>4, <1>5

LEMMA ApplyBooks == ASSUME Books, NEW w \in Worker, ApplySucceeds(w) \/ ApplyFails(w) PROVE Kept
<1>1. job[w].at = "apply" /\ AfterDeploy(w)
  BY DEF ApplySucceeds, ApplyFails
<1>2. PICK j \in LooseJob : Goto(w, j) /\ j.at \in {"peers", "idle"} /\ Taken(j) = 0
  BY <1>1, AfterDeployMoves
<1>3. Taken(job[w]) = 0
  BY <1>1, AfterDeployMoves
<1>4. CASE ApplyFails(w)
  <2>1. UNCHANGED <<now, panel, nodes, history>>
    BY <1>4 DEF ApplyFails
  <2>. QED  BY <1>2, <1>3, <2>1, MoveStep
<1>5. CASE ApplySucceeds(w)
  <2>1. /\ now' = now /\ user' = user /\ client' = client /\ peers' = peers
        /\ kernel' = kernel /\ history' = history
        /\ xray' = [serving |-> job[w].serve, bytes |-> 0]
    BY <1>5 DEF ApplySucceeds, panel
  <2>2. job[w].serve \in BOOLEAN
    BY <1>1, Places DEF Books, Typed, JobsTyped
  <2>3. PanelTyped' /\ NodesTyped' /\ HistoryTyped' /\ xray'.bytes = 0
    BY <2>1, <2>2 DEF Books, Typed, PanelTyped, NodesTyped, HistoryTyped
  <2>4. \A c \in [Peer -> Nat] : Covers(c) => Within(c, kernel', peers', j)
    BY <1>2, <2>1, AsTheyAre DEF Within
  <2>5. /\ user'.wg <= history.wg /\ user'.used = user'.xray + user'.wg
        /\ Entry(xray.bytes + Taken(job[w]), xray'.bytes + Taken(j))
    BY <1>2, <1>3, <2>1, <2>3, AsTheyAre DEF Entry
  <2>. QED  BY <1>2, <2>1, <2>3, <2>4, <2>5, WorkerStep
<1>. QED  BY <1>4, <1>5

LEMMA WGWriteBooks == ASSUME Books, NEW w \in Worker, WGWrite(w) PROVE Kept
<1> DEFINE seen == job[w].seen
           row(p) == IF p \in DOMAIN seen THEN [peers[p] EXCEPT !.rx = seen[p]] ELSE peers[p]
           over == [p \in Peer |-> nonNegative(peers'[p].rx - peers'[p].base)]
           total == Total(over)
           j == At("xrayRead")
<1>1. /\ job[w].at = "wgWrite" /\ Goto(w, j)
      /\ peers' = [p \in Peer |-> row(p)]
      /\ user' = [user EXCEPT !.wg = total, !.used = total + user.xray]
      /\ now' = now /\ client' = client /\ kernel' = kernel /\ xray' = xray /\ history' = history
  BY DEF WGWrite, WGTotal, nodes
<1>2. seen \in Seen
  BY <1>1, Places DEF Books, Typed, JobsTyped
<1>3. ASSUME NEW p \in Peer
      PROVE  /\ row(p) \in LoosePeer /\ row(p).base = peers[p].base
             /\ row(p).rx = IF p \in DOMAIN seen THEN seen[p] ELSE peers[p].rx
  <2>1. peers[p] \in LoosePeer
    BY DEF Books, Typed, PanelTyped
  <2>2. p \in DOMAIN seen => seen[p] \in Nat
    BY <1>2, PartialFunctions
  <2>. QED  BY <2>1, <2>2 DEF LoosePeer
<1>. HIDE DEF row
<1>4. peers' \in [Peer -> LoosePeer] /\ \A p \in Peer : peers'[p] = row(p)
  BY <1>1, <1>3
<1>5. ASSUME NEW c \in [Peer -> Nat], Covers(c), NEW p \in Peer
      PROVE  peers'[p].rx <= c[p] /\ peers'[p].base <= c[p] /\ kernel'[p].bytes <= c[p]
  BY <1>1, <1>3, <1>4, <1>5 DEF Covers, seen
<1>6. total \in Nat /\ total <= history.wg
  <2>1. PICK c \in [Peer -> Nat] : Covers(c)
    BY DEF Books, Carried
  <2>2. ASSUME NEW p \in Peer PROVE over[p] \in Nat /\ over[p] <= c[p]
    <3>1. peers'[p].rx \in Nat /\ peers'[p].base \in Nat /\ peers'[p].rx <= c[p] /\ c[p] \in Nat
      BY <1>4, <1>5, <2>1 DEF LoosePeer
    <3>2. over[p] = nonNegative(peers'[p].rx - peers'[p].base)
      OBVIOUS
    <3>. HIDE DEF over
    <3>. QED  BY <3>1, <3>2 DEF nonNegative
  <2>3. over \in [Peer -> Nat]
    BY <2>2
  <2>. HIDE DEF over
  <2>4. total \in Nat
    BY <2>3, Finite, TotalBounds
  <2>5. Total(over) <= Total(c) /\ Total(c) \in Int
    <3>1. over \in [Peer -> Int] /\ c \in [Peer -> Int]
      BY <2>3
    <3>. QED  BY <2>2, <3>1, Finite, TotalMonotone
  <2>6. Total(c) <= history.wg
    BY <2>1 DEF Covers
  <2>. QED  BY <2>4, <2>5, <2>6, AsTheyAre
<1>. HIDE DEF over, total, seen
<1>7. /\ user' \in LooseUser /\ user'.wg = total
      /\ user'.used = total + user.xray /\ user'.xray = user.xray
  <2>1. total + user.xray \in Nat
    BY <1>6, AsTheyAre
  <2>2. user \in LooseUser
    BY AsTheyAre
  <2> DEFINE used == total + user.xray
  <2>3. user' = [user EXCEPT !.wg = total, !.used = used]
    BY <1>1
  <2>. HIDE DEF used
  <2>4. user' \in LooseUser /\ user'.wg = total /\ user'.used = used /\ user'.xray = user.xray
    BY <1>6, <2>1, <2>2, <2>3 DEF LooseUser, used
  <2>. QED  BY <2>4 DEF used
<1>8. PanelTyped' /\ NodesTyped' /\ HistoryTyped'
  BY <1>1, <1>4, <1>7 DEF Books, Typed, PanelTyped, NodesTyped, HistoryTyped
<1>9. j \in LooseJob /\ j.at = "xrayRead" /\ Taken(j) = 0 /\ Taken(job[w]) = 0
  BY <1>1, AtJobs DEF Taken
<1>. HIDE DEF j
<1>10. \A c \in [Peer -> Nat] : Covers(c) => Within(c, kernel', peers', j)
  BY <1>5, <1>9 DEF Within
<1>11. /\ user'.wg <= history.wg /\ user'.used = user'.xray + user'.wg
       /\ Entry(xray.bytes + Taken(job[w]), xray'.bytes + Taken(j))
  BY <1>1, <1>6, <1>7, <1>9, AsTheyAre DEF Entry
<1>. QED  BY <1>1, <1>8, <1>9, <1>10, <1>11, WorkerStep

LEMMA XrayReadBooks == ASSUME Books, NEW w \in Worker, XrayRead(w) PROVE Kept
<1>1. xray \in [serving : BOOLEAN, bytes : Nat]
  BY DEF Books, Typed, NodesTyped
<1>2. PICK delta \in {0, xray.bytes} :
        /\ Goto(w, [at |-> "xrayWrite", delta |-> delta])
        /\ xray' \in {xray, [xray EXCEPT !.bytes = 0]}
        /\ delta = 0 \/ xray' = [xray EXCEPT !.bytes = 0]
  BY DEF XrayRead
<1> DEFINE j == [at |-> "xrayWrite", delta |-> delta]
<1>3. /\ now' = now /\ user' = user /\ client' = client /\ peers' = peers
      /\ kernel' = kernel /\ history' = history /\ job[w].at = "xrayRead"
  BY DEF XrayRead, panel
<1>4. /\ xray' \in [serving : BOOLEAN, bytes : Nat] /\ delta \in Nat
      /\ xray'.bytes + delta <= xray.bytes
  BY <1>1, <1>2
<1>5. PanelTyped' /\ NodesTyped' /\ HistoryTyped'
  BY <1>3, <1>4 DEF Books, Typed, PanelTyped, NodesTyped, HistoryTyped
<1>6. /\ j \in LooseJob /\ j.at = "xrayWrite" /\ Taken(j) = delta /\ Taken(job[w]) = 0
  BY <1>3, <1>4 DEF LooseJob, DeltaJob, Taken
<1>7. Goto(w, j)
  BY <1>2
<1>. HIDE DEF j
<1>8. \A c \in [Peer -> Nat] : Covers(c) => Within(c, kernel', peers', j)
  BY <1>3, <1>6, AsTheyAre DEF Within
<1>9. /\ user'.wg <= history.wg /\ user'.used = user'.xray + user'.wg
      /\ Entry(xray.bytes + Taken(job[w]), xray'.bytes + Taken(j))
  <2>1. xray'.bytes \in Nat
    BY <1>4
  <2>. QED  BY <1>3, <1>4, <1>6, <2>1, AsTheyAre DEF Entry
<1>. QED  BY <1>3, <1>5, <1>6, <1>7, <1>8, <1>9, WorkerStep

LEMMA XrayWriteBooks == ASSUME Books, NEW w \in Worker, XrayWrite(w) PROVE Kept
<1> DEFINE delta == job[w].delta
           total == user.xray + delta
           j == At("resets")
<1>1. /\ now' = now /\ client' = client /\ peers' = peers /\ kernel' = kernel
      /\ xray' = xray /\ history' = history /\ job[w].at = "xrayWrite" /\ Goto(w, j)
      /\ user' = [user EXCEPT !.xray = total, !.used = user.wg + total]
  BY DEF XrayWrite, nodes
<1>2. delta \in Nat /\ Taken(job[w]) = delta
  BY <1>1, Places DEF Taken, Books, Typed, JobsTyped
<1>. HIDE DEF delta
<1>3. total \in Nat /\ user.wg + total \in Nat
  BY <1>2, AsTheyAre
<1>4. /\ user' \in LooseUser /\ user'.xray = user.xray + delta
      /\ user'.used = user.wg + total /\ user'.wg = user.wg
  <2>. HIDE DEF total
  <2>1. /\ user' \in LooseUser /\ user'.xray = total
        /\ user'.used = user.wg + total /\ user'.wg = user.wg
    <3>1. user \in LooseUser
      BY AsTheyAre
    <3> DEFINE used == user.wg + total
    <3>2. user' = [user EXCEPT !.xray = total, !.used = used] /\ used \in Nat
      BY <1>1, <1>3
    <3>. HIDE DEF used
    <3>3. /\ user' \in LooseUser /\ user'.xray = total
          /\ user'.used = used /\ user'.wg = user.wg
      BY <1>3, <3>1, <3>2 DEF LooseUser
    <3>. QED  BY <3>3 DEF used
  <2>. QED  BY <2>1 DEF total
<1>5. PanelTyped' /\ NodesTyped' /\ HistoryTyped'
  BY <1>1, <1>4 DEF Books, Typed, PanelTyped, NodesTyped, HistoryTyped
<1>6. j \in LooseJob /\ j.at = "resets" /\ Taken(j) = 0
  BY AtJobs
<1>. HIDE DEF j
<1>7. \A c \in [Peer -> Nat] : Covers(c) => Within(c, kernel', peers', j)
  BY <1>1, <1>6, AsTheyAre DEF Within
<1>8. /\ user'.wg <= history.wg /\ user'.used = user'.xray + user'.wg
      /\ Entry(xray.bytes + Taken(job[w]), xray'.bytes + Taken(j))
  BY <1>1, <1>2, <1>4, <1>6, AsTheyAre DEF Entry
<1>. QED  BY <1>1, <1>5, <1>6, <1>7, <1>8, WorkerStep

(* What a reset or any other change that counts no bytes does to the books. *)
LEMMA RowStep ==
  ASSUME Books, NEW w \in Worker, NEW j \in LooseJob, Goto(w, j),
         Taken(j) = 0, Taken(job[w]) = 0, j.at # "wgWrite",
         user' \in LooseUser, client' \in BOOLEAN, peers' \in [Peer -> LoosePeer],
         \A p \in Peer : /\ peers'[p].rx \in {0, peers[p].rx}
                         /\ peers'[p].base \in {0, peers[p].base, peers[p].rx},
         NEW reset \in BOOLEAN,
         IF reset THEN Cleared(user') ELSE SameBill(user, user'),
         history' = Forgive(user, reset),
         UNCHANGED <<now, nodes>>
  PROVE  Kept
<1>1. now' = now /\ kernel' = kernel /\ xray' = xray
  BY DEF nodes
<1>2. /\ HistoryTyped' /\ history'.xray = history.xray /\ history'.wg = history.wg
      /\ history'.xrayForgiven = history.xrayForgiven + (IF reset THEN user.xray ELSE 0)
  <2>1. history \in [xray : Bytes, wg : Bytes, xrayForgiven : Nat,
                     wgForgiven : 0..MaxBytes + 1, crashes : 0..MaxCrashes]
    BY DEF Books, Typed, HistoryTyped
  <2>2. CASE reset
    <3> DEFINE sum == history.wgForgiven + user.wg
               n == IF sum > MaxBytes THEN MaxBytes + 1 ELSE sum
               m == history.xrayForgiven + user.xray
    <3>1. history' = [history EXCEPT !.xrayForgiven = m, !.wgForgiven = n]
      BY <2>2 DEF Forgive
    <3>2. n \in 0..MaxBytes + 1 /\ m \in Nat
      BY <2>1, AsTheyAre, AccountingAssumption
    <3>. HIDE DEF n, m
    <3>3. HistoryTyped' /\ history'.xray = history.xray /\ history'.wg = history.wg
          /\ history'.xrayForgiven = m
      BY <2>1, <3>1, <3>2 DEF HistoryTyped
    <3>. QED  BY <2>2, <3>3 DEF m
  <2>3. CASE ~reset
    BY <2>1, <2>3, AsTheyAre DEF Forgive, HistoryTyped
  <2>. QED  BY <2>2, <2>3
<1>3. PanelTyped' /\ NodesTyped'
  BY <1>1 DEF Books, Typed, PanelTyped, NodesTyped
<1>4. \A c \in [Peer -> Nat] : Covers(c) => Within(c, kernel', peers', j)
  <2>1. ASSUME NEW c \in [Peer -> Nat], Covers(c), NEW p \in Peer
        PROVE  kernel'[p].bytes <= c[p] /\ peers'[p].rx <= c[p] /\ peers'[p].base <= c[p]
    <3>1. kernel[p].bytes <= c[p] /\ peers[p].rx <= c[p] /\ peers[p].base <= c[p]
      BY <2>1, AsTheyAre
    <3>2. c[p] \in Nat
      OBVIOUS
    <3>. QED  BY <1>1, <3>1, <3>2
  <2>. QED  BY <2>1 DEF Within
<1>5. /\ user'.wg <= history.wg /\ user'.used = user'.xray + user'.wg
      /\ Entry(xray.bytes + Taken(job[w]), xray'.bytes + Taken(j))
  <2>1. CASE reset
    BY <1>1, <1>2, <2>1, AsTheyAre DEF Cleared, Entry
  <2>2. CASE ~reset
    BY <1>1, <1>2, <2>2, AsTheyAre DEF SameBill, Entry
  <2>. QED  BY <2>1, <2>2
<1>. QED  BY <1>2, <1>3, <1>4, <1>5, WorkerStep

LEMMA ResetsBooks == ASSUME Books, NEW w \in Worker, Resets(w) PROVE Kept
<1> DEFINE due == user.days > 0 /\ user.nextReset # Never /\ now >= user.nextReset
           t == advanceResetAt(user.nextReset, user.days)
           n == IF user.days = 0 THEN Never
                ELSE IF user.nextReset = Never THEN now + user.days ELSE user.nextReset
           f == Forgiven(user)
           status == IF f.status = "quota-exceeded" THEN "active" ELSE f.status
           j == At("enforce")
<1>1. /\ job[w].at = "resets" /\ Goto(w, j) /\ now' = now /\ client' = client /\ UNCHANGED nodes
      /\ history' = Forgive(user, due)
      /\ peers' = IF due THEN [p \in Peer |-> [peers[p] EXCEPT !.base = peers[p].rx]] ELSE peers
  BY DEF Resets
<1>2. /\ f \in LooseUser /\ Cleared(f) /\ f.nextReset = user.nextReset
      /\ user.days \in Days /\ user.nextReset \in ResetTime
  BY ForgivenRow, AsTheyAre DEF LooseUser, Forgiven
<1>3. user' = IF due THEN [f EXCEPT !.status = status, !.nextReset = t]
                     ELSE [user EXCEPT !.nextReset = n]
  BY <1>2 DEF Resets
<1>4. n \in ResetTime /\ (due => t \in ResetTime)
  <2>1. now \in 0..MaxTime
    BY DEF Books, Typed, PanelTyped
  <2>. QED  BY <1>2, <2>1, ResetTimes
<1>5. status \in Status
  BY <1>2 DEF LooseUser, Status, LifecycleStatus
<1>. HIDE DEF t, n, f, status, j
<1>6. user' \in LooseUser /\ IF due THEN Cleared(user') ELSE SameBill(user, user')
  <2>1. CASE due
    <3> DEFINE g == [f EXCEPT !.status = status]
    <3>1. g \in LooseUser /\ Cleared(g) /\ user' = [g EXCEPT !.nextReset = t]
      BY <1>2, <1>3, <1>5, <2>1 DEF LooseUser, Cleared
    <3>. HIDE DEF g
    <3>. QED  BY <1>4, <2>1, <3>1, NextResetRow
  <2>2. CASE ~due
    BY <1>3, <1>4, <2>2, NextResetRow, AsTheyAre
  <2>. QED  BY <2>1, <2>2
<1>7. /\ peers' \in [Peer -> LoosePeer]
      /\ \A p \in Peer : /\ peers'[p].rx \in {0, peers[p].rx}
                         /\ peers'[p].base \in {0, peers[p].base, peers[p].rx}
  <2>1. peers \in [Peer -> LoosePeer]
    BY DEF Books, Typed, PanelTyped
  <2>. QED  BY <1>1, <2>1 DEF LoosePeer
<1>8. j \in LooseJob /\ j.at = "enforce" /\ Taken(j) = 0 /\ Taken(job[w]) = 0
  BY <1>1, AtJobs DEF j, Taken
<1>9. due \in BOOLEAN /\ client' \in BOOLEAN
  BY <1>1 DEF Books, Typed, PanelTyped
<1>. HIDE DEF due
<1>. QED  BY <1>1, <1>6, <1>7, <1>8, <1>9, RowStep

LEMMA EnforceBooks == ASSUME Books, NEW w \in Worker, Enforce(w) PROVE Kept
<1> DEFINE summed == [user EXCEPT !.used = user.wg + user.xray]
           status == EnforcedStatus(summed)
           desired == status = "active"
           S == {q \in Peer : peers[q].enabled # desired}
           todo == [p \in S |-> desired]
           busy == client # desired \/ user.status # status
           built == [at |-> "build", cycle |-> TRUE, todo |-> todo]
           called == [at |-> "peers", todo |-> todo]
           j == IF busy THEN built ELSE called
<1>1. /\ job[w].at = "enforce" /\ Goto(w, j) /\ now' = now /\ history' = history /\ UNCHANGED nodes
      /\ user' = [summed EXCEPT !.status = status] /\ client' = desired
      /\ peers' = [p \in Peer |-> [peers[p] EXCEPT !.enabled = desired]]
  BY DEF Enforce
<1>2. summed \in LooseUser /\ SameBill(user, summed)
  <2>1. user \in LooseUser /\ user.used = user.wg + user.xray /\ user.used \in Nat
    BY AsTheyAre
  <2>. QED  BY <2>1 DEF LooseUser, SameBill
<1>. HIDE DEF summed
<1>3. status \in Status
  BY <1>2 DEF EnforcedStatus, Status, LifecycleStatus, LooseUser
<1>. HIDE DEF status
<1>4. user' \in LooseUser /\ SameBill(user, user')
  BY <1>1, <1>2, <1>3 DEF LooseUser, SameBill
<1>5. desired \in BOOLEAN
  OBVIOUS
<1>. HIDE DEF desired
<1>6. todo \in Todo
  <2>1. DOMAIN todo \subseteq Peer /\ todo \in [DOMAIN todo -> BOOLEAN]
    BY <1>5
  <2>. QED  BY <2>1, PartialFunctions
<1>. HIDE DEF todo
<1>7. /\ built \in LooseJob /\ built.at = "build" /\ called \in LooseJob /\ called.at = "peers"
  BY <1>6 DEF LooseJob, BuildJob, PeersJob
<1>. HIDE DEF built, called, busy
<1>8. j \in LooseJob /\ j.at # "wgWrite" /\ Taken(j) = 0 /\ Taken(job[w]) = 0
  BY <1>1, <1>7 DEF Taken
<1>. HIDE DEF j
<1>9. /\ peers' \in [Peer -> LoosePeer]
      /\ \A p \in Peer : /\ peers'[p].rx \in {0, peers[p].rx}
                         /\ peers'[p].base \in {0, peers[p].base, peers[p].rx}
  <2>1. peers \in [Peer -> LoosePeer]
    BY DEF Books, Typed, PanelTyped
  <2>. QED  BY <1>1, <1>5, <2>1 DEF LoosePeer
<1>10. history' = Forgive(user, FALSE) /\ client' \in BOOLEAN
  BY <1>1, <1>5 DEF Forgive
<1>. QED  BY <1>1, <1>4, <1>8, <1>9, <1>10, RowStep

LEMMA PeerCallBooks == ASSUME Books, NEW w \in Worker, PeerCall(w) PROVE Kept
<1>1. PICK p \in DOMAIN job[w].todo, done \in BOOLEAN, ok \in BOOLEAN :
        /\ kernel' = IF ~done \/ kernel[p].installed = job[w].todo[p] THEN kernel
                     ELSE [kernel EXCEPT ![p] = [installed |-> job[w].todo[p], bytes |-> 0]]
        /\ Goto(w, [at |-> "peerDone", todo |-> job[w].todo, peer |-> p, ok |-> ok])
  BY DEF PeerCall
<1>2. /\ now' = now /\ user' = user /\ client' = client /\ peers' = peers /\ xray' = xray
      /\ history' = history /\ job[w].at = "peers"
  BY DEF PeerCall, panel
<1> DEFINE todo == job[w].todo
           j == [at |-> "peerDone", todo |-> todo, peer |-> p, ok |-> ok]
<1>3. todo \in Todo
  BY <1>2, Places DEF Books, Typed, JobsTyped
<1>4. p \in Peer /\ todo[p] \in BOOLEAN
  BY <1>3, PartialFunctions
<1>5. kernel \in [Peer -> [installed : BOOLEAN, bytes : Nat]]
  BY DEF Books, Typed, NodesTyped
<1>6. /\ kernel' \in [Peer -> [installed : BOOLEAN, bytes : Nat]]
      /\ \A q \in Peer : kernel'[q].bytes \in {0, kernel[q].bytes}
  BY <1>1, <1>4, <1>5
<1>. HIDE DEF todo
<1>7. j \in LooseJob /\ j.at = "peerDone" /\ Taken(j) = 0 /\ Taken(job[w]) = 0
  BY <1>2, <1>3, <1>4 DEF LooseJob, DoneJob, Taken
<1>8. Goto(w, j)
  BY <1>1 DEF todo
<1>. HIDE DEF j
<1>9. PanelTyped' /\ NodesTyped' /\ HistoryTyped'
  BY <1>2, <1>6 DEF Books, Typed, PanelTyped, NodesTyped, HistoryTyped
<1>10. \A c \in [Peer -> Nat] : Covers(c) => Within(c, kernel', peers', j)
  <2>1. ASSUME NEW c \in [Peer -> Nat], Covers(c), NEW q \in Peer
        PROVE  kernel'[q].bytes <= c[q] /\ peers'[q].rx <= c[q] /\ peers'[q].base <= c[q]
    <3>1. kernel[q].bytes <= c[q] /\ peers[q].rx <= c[q] /\ peers[q].base <= c[q]
      BY <2>1, AsTheyAre
    <3>2. c[q] \in Nat
      OBVIOUS
    <3>. QED  BY <1>2, <1>6, <3>1, <3>2
  <2>. QED  BY <1>7, <2>1 DEF Within
<1>11. /\ user'.wg <= history.wg /\ user'.used = user'.xray + user'.wg
       /\ Entry(xray.bytes + Taken(job[w]), xray'.bytes + Taken(j))
  BY <1>2, <1>7, AsTheyAre DEF Entry
<1>. QED  BY <1>2, <1>7, <1>8, <1>9, <1>10, <1>11, WorkerStep

LEMMA PeerDoneBooks == ASSUME Books, NEW w \in Worker, PeerDone(w) PROVE Kept
<1> DEFINE p == job[w].peer
           todo == job[w].todo
           left == [q \in DOMAIN todo \ {p} |-> todo[q]]
           j == [at |-> "peers", todo |-> left]
<1>1. /\ now' = now /\ user' = user /\ client' = client /\ UNCHANGED nodes
      /\ history' = history /\ job[w].at = "peerDone" /\ Goto(w, j)
      /\ peers' = IF ~job[w].ok THEN [peers EXCEPT ![p].enabled = ~todo[p]]
                  ELSE IF todo[p] THEN [peers EXCEPT ![p].rx = 0, ![p].base = 0]
                  ELSE peers
  BY DEF PeerDone
<1>2. todo \in Todo /\ p \in Peer
  BY <1>1, Places DEF Books, Typed, JobsTyped
<1>3. left \in Todo
  <2>1. DOMAIN todo \subseteq Peer /\ todo \in [DOMAIN todo -> BOOLEAN]
    BY <1>2, PartialFunctions
  <2>2. DOMAIN left \subseteq Peer /\ left \in [DOMAIN left -> BOOLEAN]
    BY <2>1
  <2>. QED  BY <2>2, PartialFunctions
<1>. HIDE DEF left, p
<1>4. j \in LooseJob /\ j.at = "peers" /\ Taken(j) = 0 /\ Taken(job[w]) = 0
  BY <1>1, <1>3 DEF LooseJob, PeersJob, Taken
<1>. HIDE DEF j
<1>5. /\ peers' \in [Peer -> LoosePeer]
      /\ \A q \in Peer : /\ peers'[q].rx \in {0, peers[q].rx}
                         /\ peers'[q].base \in {0, peers[q].base, peers[q].rx}
  <2>1. peers \in [Peer -> LoosePeer] /\ peers[p] \in LoosePeer
    BY <1>2 DEF Books, Typed, PanelTyped
  <2>2. PICK row \in LoosePeer :
          /\ peers' = [peers EXCEPT ![p] = row]
          /\ row.rx \in {0, peers[p].rx} /\ row.base \in {0, peers[p].base}
    <3>1. CASE ~job[w].ok
      <4> DEFINE row == [peers[p] EXCEPT !.enabled = ~todo[p]]
      <4>1. row \in LoosePeer /\ row.rx = peers[p].rx /\ row.base = peers[p].base
        BY <2>1 DEF LoosePeer
      <4>2. peers' = [peers EXCEPT ![p] = row]
        BY <1>1, <3>1
      <4>. HIDE DEF row
      <4>. QED  BY <4>1, <4>2
    <3>2. CASE job[w].ok /\ todo[p]
      <4> DEFINE row == [peers[p] EXCEPT !.rx = 0, !.base = 0]
      <4>1. row \in LoosePeer /\ row.rx = 0 /\ row.base = 0
        BY <2>1 DEF LoosePeer
      <4>2. peers' = [peers EXCEPT ![p] = row]
        BY <1>1, <3>2
      <4>. HIDE DEF row
      <4>. QED  BY <4>1, <4>2
    <3>3. CASE job[w].ok /\ ~todo[p]
      <4>1. peers' = [peers EXCEPT ![p] = peers[p]]
        BY <1>1, <1>2, <2>1, <3>3
      <4>. QED  BY <2>1, <4>1
    <3>. QED  BY <3>1, <3>2, <3>3
  <2>. QED  BY <1>2, <2>1, <2>2
<1>6. history' = Forgive(user, FALSE) /\ client' \in BOOLEAN
  BY <1>1 DEF Forgive, Books, Typed, PanelTyped
<1>7. user' \in LooseUser /\ SameBill(user, user')
  BY <1>1, AsTheyAre DEF SameBill
<1>. QED  BY <1>1, <1>4, <1>5, <1>6, <1>7, RowStep

(* A change of the user's row alone, after which his nodes are deployed.    *)
LEMMA RowOnly ==
  ASSUME Books, NEW w \in Worker, NEW j \in LooseJob, Goto(w, j),
         job[w].at \in {"idle", "reconcile"}, j.at \in {"build", "idle"},
         UNCHANGED <<now, client, peers, nodes>>,
         NEW reset \in BOOLEAN, user' \in LooseUser,
         IF reset THEN Cleared(user') ELSE SameBill(user, user'),
         history' = Forgive(user, reset)
  PROVE  Kept
<1>1. Taken(j) = 0 /\ Taken(job[w]) = 0 /\ j.at # "wgWrite"
  BY DEF Taken
<1>2. client' \in BOOLEAN /\ peers' \in [Peer -> LoosePeer] /\ peers' = peers
  BY DEF Books, Typed, PanelTyped
<1>. QED  BY <1>1, <1>2, RowStep

LEMMA BuildJobs ==
  LET j == [at |-> "build", cycle |-> FALSE, todo |-> Nobody]
  IN  j \in LooseJob /\ j.at = "build"
<1>1. Nobody \in Todo
  BY PartialFunctions DEF Nobody
<1>. QED  BY <1>1 DEF LooseJob, BuildJob

LEMMA ReconcileBooks == ASSUME Books, Reconcile PROVE Kept
<1> DEFINE due == user.days > 0 /\ user.nextReset # Never /\ now >= user.nextReset
           f == Forgiven(user)
           t == advanceResetAt(user.nextReset, user.days)
           row == IF due THEN [f EXCEPT !.nextReset = t] ELSE user
           j == IF due \/ Reconciled(row) # user
                THEN [at |-> "build", cycle |-> FALSE, todo |-> Nobody] ELSE At("idle")
<1>1. /\ f \in LooseUser /\ Cleared(f) /\ f.nextReset = user.nextReset
      /\ user.days \in Days /\ user.nextReset \in ResetTime
  BY ForgivenRow, AsTheyAre DEF LooseUser, Forgiven
<1>2. /\ job[Loop].at = "reconcile" /\ user' = Reconciled(row) /\ history' = Forgive(user, due)
      /\ Goto(Loop, j) /\ UNCHANGED <<now, client, peers, nodes>>
  BY <1>1 DEF Reconcile
<1>3. due => t \in ResetTime
  <2>1. now \in 0..MaxTime
    BY DEF Books, Typed, PanelTyped
  <2>. QED  BY <1>1, <2>1, ResetTimes
<1>. HIDE DEF f, t
<1>4. row \in LooseUser /\ IF due THEN Cleared(row) ELSE SameBill(user, row)
  <2>1. CASE due
    BY <1>1, <1>3, <2>1, NextResetRow
  <2>2. CASE ~due
    BY <2>2, AsTheyAre DEF SameBill
  <2>. QED  BY <2>1, <2>2
<1>5. due \in BOOLEAN
  OBVIOUS
<1>6. j \in LooseJob /\ j.at \in {"build", "idle"}
  BY BuildJobs, AtJobs
<1>. HIDE DEF row, due, j
<1>7. user' \in LooseUser /\ IF due THEN Cleared(user') ELSE SameBill(user, user')
  BY <1>2, <1>4, ReconciledRow DEF Cleared, SameBill
<1>. QED  BY <1>2, <1>5, <1>6, <1>7, RowOnly DEF Worker

(* Requests of administrators.                                              *)
LEMMA ChangeBooks ==
  ASSUME Books, NEW r \in Req, NEW next \in LooseUser, Change(r, next), NEW reset \in BOOLEAN,
         IF reset THEN Cleared(next) ELSE SameBill(user, next),
         history' = Forgive(user, reset)
  PROVE  Kept
<1> DEFINE j == [at |-> "build", cycle |-> FALSE, todo |-> Nobody]
<1>1. /\ job[r].at = "idle" /\ user' = next /\ Goto(r, j) /\ UNCHANGED <<now, client, peers, nodes>>
  BY DEF Change
<1>2. j \in LooseJob /\ j.at = "build"
  BY BuildJobs
<1>3. r \in Worker
  BY DEF Worker
<1>. HIDE DEF j
<1>. QED  BY <1>1, <1>2, <1>3, RowOnly

LEMMA Unless ==
  ASSUME NEW u \in LooseUser
  PROVE  \A v \in {WithStatus(u, "active"), Reconciled(u)} :
           UnlessDisabled(u, v) \in LooseUser /\ SameBill(u, UnlessDisabled(u, v))
<1>1. /\ WithStatus(u, "active") \in LooseUser /\ SameBill(u, WithStatus(u, "active"))
      /\ Reconciled(u) \in LooseUser /\ SameBill(u, Reconciled(u))
  BY StatusRow, ReconciledRow DEF LifecycleStatus
<1>. QED  BY <1>1 DEF UnlessDisabled, SameBill

LEMMA RequestBooks == ASSUME Books, NEW r \in Req, AdminRequest(r) PROVE Kept
<1>1. user \in LooseUser /\ now \in 0..MaxTime /\ MaxTime \in Nat
  BY AccountingAssumption DEF Books, Typed, PanelTyped
<1>2. user.days \in Days /\ user.nextReset \in ResetTime /\ user.expires \in Expiry
  BY <1>1 DEF LooseUser
<1>3. \A u, v : SameBill(u, v) => /\ Cleared(u) => Cleared(v)
                                /\ \A w : SameBill(v, w) => SameBill(u, w)
  BY DEF SameBill, Cleared
<1>4. SameBill(user, user)
  BY DEF SameBill
<1>5. history' = history => history' = Forgive(user, FALSE)
  BY DEF Forgive
<1>6. CASE Enable(r)
  <2>1. Change(r, WithStatus(user, "active")) /\ history' = history
    BY <1>6 DEF Enable
  <2>2. WithStatus(user, "active") \in LooseUser /\ SameBill(user, WithStatus(user, "active"))
    BY <1>1, StatusRow DEF LifecycleStatus
  <2>. QED  BY <1>5, <2>1, <2>2, ChangeBooks
<1>7. CASE Disable(r)
  <2>1. Change(r, WithStatus(user, "disabled")) /\ history' = history
    BY <1>7 DEF Disable
  <2>2. WithStatus(user, "disabled") \in LooseUser /\ SameBill(user, WithStatus(user, "disabled"))
    BY <1>1, StatusRow DEF LifecycleStatus
  <2>. QED  BY <1>5, <2>1, <2>2, ChangeBooks
<1>8. CASE ResetTraffic(r)
  <2> DEFINE f == Forgiven(user)
             u == [f EXCEPT !.nextReset = NextReset(user.days)]
  <2>1. Change(r, Reconciled(u)) /\ history' = Forgive(user, TRUE)
    BY <1>8 DEF ResetTraffic
  <2>2. f \in LooseUser /\ Cleared(f) /\ NextReset(user.days) \in ResetTime
    BY <1>1, <1>2, ForgivenRow, ResetTimes
  <2>. HIDE DEF f
  <2>3. u \in LooseUser /\ Cleared(u)
    BY <2>2, NextResetRow
  <2>. HIDE DEF u
  <2>4. Reconciled(u) \in LooseUser /\ Cleared(Reconciled(u))
    BY <1>3, <2>3, ReconciledRow
  <2>. QED  BY <2>1, <2>4, ChangeBooks
<1>9. CASE Renew(r)
  <2>1. PICK days \in 1..MaxTime :
          LET renewed == [user EXCEPT !.expires = (IF @ > now THEN @ ELSE now) + days] IN
          /\ renewed.expires <= 2 * MaxTime
          /\ Change(r, UnlessDisabled(renewed, WithStatus(renewed, "active")))
    BY <1>9 DEF Renew
  <2> DEFINE end == (IF user.expires > now THEN user.expires ELSE now) + days
             u == [user EXCEPT !.expires = end]
             v == UnlessDisabled(u, WithStatus(u, "active"))
  <2>2. u.expires <= 2 * MaxTime /\ Change(r, v)
    BY <2>1
  <2>3. u.expires = end
    BY <1>1 DEF LooseUser
  <2>4. end \in Expiry
    <3>1. user.expires \in Nat /\ now \in Nat /\ days \in Nat
      BY <1>1, <1>2 DEF Expiry
    <3>2. end \in Nat
      BY <3>1
    <3>. HIDE DEF end
    <3>. QED  BY <1>1, <2>2, <2>3, <3>2 DEF Expiry
  <2>. HIDE DEF end
  <2>5. u \in LooseUser /\ SameBill(user, u)
    BY <1>1, <2>4, ExpiryRow
  <2>. HIDE DEF u
  <2>6. v \in LooseUser /\ SameBill(user, v)
    BY <1>3, <2>5, Unless
  <2>7. history' = history
    BY <1>9 DEF Renew
  <2>. HIDE DEF v
  <2>. QED  BY <1>5, <2>2, <2>6, <2>7, ChangeBooks
<1>10. CASE ApplyPlan(r)
  <2>1. PICK limit \in Limit, days \in Days, duration \in 0..MaxTime, reset \in BOOLEAN :
          LET bare == IF reset THEN Forgiven(user) ELSE user
              planned == [bare EXCEPT !.limit = limit, !.days = days,
                                      !.expires = IF duration > 0 THEN now + duration ELSE @,
                                      !.nextReset = NextReset(days)]
          IN /\ Change(r, UnlessDisabled(planned, WithStatus(planned, "active")))
             /\ history' = Forgive(user, reset)
    BY <1>10 DEF ApplyPlan
  <2> DEFINE bare == IF reset THEN Forgiven(user) ELSE user
             end == IF duration > 0 THEN now + duration ELSE bare.expires
             t == NextReset(days)
             u == [bare EXCEPT !.limit = limit, !.days = days, !.expires = end, !.nextReset = t]
             v == UnlessDisabled(u, WithStatus(u, "active"))
  <2>2. Change(r, v) /\ history' = Forgive(user, reset)
    BY <2>1
  <2>3. bare \in LooseUser /\ IF reset THEN Cleared(bare) ELSE SameBill(user, bare)
    BY <1>1, <1>4, ForgivenRow
  <2>. HIDE DEF bare
  <2>4. end \in Expiry
    BY <1>1, <2>3 DEF Expiry, LooseUser
  <2>5. t \in ResetTime
    BY <1>1, ResetTimes
  <2>. HIDE DEF end, t
  <2>6. u \in LooseUser /\ SameBill(bare, u)
    BY <2>3, <2>4, <2>5, PlanRow
  <2>. HIDE DEF u
  <2>7. v \in LooseUser /\ SameBill(bare, v)
    BY <1>3, <2>6, Unless
  <2>. HIDE DEF v
  <2>8. IF reset THEN Cleared(v) ELSE SameBill(user, v)
    BY <1>3, <2>3, <2>7
  <2>. QED  BY <2>2, <2>7, <2>8, ChangeBooks
<1>11. CASE Edit(r)
  <2>1. PICK limit \in Limit, days \in Days, expires \in 0..MaxTime :
          LET edited == [user EXCEPT !.limit = limit, !.days = days, !.expires = expires,
                                     !.nextReset = IF @ = Never THEN NextReset(days) ELSE @]
          IN Change(r, UnlessDisabled(edited, Reconciled(edited)))
    BY <1>11 DEF Edit
  <2> DEFINE t == IF user.nextReset = Never THEN NextReset(days) ELSE user.nextReset
             u == [user EXCEPT !.limit = limit, !.days = days, !.expires = expires, !.nextReset = t]
             v == UnlessDisabled(u, Reconciled(u))
  <2>2. Change(r, v) /\ history' = history
    BY <1>11, <2>1 DEF Edit
  <2>3. t \in ResetTime /\ expires \in Expiry
    BY <1>1, <1>2, ResetTimes DEF Expiry
  <2>. HIDE DEF t
  <2>4. u \in LooseUser /\ SameBill(user, u)
    BY <1>1, <2>3, PlanRow
  <2>. HIDE DEF u
  <2>5. v \in LooseUser /\ SameBill(user, v)
    BY <1>3, <2>4, Unless
  <2>. HIDE DEF v
  <2>. QED  BY <1>5, <2>2, <2>5, ChangeBooks
<1>. QED  BY <1>6, <1>7, <1>8, <1>9, <1>10, <1>11 DEF AdminRequest

(* Steps in which no worker moves.                                          *)
LEMMA StillBooks ==
  ASSUME Books, job' = job, Typed', SameBill(user, user'),
         history'.xrayForgiven = history.xrayForgiven,
         NEW more \in {0, 1}, history'.xray = history.xray + more,
         IF more = 1 THEN xray'.bytes = xray.bytes + 1 ELSE xray'.bytes <= xray.bytes,
         user.wg <= history'.wg, Carried'
  PROVE  Kept
<1>1. Total(Flight) \in Nat
  <2>1. Flight \in [Worker -> Nat]
    BY FlightTyped DEF Books, Typed
  <2>. QED  BY <2>1, Finite, TotalBounds
<1>2. Total(Flight)' = Total(Flight)
  BY DEF Flight, InFlight
<1> DEFINE before == xray.bytes + Total(Flight)
           after == xray'.bytes + Total(Flight)
<1>3. Pending = before /\ Pending' = after /\ user.xray + history.xrayForgiven + before <= history.xray
  BY <1>2 DEF Books, Charged, BilledOnce, WireGuardBounded, Pending
<1>4. xray'.bytes \in Nat /\ history'.xray \in Nat /\ before \in Nat /\ after \in Nat
  BY <1>1, AsTheyAre DEF Typed, NodesTyped, HistoryTyped, Bytes
<1>5. IF more = 1 THEN after = before + 1 ELSE after <= before
  BY <1>1, <1>4, AsTheyAre
<1>. HIDE DEF before, after
<1>6. user'.xray + history'.xrayForgiven + Pending' <= history'.xray
  BY <1>3, <1>4, <1>5, AsTheyAre DEF SameBill
<1>7. user'.wg <= history'.wg /\ user'.used = user'.xray + user'.wg
  BY AsTheyAre DEF SameBill
<1>8. Books'
  BY <1>6, <1>7 DEF Books, Charged, BilledOnce, WireGuardBounded
<1>9. CASE more = 1
  BY <1>3, <1>4, <1>5, <1>8, <1>9 DEF SameBill, Kept, Bill!Next, Bill!Carry
<1>10. CASE more = 0
  <2>1. Entry(before, after)
    BY <1>4, <1>5, <1>10, AsTheyAre DEF SameBill, Entry
  <2>. QED  BY <1>3, <1>4, <1>8, <2>1, AsTheyAre, EntryIsStep DEF SameBill, Kept
<1>. QED  BY <1>9, <1>10

LEMMA CarriedStill ==
  ASSUME Books, job' = job, peers' = peers, history'.wg = history.wg,
         \A p \in Peer : kernel'[p].bytes \in {0, kernel[p].bytes}
  PROVE  Carried'
<1>1. PICK c \in [Peer -> Nat] : Covers(c)
  BY DEF Books, Carried
<1>2. \A p \in Peer : kernel'[p].bytes <= c[p]
  <2>1. \A p \in Peer : c[p] \in Nat
    OBVIOUS
  <2>. QED  BY <1>1, <2>1 DEF Covers
<1>3. Covers(c)'
  BY <1>1, <1>2 DEF Covers
<1>. QED  BY <1>3 DEF Carried

LEMMA WorldBooks ==
  ASSUME Books, EditPlan \/ Tick \/ CarryXray \/ RebootNode \/ UNCHANGED vars
  PROVE  Kept
<1>1. user \in LooseUser /\ SameBill(user, user)
  BY AsTheyAre DEF SameBill
<1>2. CASE EditPlan
  <2>1. PICK limit \in Limit, days \in Days : user' = [user EXCEPT !.limit = limit, !.days = days]
    BY <1>2 DEF EditPlan
  <2>2. /\ now' = now /\ client' = client /\ peers' = peers /\ kernel' = kernel /\ xray' = xray
        /\ job' = job /\ history' = history
    BY <1>2 DEF EditPlan, nodes
  <2>3. user' \in LooseUser /\ SameBill(user, user')
    BY <1>1, <2>1, TermsRow
  <2>4. Typed' /\ Carried'
    BY <2>2, <2>3, CarriedStill
      DEF Books, Typed, PanelTyped, NodesTyped, JobsTyped, HistoryTyped
  <2>5. history'.xray = history.xray + 0 /\ xray'.bytes <= xray.bytes
    BY <2>2, AsTheyAre
  <2>. QED  BY <2>2, <2>3, <2>4, <2>5, AsTheyAre, StillBooks
<1>3. CASE Tick \/ UNCHANGED vars
  <2>1. /\ user' = user /\ client' = client /\ peers' = peers /\ kernel' = kernel /\ xray' = xray
        /\ job' = job /\ history' = history
        /\ now' \in 0..MaxTime
    BY <1>3, AccountingAssumption
      DEF Tick, vars, panel, nodes, Books, Typed, PanelTyped
  <2>2. Typed' /\ Carried'
    BY <2>1, CarriedStill DEF Books, Typed, PanelTyped, NodesTyped, JobsTyped, HistoryTyped
  <2>3. history'.xray = history.xray + 0 /\ xray'.bytes <= xray.bytes
    BY <2>1, AsTheyAre
  <2>. QED  BY <1>1, <2>1, <2>2, <2>3, AsTheyAre, StillBooks
<1>4. CASE CarryXray
  <2> DEFINE n == xray.bytes + 1
             m == history.xray + 1
  <2>1. /\ now' = now /\ user' = user /\ client' = client /\ peers' = peers
        /\ kernel' = kernel /\ job' = job
        /\ xray' = [xray EXCEPT !.bytes = n] /\ history' = [history EXCEPT !.xray = m]
    BY <1>4 DEF CarryXray, panel
  <2>2. n \in Nat /\ m \in Bytes
    BY <1>4, AccountingAssumption, AsTheyAre DEF CarryXray, Bytes
  <2>3. history \in [xray : Bytes, wg : Bytes, xrayForgiven : Nat,
                     wgForgiven : 0..MaxBytes + 1, crashes : 0..MaxCrashes]
    BY DEF Books, Typed, HistoryTyped
  <2>4. xray \in [serving : BOOLEAN, bytes : Nat]
    BY DEF Books, Typed, NodesTyped
  <2>. HIDE DEF n, m
  <2>5. /\ HistoryTyped' /\ history'.wg = history.wg /\ history'.xray = m
        /\ history'.xrayForgiven = history.xrayForgiven
    BY <2>1, <2>2, <2>3 DEF HistoryTyped
  <2>6. xray' \in [serving : BOOLEAN, bytes : Nat] /\ xray'.bytes = n
    BY <2>1, <2>2, <2>4
  <2>7. Typed' /\ Carried'
    BY <2>1, <2>5, <2>6, CarriedStill DEF Books, Typed, PanelTyped, NodesTyped, JobsTyped
  <2>8. history'.xray = history.xray + 1 /\ xray'.bytes = xray.bytes + 1
    BY <2>5, <2>6 DEF n, m
  <2>. QED  BY <1>1, <2>1, <2>5, <2>7, <2>8, AsTheyAre, StillBooks
<1>5. CASE RebootNode
  <2>1. /\ now' = now /\ user' = user /\ client' = client /\ peers' = peers
        /\ job' = job /\ history' = history /\ xray' = [xray EXCEPT !.bytes = 0]
        /\ kernel' = [p \in Peer |-> [kernel[p] EXCEPT !.bytes = 0]]
    BY <1>5 DEF RebootNode, panel
  <2>2. xray \in [serving : BOOLEAN, bytes : Nat]
        /\ kernel \in [Peer -> [installed : BOOLEAN, bytes : Nat]]
    BY DEF Books, Typed, NodesTyped
  <2>3. /\ xray' \in [serving : BOOLEAN, bytes : Nat] /\ xray'.bytes = 0
        /\ kernel' \in [Peer -> [installed : BOOLEAN, bytes : Nat]]
        /\ \A p \in Peer : kernel'[p].bytes = 0
    BY <2>1, <2>2
  <2>4. Typed' /\ Carried'
    BY <2>1, <2>3, CarriedStill DEF Books, Typed, PanelTyped, NodesTyped, JobsTyped, HistoryTyped
  <2>5. history'.xray = history.xray + 0 /\ xray'.bytes <= xray.bytes
    BY <2>1, <2>3, AsTheyAre
  <2>. QED  BY <1>1, <2>1, <2>4, <2>5, AsTheyAre, StillBooks
<1>. QED  BY <1>2, <1>3, <1>4, <1>5

(* A byte in WireGuard is one more of its peer.                             *)
LEMMA CarryWGBooks == ASSUME Books, NEW q \in Peer, CarryWG(q) PROVE Kept
<1> DEFINE n == kernel[q].bytes + 1
           m == history.wg + 1
<1>1. /\ now' = now /\ user' = user /\ client' = client /\ peers' = peers /\ xray' = xray
      /\ job' = job /\ history' = [history EXCEPT !.wg = m]
      /\ kernel' = [kernel EXCEPT ![q].bytes = n]
  BY DEF CarryWG, panel
<1>2. /\ history \in [xray : Bytes, wg : Bytes, xrayForgiven : Nat,
                     wgForgiven : 0..MaxBytes + 1, crashes : 0..MaxCrashes]
      /\ kernel \in [Peer -> [installed : BOOLEAN, bytes : Nat]]
  BY DEF Books, Typed, HistoryTyped, NodesTyped
<1>3. m \in Bytes /\ n \in Nat
  BY <1>2, AccountingAssumption, AsTheyAre DEF CarryWG, Bytes
<1>4. PICK c \in [Peer -> Nat] : Covers(c)
  BY DEF Books, Carried
<1> DEFINE d == [c EXCEPT ![q] = c[q] + 1]
<1>5. /\ d \in [Peer -> Nat] /\ d[q] = c[q] + 1 /\ \A p \in Peer : c[p] <= d[p]
      /\ \A p \in Peer : c[p] \in Nat /\ d[p] \in Nat
  OBVIOUS
<1>6. Total(d) = Total(c) + 1 /\ Total(c) \in Nat
  <2>1. c \in [Peer -> Int] /\ c[q] + 1 \in Int /\ c[q] \in Int
    OBVIOUS
  <2>2. Total(d) = Total(c) - c[q] + (c[q] + 1)
    BY <2>1, Finite, TotalUpdate
  <2>3. Total(c) \in Nat
    BY Finite, TotalBounds
  <2>. QED  BY <2>1, <2>2, <2>3
<1>. HIDE DEF m, d
<1>7. /\ HistoryTyped' /\ history'.wg = m /\ history'.xray = history.xray
      /\ history'.xrayForgiven = history.xrayForgiven
  BY <1>1, <1>2, <1>3 DEF HistoryTyped
<1>8. /\ kernel' \in [Peer -> [installed : BOOLEAN, bytes : Nat]]
      /\ kernel'[q].bytes = kernel[q].bytes + 1
      /\ \A p \in Peer : p # q => kernel'[p].bytes = kernel[p].bytes
  BY <1>1, <1>2, <1>3
<1>9. Typed'
  BY <1>1, <1>7, <1>8 DEF Books, Typed, PanelTyped, NodesTyped, JobsTyped
<1>10. ASSUME NEW p \in Peer
       PROVE  kernel'[p].bytes <= d[p] /\ peers'[p].rx <= d[p] /\ peers'[p].base <= d[p]
  <2>1. /\ kernel[p].bytes <= c[p] /\ peers[p].rx <= c[p] /\ peers[p].base <= c[p]
        /\ kernel[p].bytes \in Nat /\ peers[p].rx \in Nat /\ peers[p].base \in Nat
    BY <1>4, AsTheyAre DEF Books, Typed, PanelTyped, NodesTyped, LoosePeer
  <2>. QED  BY <1>1, <1>5, <1>8, <2>1
<1>11. ASSUME NEW w \in Worker, job[w].at = "wgWrite", NEW p \in DOMAIN job[w].seen
       PROVE  job[w].seen[p] <= d[p]
  <2>1. job[w].seen \in Seen
    BY <1>11, Places DEF Books, Typed, JobsTyped
  <2>2. p \in Peer /\ job[w].seen[p] \in Nat
    BY <2>1, PartialFunctions
  <2>3. job[w].seen[p] <= c[p]
    BY <1>4, <1>11 DEF Covers
  <2>. QED  BY <1>5, <2>2, <2>3
<1>12. Total(d) <= history'.wg
  BY <1>4, <1>6, <1>7, AsTheyAre DEF Covers, m
<1>13. Covers(d)'
  BY <1>1, <1>10, <1>11, <1>12 DEF Covers
<1>14. Carried'
  BY <1>5, <1>13 DEF Carried
<1>15. user.wg <= history'.wg
  <2>1. user.wg \in Nat /\ history.wg \in Nat /\ user.wg <= history.wg
    BY AsTheyAre
  <2>. QED  BY <1>7, <2>1 DEF m
<1>16. SameBill(user, user') /\ history'.xray = history.xray + 0 /\ xray'.bytes <= xray.bytes
  BY <1>1, <1>7, AsTheyAre DEF SameBill
<1>. QED  BY <1>1, <1>7, <1>9, <1>14, <1>15, <1>16, StillBooks

(* With everybody at the start of his work no bytes are on their way.       *)
LEMMA NoFlight ==
  ASSUME \A w \in Worker : job[w].at # "xrayWrite"
  PROVE  Total(Flight) = 0
<1>1. Flight = [w \in Worker |-> 0]
  BY DEF Flight, InFlight
<1>. QED  BY <1>1, Finite, ZeroTotal

LEMMA RestartBooks == ASSUME Books, Restart PROVE Kept
<1>1. /\ now' = now /\ user' = user /\ client' = client /\ peers' = peers
      /\ kernel' = kernel /\ xray' = xray
      /\ history' = [history EXCEPT !.crashes = history.crashes + 1]
      /\ history.crashes < MaxCrashes
      /\ job' = [w \in Worker |-> At(IF w = Loop THEN "reconcile" ELSE "idle")]
  BY DEF Restart, panel, nodes
<1>2. \A w \in Worker : job'[w] \in LooseJob /\ job'[w].at \in {"reconcile", "idle"}
  BY <1>1, AtJobs
<1>3. job' \in [Worker -> LooseJob]
  BY <1>1, <1>2
<1>4. /\ HistoryTyped' /\ history'.wg = history.wg /\ history'.xray = history.xray
      /\ history'.xrayForgiven = history.xrayForgiven
  <2> DEFINE n == history.crashes + 1
  <2>1. history \in [xray : Bytes, wg : Bytes, xrayForgiven : Nat,
                     wgForgiven : 0..MaxBytes + 1, crashes : 0..MaxCrashes]
    BY DEF Books, Typed, HistoryTyped
  <2>2. n \in 0..MaxCrashes
    BY <1>1, <2>1, AccountingAssumption
  <2>3. history' = [history EXCEPT !.crashes = n]
    BY <1>1
  <2>. HIDE DEF n
  <2>. QED  BY <2>1, <2>2, <2>3 DEF HistoryTyped
<1>5. Typed'
  BY <1>1, <1>3, <1>4 DEF Books, Typed, PanelTyped, NodesTyped, JobsTyped
<1>6. Carried'
  <2>1. PICK c \in [Peer -> Nat] : Covers(c)
    BY DEF Books, Carried
  <2>2. Covers(c)'
    BY <1>1, <1>2, <1>4, <2>1 DEF Covers
  <2>. QED  BY <2>2 DEF Carried
<1>7. Total(Flight) \in Nat
  <2>1. Flight \in [Worker -> Nat]
    BY FlightTyped DEF Books, Typed
  <2>. QED  BY <2>1, Finite, TotalBounds
<1>8. Total(Flight)' = 0
  <2>1. \A w \in Worker : InFlight(w)' = 0
    BY <1>2 DEF InFlight
  <2>2. Flight' = [w \in Worker |-> 0]
    BY <2>1 DEF Flight
  <2>3. Total([w \in Worker |-> 0]) = 0
    BY Finite, ZeroTotal
  <2>. QED  BY <2>2, <2>3
<1> DEFINE before == xray.bytes + Total(Flight)
           after == xray.bytes
<1>9. /\ Pending = before /\ Pending' = after /\ before \in Nat /\ after \in Nat
      /\ after <= before
  BY <1>1, <1>7, <1>8, AsTheyAre DEF Pending
<1>. HIDE DEF before, after
<1>10. Charged'
  <2>1. user.xray + history.xrayForgiven + before <= history.xray
    BY <1>9 DEF Books, Charged, BilledOnce, WireGuardBounded
  <2>2. user.xray + history.xrayForgiven + after <= history.xray
    BY <1>9, <2>1, AsTheyAre
  <2>. QED  BY <1>1, <1>4, <1>9, <2>2, AsTheyAre DEF Charged, BilledOnce, WireGuardBounded
<1>11. [Bill!Next]_Bill!vars
  <2>1. Entry(before, after)
    BY <1>1, <1>4, <1>9 DEF Entry
  <2>. QED  BY <1>1, <1>9, <2>1, AsTheyAre, EntryIsStep
<1>. QED  BY <1>5, <1>6, <1>10, <1>11 DEF Books, Kept

LEMMA InitBooks == Init => Books
<1>. SUFFICES ASSUME Init PROVE Books
  OBVIOUS
<1>0. MaxTime \in Nat /\ MaxBytes \in Nat /\ MaxCrashes \in Nat
  BY AccountingAssumption
<1>1. PICK limit \in Limit, days \in Days :
        user = [status |-> "active", reason |-> "active", xray |-> 0, wg |-> 0, used |-> 0,
                limit |-> limit, days |-> days, expires |-> Never, nextReset |-> days]
  BY DEF Init
<1>2. PanelTyped
  <2>1. now = 0 /\ days \in Nat
    BY AccountingAssumption DEF Init
  <2>2. days \in ResetTime /\ Never \in Expiry
    BY <1>0, <2>1 DEF ResetTime, Expiry, Never
  <2>3. user \in LooseUser
    BY <1>1, <2>2 DEF LooseUser, Status, LifecycleStatus
  <2>. QED  BY <1>0, <2>3 DEF Init, PanelTyped, LoosePeer
<1>3. NodesTyped
  BY DEF Init, NodesTyped
<1>4. JobsTyped /\ \A w \in Worker : job[w].at \in {"reconcile", "idle"}
  <2>1. \A w \in Worker : job[w] \in LooseJob /\ job[w].at \in {"reconcile", "idle"}
    BY AtJobs DEF Init
  <2>. QED  BY <2>1 DEF JobsTyped, Init
<1>5. HistoryTyped
  BY <1>0 DEF Init, HistoryTyped, Bytes
<1>6. Charged
  <2>1. Total(Flight) = 0
    BY <1>4, NoFlight
  <2>. QED  BY <1>1, <2>1 DEF Init, Charged, BilledOnce, WireGuardBounded, Pending
<1>7. Carried
  <2> DEFINE c == [p \in Peer |-> 0]
  <2>1. c \in [Peer -> Nat] /\ Total(c) = 0
    BY Finite, ZeroTotal
  <2>2. \A p \in Peer : c[p] = 0
    OBVIOUS
  <2>. HIDE DEF c
  <2>3. Covers(c)
    BY <1>4, <2>1, <2>2 DEF Init, Covers
  <2>. QED  BY <2>1, <2>3 DEF Carried
<1>. QED  BY <1>2, <1>3, <1>4, <1>5, <1>6, <1>7 DEF Books, Typed

LEMMA NextBooks == ASSUME Books, [Next]_vars PROVE Kept
<1>1. Loop \in Worker /\ \A r \in Req : r \in Worker
  BY DEF Worker
<1>2. ASSUME NEW w \in Worker, Sync(w) PROVE Kept
  BY <1>2, WGReadBooks, WGWriteBooks, XrayReadBooks, XrayWriteBooks, ResetsBooks, EnforceBooks,
     PeerCallBooks, PeerDoneBooks, EndSyncBooks DEF Sync
<1>3. ASSUME NEW w \in Worker, StartSync(w) \/ Deploy(w) PROVE Kept
  BY <1>3, StartSyncBooks, BuildBooks, ApplyBooks DEF Deploy
<1>4. CASE LoopStep
  BY <1>1, <1>2, <1>3, <1>4, StartReconcileBooks, ReconcileBooks DEF LoopStep
<1>5. ASSUME NEW r \in Req, StartSync(r) \/ Sync(r) \/ Deploy(r) \/ AdminRequest(r) PROVE Kept
  BY <1>1, <1>2, <1>3, <1>5, RequestBooks
<1>6. CASE EditPlan \/ Tick \/ CarryXray \/ RebootNode \/ UNCHANGED vars
  BY <1>6, WorldBooks
<1>7. CASE Restart
  BY <1>7, RestartBooks
<1>8. ASSUME NEW p \in Peer, CarryWG(p) PROVE Kept
  BY <1>8, CarryWGBooks
<1>. QED  BY <1>4, <1>5, <1>6, <1>7, <1>8 DEF Next

(* The bounds of every counter follow from what was carried.                *)
LEMMA BooksType == ASSUME Books PROVE TypeOK
<1>1. /\ MaxBytes \in Nat /\ history.wg \in Bytes /\ history.xray \in Bytes
  BY AccountingAssumption DEF Books, Typed, HistoryTyped
<1>2. PICK c \in [Peer -> Nat] : Covers(c)
  BY DEF Books, Carried
<1>3. \A p \in Peer : c[p] \in Bytes
  <2>1. Total(c) \in Nat /\ \A p \in Peer : c[p] <= Total(c)
    BY Finite, TotalBounds
  <2>2. Total(c) <= history.wg
    BY <1>2 DEF Covers
  <2>3. \A p \in Peer : c[p] \in Nat
    OBVIOUS
  <2>. QED  BY <1>1, <2>1, <2>2, <2>3 DEF Bytes
<1>4. \A p \in Peer : \A n \in Nat : n <= c[p] => n \in Bytes
  BY <1>1, <1>3 DEF Bytes
<1>5. Flight \in [Worker -> Nat] /\ \A w \in Worker : Flight[w] = Taken(job[w])
  BY FlightTyped DEF Books, Typed
<1>6. Total(Flight) \in Nat /\ \A w \in Worker : Flight[w] <= Total(Flight)
  BY <1>5, Finite, TotalBounds
<1>7. user.xray + history.xrayForgiven + (xray.bytes + Total(Flight)) <= history.xray
  BY DEF Books, Charged, BilledOnce, WireGuardBounded, Pending
<1>8. /\ user.xray \in Bytes /\ history.xrayForgiven \in Bytes /\ xray.bytes \in Bytes
      /\ Total(Flight) \in Bytes
  BY <1>1, <1>6, <1>7, AsTheyAre DEF Bytes
<1>9. user \in UserRow
  <2>1. user.wg \in Bytes
    BY <1>1, AsTheyAre DEF Bytes
  <2>2. user.used \in 0..(2 * MaxBytes)
    BY <1>1, <1>8, <2>1, AsTheyAre DEF Bytes
  <2>3. user \in LooseUser
    BY AsTheyAre
  <2>. QED  BY <1>8, <2>1, <2>2, <2>3 DEF LooseUser, UserRow
<1>10. peers \in [Peer -> PeerRow] /\ kernel \in [Peer -> [installed : BOOLEAN, bytes : Bytes]]
  <2>1. ASSUME NEW p \in Peer
        PROVE  peers[p].rx \in Bytes /\ peers[p].base \in Bytes /\ kernel[p].bytes \in Bytes
    <3>1. peers[p].rx \in Nat /\ peers[p].base \in Nat /\ kernel[p].bytes \in Nat
      BY DEF Books, Typed, PanelTyped, NodesTyped, LoosePeer
    <3>. QED  BY <1>2, <1>4, <3>1 DEF Covers
  <2>2. peers \in [Peer -> LoosePeer]
    BY DEF Books, Typed, PanelTyped
  <2>3. peers \in [Peer -> PeerRow]
    BY <2>1, <2>2 DEF LoosePeer, PeerRow
  <2>4. kernel \in [Peer -> [installed : BOOLEAN, bytes : Nat]]
    BY DEF Books, Typed, NodesTyped
  <2>. QED  BY <2>1, <2>3, <2>4
<1>11. job \in [Worker -> Job]
  <2>1. ASSUME NEW w \in Worker PROVE job[w] \in Job
    <3>1. job[w] \in LooseJob
      BY DEF Books, Typed, JobsTyped
    <3>2. CASE job[w] \in SeenJob
      <4> DEFINE seen == job[w].seen
      <4>1. job[w].at = "wgWrite" /\ seen \in Seen
        BY <3>2 DEF SeenJob
      <4>2. DOMAIN seen \subseteq Peer /\ seen \in [DOMAIN seen -> Nat]
        BY <4>1, PartialFunctions
      <4>3. \A p \in DOMAIN seen : seen[p] \in Bytes
        BY <1>2, <1>4, <4>1, <4>2 DEF Covers
      <4>4. seen \in [DOMAIN seen -> Bytes]
        BY <4>2, <4>3
      <4>5. seen \in UNION {[S -> Bytes] : S \in SUBSET Peer}
        BY <4>2, <4>4
      <4>. QED  BY <3>2, <4>5 DEF SeenJob, Job
    <3>3. CASE job[w] \in DeltaJob
      <4>1. job[w].delta \in Bytes
        <5>1. job[w].delta \in Nat /\ job[w].delta = Flight[w]
          BY <1>5, <3>3 DEF DeltaJob, Taken
        <5>. QED  BY <1>1, <1>6, <1>8, <5>1 DEF Bytes
      <4>. QED  BY <3>3, <4>1 DEF DeltaJob, Job
    <3>4. CASE job[w] \in AtJob \cup BuildJob \cup ApplyJob \cup PeersJob \cup DoneJob
      BY <3>4 DEF AtJob, BuildJob, ApplyJob, PeersJob, DoneJob, Job
    <3>. QED  BY <3>1, <3>2, <3>3, <3>4 DEF LooseJob
  <2>. QED  BY <2>1 DEF Books, Typed, JobsTyped
<1>12. /\ xray \in [serving : BOOLEAN, bytes : Bytes]
       /\ history \in [xray : Bytes, wg : Bytes, xrayForgiven : Bytes,
                       wgForgiven : 0..MaxBytes + 1, crashes : 0..MaxCrashes]
  BY <1>8 DEF Books, Typed, NodesTyped, HistoryTyped
<1>. QED  BY <1>9, <1>10, <1>11, <1>12 DEF TypeOK, Books, Typed, PanelTyped

(* In Xray, what is charged, what was forgiven and what is on its way was   *)
(* carried, for any number of peers and of requests at work.                *)
THEOREM BilledCorrect == Spec => []BilledOnce
<1>1. Books => BilledOnce
  BY DEF Books, Charged
<1>2. Books /\ [Next]_vars => Books'
  BY NextBooks DEF Kept
<1>. QED  BY <1>1, <1>2, InitBooks, PTL DEF Spec

(* A bill never has more WireGuard bytes than were ever carried, for any    *)
(* number of peers and of requests at work; not that a forgiven byte stays  *)
(* forgiven.                                                                *)
THEOREM WireGuardCorrect == Spec => []WireGuardBounded
<1>1. Books => WireGuardBounded
  BY DEF Books, Charged
<1>2. Books /\ [Next]_vars => Books'
  BY NextBooks DEF Kept
<1>. QED  BY <1>1, <1>2, InitBooks, PTL DEF Spec

(* Every counter stays within what was carried.                             *)
THEOREM TypeCorrect == Spec => []TypeOK
<1>1. Books /\ [Next]_vars => Books'
  BY NextBooks DEF Kept
<1>. QED  BY <1>1, InitBooks, BooksType, PTL DEF Spec

(* The traffic in Xray is billed as a ledger is kept, step by step.         *)
THEOREM LedgerKept == Spec => IsLedger
<1>1. Init => Bill!Init
  <2> SUFFICES ASSUME Init PROVE Bill!Init
    OBVIOUS
  <2>1. \A w \in Worker : job[w].at # "xrayWrite"
    BY DEF Init, At
  <2>2. Total(Flight) = 0
    BY <2>1, NoFlight
  <2>. QED  BY <2>2 DEF Init, Bill!Init, Pending
<1>2. Books /\ [Next]_vars => Books' /\ [Bill!Next]_Bill!vars
  BY NextBooks DEF Kept
<1>. QED  BY <1>1, <1>2, InitBooks, PTL DEF Spec, IsLedger, Bill!Spec

-----------------------------------------------------------------------------
(* Who brings back a disabled user. *)

(* What a step may do to his status.                                        *)
Allowed ==
  user.status = "disabled" /\ user'.status # "disabled" =>
    \/ \E r \in Req : Enable(r)
    \/ user.expires # Never /\ now > user.expires
    \/ OverLimit(user)

(* Neither forgiving, nor reconciling, nor what an administrator does       *)
(* unless he is disabled, enables him.                                      *)
LEMMA StaysDisabled ==
  ASSUME NEW u \in LooseUser, u.status = "disabled"
  PROVE  /\ Forgiven(u).status = "disabled" /\ Reconciled(u).status = "disabled"
         /\ \A v : UnlessDisabled(u, v).status = "disabled"
  BY DEF LooseUser, Forgiven, Reconciled, userLifecycleStatus, UnlessDisabled

LEMMA SyncAllowed == ASSUME Books, NEW w \in Worker, Sync(w) PROVE Allowed
<1>0. user \in LooseUser /\ user.used = user.wg + user.xray
  BY AsTheyAre
<1>1. CASE WGWrite(w)
  <2> DEFINE total == WGTotal(peers')
             used == total + user.xray
  <2>1. user' = [user EXCEPT !.wg = total, !.used = used]
    BY <1>1 DEF WGWrite
  <2>. HIDE DEF total, used
  <2>. QED  BY <1>0, <2>1 DEF LooseUser, Allowed
<1>2. CASE XrayWrite(w)
  <2> DEFINE total == user.xray + job[w].delta
             used == user.wg + total
  <2>1. user' = [user EXCEPT !.xray = total, !.used = used]
    BY <1>2 DEF XrayWrite
  <2>. HIDE DEF total, used
  <2>. QED  BY <1>0, <2>1 DEF LooseUser, Allowed
<1>3. CASE Resets(w)
  <2> DEFINE f == Forgiven(user)
  <2>1. \/ \E next : user' = [f EXCEPT !.status = IF @ = "quota-exceeded" THEN "active" ELSE @,
                                       !.nextReset = next]
        \/ \E next : user' = [user EXCEPT !.nextReset = next]
    BY <1>3 DEF Resets
  <2>2. f \in LooseUser /\ (user.status = "disabled" => f.status = "disabled")
    BY <1>0, ForgivenRow, StaysDisabled
  <2>. HIDE DEF f
  <2>. QED  BY <1>0, <2>1, <2>2 DEF LooseUser, Allowed
<1>4. CASE Enforce(w)
  <2> DEFINE summed == [user EXCEPT !.used = user.wg + user.xray]
             status == EnforcedStatus(summed)
  <2>1. user' = [summed EXCEPT !.status = status]
    BY <1>4 DEF Enforce
  <2>2. summed = user
    BY <1>0 DEF LooseUser
  <2>3. status = EnforcedStatus(user)
    BY <2>2
  <2>4. user.status = "disabled" /\ status # "disabled" =>
          (user.expires # Never /\ now > user.expires) \/ OverLimit(user)
    BY <2>3 DEF EnforcedStatus
  <2>5. user' = [user EXCEPT !.status = status]
    BY <2>1, <2>2
  <2>. HIDE DEF status, summed
  <2>. QED  BY <1>0, <2>4, <2>5 DEF LooseUser, Allowed
<1>5. CASE WGRead(w) \/ XrayRead(w) \/ PeerCall(w) \/ PeerDone(w) \/ EndSync(w)
  <2>1. user' = user
    BY <1>5 DEF WGRead, XrayRead, PeerCall, PeerDone, EndSync, panel
  <2>. QED  BY <2>1 DEF Allowed
<1>. QED  BY <1>1, <1>2, <1>3, <1>4, <1>5 DEF Sync

LEMMA ReconcileAllowed == ASSUME Books, Reconcile PROVE Allowed
<1> SUFFICES ASSUME user.status = "disabled" PROVE user'.status = "disabled"
  BY DEF Allowed
<1> DEFINE f == Forgiven(user)
           t == advanceResetAt(f.nextReset, user.days)
           u == [f EXCEPT !.nextReset = t]
<1>0. user \in LooseUser
  BY AsTheyAre
<1>1. user' = Reconciled(u) \/ user' = Reconciled(user)
  BY DEF Reconcile
<1>2. f \in LooseUser /\ f.status = "disabled" /\ f.nextReset = user.nextReset
      /\ user.days \in Days /\ user.nextReset \in ResetTime
  BY <1>0, ForgivenRow, StaysDisabled DEF LooseUser, Forgiven
<1>3. CASE user' = Reconciled(user)
  BY <1>0, <1>3, StaysDisabled
<1>4. CASE user' = Reconciled(u)
  <2>1. "status" \in DOMAIN u /\ u.status = "disabled" /\ {"status", "reason"} \subseteq DOMAIN u
    BY <1>2 DEF LooseUser
  <2>. HIDE DEF u
  <2>. QED  BY <1>4, <2>1 DEF Reconciled, userLifecycleStatus
<1>. QED  BY <1>1, <1>3, <1>4

LEMMA RequestAllowed == ASSUME Books, NEW r \in Req, AdminRequest(r) PROVE Allowed
<1> SUFFICES ASSUME user.status = "disabled", ~Enable(r) PROVE user'.status = "disabled"
  BY DEF Allowed
<1>0. user \in LooseUser
  BY AsTheyAre
<1>1. CASE Disable(r)
  BY <1>0, <1>1 DEF Disable, Change, WithStatus, LooseUser
<1>2. CASE ResetTraffic(r)
  <2> DEFINE f == Forgiven(user)
             u == [f EXCEPT !.nextReset = NextReset(user.days)]
  <2>1. user' = Reconciled(u)
    BY <1>2 DEF ResetTraffic, Change
  <2>2. f \in LooseUser /\ f.status = "disabled"
    BY <1>0, ForgivenRow, StaysDisabled
  <2>. HIDE DEF f
  <2>3. u.status = "disabled" /\ {"status", "reason"} \subseteq DOMAIN u
    BY <2>2 DEF LooseUser
  <2>. HIDE DEF u
  <2>. QED  BY <2>1, <2>3 DEF Reconciled, userLifecycleStatus
<1>3. ASSUME NEW u, NEW v, u.status = "disabled", user' = UnlessDisabled(u, v)
      PROVE  user'.status = "disabled"
  BY <1>3 DEF UnlessDisabled
<1>4. CASE Renew(r)
  <2>1. PICK days \in 1..MaxTime :
          LET renewed == [user EXCEPT !.expires = (IF @ > now THEN @ ELSE now) + days] IN
          /\ renewed.expires <= 2 * MaxTime
          /\ Change(r, UnlessDisabled(renewed, WithStatus(renewed, "active")))
    BY <1>4 DEF Renew
  <2> DEFINE end == (IF user.expires > now THEN user.expires ELSE now) + days
             u == [user EXCEPT !.expires = end]
  <2>2. user' = UnlessDisabled(u, WithStatus(u, "active"))
    BY <2>1 DEF Change
  <2>. HIDE DEF end
  <2>3. u.status = "disabled"
    BY <1>0 DEF LooseUser
  <2>. HIDE DEF u
  <2>. QED  BY <1>3, <2>2, <2>3
<1>5. CASE ApplyPlan(r)
  <2>1. PICK limit \in Limit, days \in Days, duration \in 0..MaxTime, reset \in BOOLEAN :
          LET bare == IF reset THEN Forgiven(user) ELSE user
              planned == [bare EXCEPT !.limit = limit, !.days = days,
                                      !.expires = IF duration > 0 THEN now + duration ELSE @,
                                      !.nextReset = NextReset(days)]
          IN /\ Change(r, UnlessDisabled(planned, WithStatus(planned, "active")))
             /\ history' = Forgive(user, reset)
    BY <1>5 DEF ApplyPlan
  <2> DEFINE bare == IF reset THEN Forgiven(user) ELSE user
             end == IF duration > 0 THEN now + duration ELSE bare.expires
             t == NextReset(days)
             u == [bare EXCEPT !.limit = limit, !.days = days, !.expires = end, !.nextReset = t]
  <2>2. user' = UnlessDisabled(u, WithStatus(u, "active"))
    BY <2>1 DEF Change
  <2>3. bare \in LooseUser /\ bare.status = "disabled"
    BY <1>0, ForgivenRow, StaysDisabled
  <2>. HIDE DEF bare, end, t
  <2>4. u.status = "disabled"
    BY <2>3 DEF LooseUser
  <2>. HIDE DEF u
  <2>. QED  BY <1>3, <2>2, <2>4
<1>6. CASE Edit(r)
  <2>1. PICK limit \in Limit, days \in Days, expires \in 0..MaxTime :
          LET edited == [user EXCEPT !.limit = limit, !.days = days, !.expires = expires,
                                     !.nextReset = IF @ = Never THEN NextReset(days) ELSE @]
          IN Change(r, UnlessDisabled(edited, Reconciled(edited)))
    BY <1>6 DEF Edit
  <2> DEFINE t == IF user.nextReset = Never THEN NextReset(days) ELSE user.nextReset
             u == [user EXCEPT !.limit = limit, !.days = days, !.expires = expires, !.nextReset = t]
  <2>2. user' = UnlessDisabled(u, Reconciled(u))
    BY <2>1 DEF Change
  <2>. HIDE DEF t
  <2>3. u.status = "disabled"
    BY <1>0 DEF LooseUser
  <2>. HIDE DEF u
  <2>. QED  BY <1>3, <2>2, <2>3
<1>. QED  BY <1>1, <1>2, <1>4, <1>5, <1>6 DEF AdminRequest

LEMMA StepAllowed == ASSUME Books, [Next]_vars PROVE Allowed
<1>1. ASSUME user' = user PROVE Allowed
  BY <1>1 DEF Allowed
<1>2. ASSUME NEW w, StartSync(w) \/ Deploy(w) PROVE user' = user
  BY <1>2 DEF StartSync, Deploy, Build, ApplySucceeds, ApplyFails, panel
<1>3. CASE StartReconcile \/ Tick \/ CarryXray \/ RebootNode \/ Restart
           \/ UNCHANGED vars \/ \E p \in Peer : CarryWG(p)
  BY <1>1, <1>3 DEF StartReconcile, Tick, CarryXray, RebootNode, Restart, CarryWG, panel, vars
<1>4. CASE EditPlan
  <2>1. PICK limit \in Limit, days \in Days : user' = [user EXCEPT !.limit = limit, !.days = days]
    BY <1>4 DEF EditPlan
  <2>. QED  BY <2>1, AsTheyAre DEF LooseUser, Allowed
<1>5. \A w \in Worker : Sync(w) => Allowed
  BY SyncAllowed
<1>6. Loop \in Worker /\ \A r \in Req : r \in Worker
  BY DEF Worker
<1>. QED  BY <1>1, <1>2, <1>3, <1>4, <1>5, <1>6, ReconcileAllowed, RequestAllowed DEF Next, LoopStep

(* Neither of the two deciders of a status, nor a renewal, a plan or a      *)
(* reset, enables a user whom an administrator has disabled, unless the     *)
(* subscription or the quota has replaced that reason.                      *)
THEOREM DisabledByHandKept == Spec => DisabledByHandStays
<1>1. Books /\ [Next]_vars =>
        [user.status = "disabled" /\ user'.status # "disabled" =>
           \/ \E r \in Req : Enable(r)
           \/ user.expires # Never /\ now > user.expires
           \/ OverLimit(user)]_vars
  BY StepAllowed DEF Allowed
<1>2. Books /\ [Next]_vars => Books'
  BY NextBooks DEF Kept
<1>. QED  BY <1>1, <1>2, InitBooks, PTL DEF Spec, DisabledByHandStays
=============================================================================
