----------------------------- MODULE GraphProofs -----------------------------
(***************************************************************************)
(* The theory of a consistent graph and of a miner that keeps one: insert  *)
(* keeps it consistent, for every table, graph and block, what it computes *)
(* is the GHOST rule, and the handlers of HonestMiner lose no block.  In   *)
(* the order of the statements of insert, the names Ready, Credited and    *)
(* Lowered stand for the graph before the insertion, after the first loop  *)
(* and after the second one.                                               *)
(***************************************************************************)
EXTENDS HonestMiner, SequenceTheorems, FiniteSetTheorems, TLAPS

-----------------------------------------------------------------------------
(***************************************************************************)
(* Finite sets have undominated elements, and bounded sets of naturals a   *)
(* greatest one: the loops of localgraph.go that pick a heaviest child or  *)
(* run to the end of a chain find something.  From this come induction     *)
(* over a set of naturals and the existence of the function that repeats a *)
(* step, which a loop without a bound in the code is modelled by.          *)
(***************************************************************************)
\* A transitive and irreflexive relation has an undominated element on every
\* finite set that is not empty: the loop of updateMaxChild finds a child no
\* other beats.
LEMMA Undominated ==
    ASSUME NEW K, IsFiniteSet(K), K # {},
           NEW R,
           \A x \in K : <<x, x>> \notin R,
           \A x, y, z \in K : <<x, y>> \in R /\ <<y, z>> \in R => <<x, z>> \in R
    PROVE  \E m \in K : \A x \in K : <<x, m>> \notin R
<1> DEFINE Above(x) == {y \in K : <<y, x>> \in R}
           T == {Above(x) : x \in K}
<1>1. IsWellFoundedOn(StrictSubsetOrdering(K), SUBSET K)
  BY FS_StrictSubsetOrderingWellFounded, FS_FiniteSubsetsOfFinite
<1>2. T \subseteq SUBSET K
  OBVIOUS
<1>3. T # {}
  <2>1. PICK x \in K : TRUE
    OBVIOUS
  <2>2. Above(x) \in T
    OBVIOUS
  <2> QED BY <2>2
<1>4. PICK t \in T : \A u \in T : ~ (<<u, t>> \in StrictSubsetOrdering(K))
  <2> HIDE DEF T
  <2> QED BY <1>1, <1>2, <1>3, WFMin
<1>5. PICK m \in K : t = Above(m)
  BY <1>4
<1>6. ASSUME NEW x \in K, <<x, m>> \in R PROVE FALSE
  <2>1. Above(x) \subseteq Above(m) /\ x \in Above(m) /\ x \notin Above(x)
    BY <1>6
  <2>2. <<Above(x), Above(m)>> \in StrictSubsetOrdering(K)
    BY <2>1 DEF StrictSubsetOrdering
  <2> QED BY <2>2, <1>4, <1>5
<1> QED BY <1>6

\* A set of naturals with an upper bound has a greatest element: a chain of
\* blocks has a deepest one.
LEMMA MaxExists ==
    ASSUME NEW k \in Nat, NEW S \in SUBSET (0..k), S # {}
    PROVE  \E m \in S : \A x \in S : x <= m
<1> DEFINE R == {p \in S \X S : p[1] > p[2]}
<1>1. IsFiniteSet(S)
  <2>1. IsFiniteSet(0..k)
    BY FS_Interval
  <2> QED BY <2>1, FS_Subset
<1>2. \A x, y \in S : <<x, y>> \in R <=> x > y
  OBVIOUS
<1>3. S \subseteq Int
  OBVIOUS
<1> HIDE DEF R
<1>4. \A x, y, z \in S : <<x, y>> \in R /\ <<y, z>> \in R => <<x, z>> \in R
  BY <1>2, <1>3
<1>5. \A x \in S : <<x, x>> \notin R
  BY <1>2, <1>3
<1>6. PICK m \in S : \A x \in S : <<x, m>> \notin R
  BY <1>1, <1>4, <1>5, Undominated
<1>7. ASSUME NEW x \in S PROVE x <= m
  <2>1. ~ (x > m)
    BY <1>2, <1>6
  <2>2. x \in Int /\ m \in Int
    BY <1>3
  <2> QED BY <2>1, <2>2
<1> QED BY <1>7

\* A set of naturals that is not empty has a least element.
LEMMA MinExists ==
    ASSUME NEW S \in SUBSET Nat, S # {}
    PROVE  \E m \in S : \A x \in S : m <= x
<1>1. PICK k \in S : TRUE
  OBVIOUS
<1> DEFINE T == {k - x : x \in S \cap (0..k)}
<1>2. k \in Nat /\ T \in SUBSET (0..k) /\ 0 \in T
  <2>1. k \in Nat /\ k \in S \cap (0..k) /\ k - k = 0
    BY <1>1
  <2>2. \A x \in S \cap (0..k) : k - x \in 0..k
    BY <2>1
  <2> QED BY <2>1, <2>2
<1>3. PICK t \in T : \A x \in T : x <= t
  <2> HIDE DEF T
  <2> QED BY <1>2, MaxExists
<1>4. PICK m \in S \cap (0..k) : t = k - m
  BY <1>3
<1>5. ASSUME NEW x \in S PROVE m <= x
  <2>1. CASE x \in 0..k
    <3>1. k - x \in T
      BY <2>1, <1>5
    <3>2. k - x <= k - m
      BY <3>1, <1>3, <1>4
    <3> QED BY <3>2, <2>1, <1>2, <1>4
  <2>2. CASE x \notin 0..k
    BY <2>2, <1>2, <1>4, <1>5
  <2> QED BY <2>1, <2>2
<1> QED BY <1>4, <1>5

\* Induction over the naturals, for a set instead of a predicate.
LEMMA NatSubset ==
    ASSUME NEW P \in SUBSET Nat, 0 \in P, \A n \in P : n + 1 \in P
    PROVE  P = Nat
<1> SUFFICES ASSUME P # Nat PROVE FALSE
  OBVIOUS
<1>1. Nat \ P # {} /\ Nat \ P \in SUBSET Nat
  OBVIOUS
<1>2. PICK m \in Nat \ P : \A x \in Nat \ P : m <= x
  BY <1>1, MinExists
<1>3. m # 0 /\ m - 1 \in Nat
  BY <1>2
<1>4. m - 1 \in P
  BY <1>2, <1>3
<1> QED BY <1>2, <1>4

\* The sequences of length n + 1 that repeat a step from s.
Runs(V, s, step, n) ==
    {g \in [0..n -> V] : g[0] = s /\ \A i \in 0..(n - 1) : g[i + 1] = step[g[i]]}

\* Two of them agree as far as both go.
LEMMA RunsAgree ==
    ASSUME NEW V, NEW s, NEW step, NEW n \in Nat, NEW m \in Nat,
           NEW g \in Runs(V, s, step, n), NEW h \in Runs(V, s, step, m)
    PROVE  \A i \in Nat : i <= n /\ i <= m => g[i] = h[i]
<1> DEFINE P == {i \in Nat : i <= n /\ i <= m => g[i] = h[i]}
<1>1. /\ g[0] = s /\ (\A i \in 0..(n - 1) : g[i + 1] = step[g[i]])
      /\ h[0] = s /\ (\A i \in 0..(m - 1) : h[i + 1] = step[h[i]])
  BY DEF Runs
<1>2. 0 \in P
  BY <1>1
<1>3. ASSUME NEW i \in P PROVE i + 1 \in P
  <2> SUFFICES ASSUME i + 1 <= n, i + 1 <= m PROVE g[i + 1] = h[i + 1]
    OBVIOUS
  <2>1. i \in 0..(n - 1) /\ i \in 0..(m - 1) /\ g[i] = h[i]
    OBVIOUS
  <2> QED BY <2>1, <1>1
<1>4. P = Nat
  <2> HIDE DEF P
  <2>1. P \in SUBSET Nat
    BY DEF P
  <2> QED BY <2>1, <1>2, <1>3, NatSubset
<1> QED BY <1>4

\* f repeats a step from s, in V.
Iterates(f, V, s, step) ==
    f \in [Nat -> V] /\ f[0] = s /\ \A n \in Nat : f[n + 1] = step[f[n]]

\* The function that repeats a step from s exists, and stays in a set the step
\* does not leave.
LEMMA IterationExists ==
    ASSUME NEW V, NEW s \in V, NEW step \in [V -> V]
    PROVE  \E f : Iterates(f, V, s, step)
<1> DEFINE R(n) == Runs(V, s, step, n)
           P == {n \in Nat : R(n) # {}}
<1>1. 0 \in P
  <2>1. [i \in 0..0 |-> s] \in R(0)
    BY DEF Runs
  <2> QED BY <2>1
<1>2. ASSUME NEW n \in P PROVE n + 1 \in P
  <2>1. PICK g \in R(n) : TRUE
    OBVIOUS
  <2>2. n \in Nat /\ g \in [0..n -> V] /\ g[0] = s /\ \A i \in 0..(n - 1) : g[i + 1] = step[g[i]]
    BY <2>1 DEF Runs
  <2> DEFINE h == [i \in 0..(n + 1) |-> IF i = n + 1 THEN step[g[n]] ELSE g[i]]
  <2>3. h \in [0..(n + 1) -> V] /\ h[0] = s
    BY <2>2
  <2>4. ASSUME NEW i \in 0..(n + 1 - 1) PROVE h[i + 1] = step[h[i]]
    <3>1. CASE i = n
      BY <3>1, <2>2
    <3>2. CASE i # n
      <4>1. i \in 0..(n - 1) /\ i + 1 \in 0..n /\ i + 1 # n + 1
        BY <3>2, <2>2
      <4> QED BY <4>1, <2>2
    <3> QED BY <3>1, <3>2
  <2>5. h \in R(n + 1)
    <3> HIDE DEF h
    <3> QED BY <2>3, <2>4 DEF Runs
  <2> QED BY <2>2, <2>5
<1>3. P = Nat
  <2> HIDE DEF P
  <2>1. P \in SUBSET Nat
    BY DEF P
  <2> QED BY <2>1, <1>1, <1>2, NatSubset
<1> DEFINE run(n) == CHOOSE g : g \in R(n)
           f == [n \in Nat |-> run(n)[n]]
<1>4. ASSUME NEW n \in Nat PROVE run(n) \in R(n)
  BY <1>3
<1>5. ASSUME NEW n \in Nat PROVE f[n] = run(n)[n] /\ f[n] \in V
  <2>1. run(n) \in [0..n -> V]
    BY <1>4 DEF Runs
  <2> HIDE DEF run
  <2> QED BY <2>1
<1>6. f[0] = s
  <2>1. run(0) \in R(0)
    BY <1>4
  <2>2. f[0] = run(0)[0]
    BY <1>5
  <2> HIDE DEF f, run
  <2> QED BY <2>1, <2>2 DEF Runs
<1>7. ASSUME NEW n \in Nat PROVE f[n + 1] = step[f[n]]
  <2>1. run(n) \in R(n) /\ run(n + 1) \in R(n + 1)
    BY <1>4
  <2>2. f[n] = run(n)[n] /\ f[n + 1] = run(n + 1)[n + 1]
    BY <1>5
  <2> HIDE DEF f, run
  <2>3. run(n + 1)[n] = run(n)[n]
    <3>1. n <= n /\ n <= n + 1 /\ n + 1 \in Nat
      OBVIOUS
    <3> QED BY <3>1, <2>1, RunsAgree
  <2>4. n \in 0..(n + 1 - 1)
    OBVIOUS
  <2>5. run(n + 1)[n + 1] = step[run(n + 1)[n]]
    BY <2>1, <2>4 DEF Runs
  <2> QED BY <2>2, <2>3, <2>5
<1>8. f \in [Nat -> V]
  <2> HIDE DEF run
  <2> QED BY <1>5
<1> HIDE DEF f
<1> QED BY <1>6, <1>7, <1>8 DEF Iterates

\* The same for a step that depends on the number of the round.
IteratesBy(f, V, s, step) ==
    f \in [Nat -> V] /\ f[0] = s /\ \A n \in Nat : f[n + 1] = step[<<n + 1, f[n]>>]

\* A function defined by recursion on the naturals exists.
LEMMA RecursionExists ==
    ASSUME NEW V, NEW s \in V, NEW step \in [Nat \X V -> V]
    PROVE  \E f : IteratesBy(f, V, s, step)
<1> DEFINE W == Nat \X V
           t == [w \in W |-> <<w[1] + 1, step[<<w[1] + 1, w[2]>>]>>]
<1>1. <<0, s>> \in W /\ t \in [W -> W]
  OBVIOUS
<1>2. PICK k : Iterates(k, W, <<0, s>>, t)
  <2> HIDE DEF W, t
  <2> QED BY <1>1, IterationExists
<1>3. /\ k[0] = <<0, s>>
      /\ \A n \in Nat : k[n] \in W /\ k[n + 1] = <<k[n][1] + 1, step[<<k[n][1] + 1, k[n][2]>>]>>
  BY <1>2 DEF Iterates
<1> HIDE DEF t
<1> DEFINE P == {n \in Nat : k[n][1] = n}
<1>4. P = Nat
  <2>1. 0 \in P
    BY <1>3
  <2>2. ASSUME NEW n \in P PROVE n + 1 \in P
    <3>1. n \in Nat /\ k[n][1] = n /\ n + 1 \in Nat
      OBVIOUS
    <3> DEFINE x == k[n][1] + 1
               y == step[<<k[n][1] + 1, k[n][2]>>]
    <3>2. k[n + 1] = <<x, y>>
      BY <1>3, <3>1
    <3> HIDE DEF x, y
    <3>3. k[n + 1][1] = x
      BY <3>2
    <3> USE DEF x
    <3> QED BY <3>1, <3>3
  <2>3. P \in SUBSET Nat
    OBVIOUS
  <2> HIDE DEF P
  <2> QED BY <2>1, <2>2, <2>3, NatSubset
<1>5. \A n \in Nat : k[n][1] = n
  BY <1>4
<1> DEFINE f == [n \in Nat |-> k[n][2]]
<1>6. f \in [Nat -> V]
  BY <1>3
<1>7. f[0] = s
  BY <1>3
<1>8. ASSUME NEW n \in Nat PROVE f[n + 1] = step[<<n + 1, f[n]>>]
  <2>1. k[n + 1] = <<n + 1, step[<<n + 1, k[n][2]>>]>>
    BY <1>3, <1>5
  <2> QED BY <2>1
<1> HIDE DEF f
<1> QED BY <1>6, <1>7, <1>8 DEF IteratesBy

-----------------------------------------------------------------------------
(***************************************************************************)
(* The block table, chains, pivots and subtrees, the weight a new block    *)
(* adds to the subtrees it joins, and the graph after CreditBranch.        *)
(***************************************************************************)
USE DEF Genesis, None

\* The table NewOracle starts from is well formed: genesis alone has a chain.
LEMMA GenesisTableOK == TableOK(GenesisTable, 1)
<1> USE BlockAssumption
<1>1. GenesisTable \in [BlockIds -> Block]
  BY DEF GenesisTable, BlankBlock, Block, BlockIds
<1>2. EdgesOK(GenesisTable, 1)
  BY DEF EdgesOK, GenesisTable, BlankBlock, BlockIds
<1>3. ChainsOK(GenesisTable, 1)
  BY DEF ChainsOK, GenesisTable, BlankBlock, BlockIds
<1> QED BY <1>1, <1>2, <1>3 DEF TableOK

\* Agreement of two tables on the blocks below n.
Agree(A, B, n) == \A b \in 0..(n - 1) : B[b] = A[b]

\* The fields a block gets when it is mined and when its edges are filled.
Filled(C, n, m, p, refs) == C[n].minerID = m /\ C[n].parent = p /\ C[n].references = refs

\* Mining the next block and giving it edges to earlier blocks keeps the table
\* well formed and leaves the earlier blocks as they were.
LEMMA LinkKeepsTable ==
    ASSUME NEW B, NEW n \in Nat, TableOK(B, n), n <= MaxBlock,
           NEW m \in Miners, NEW r \in 0..MaxResidual,
           NEW p \in 0..(n - 1), NEW refs \in SUBSET (0..(n - 1)), NEW anc \in Nat
    PROVE  LET C == LinkBlock(MineBlock(B, n, m, r), n, p, refs, anc)
           IN  TableOK(C, n + 1) /\ Agree(B, C, n) /\ Filled(C, n, m, p, refs)
<1> DEFINE A == MineBlock(B, n, m, r)
           C == LinkBlock(A, n, p, refs, anc)
<1> USE BlockAssumption
<1>1. /\ B \in [BlockIds -> Block] /\ n \in 1..MaxBlock /\ EdgesOK(B, n) /\ ChainsOK(B, n)
      /\ n \in BlockIds /\ p \in BlockIds /\ refs \in SUBSET BlockIds /\ p # n
  BY DEF TableOK, BlockIds
<1>2. A = [B EXCEPT ![n] = [B[n] EXCEPT !.minerID = m, !.residual = r]]
  BY DEF MineBlock
<1>3. /\ A \in [BlockIds -> Block] /\ A[n].minerID = m
      /\ \A b \in BlockIds \ {n} : A[b] = B[b]
  <2>1. B[n] \in Block
    BY <1>1
  <2>2. /\ [B[n] EXCEPT !.minerID = m, !.residual = r] \in Block
        /\ [B[n] EXCEPT !.minerID = m, !.residual = r].minerID = m
    BY <2>1 DEF Block
  <2> QED BY <1>1, <1>2, <2>2
<1>4. PastOf(A, p, refs) \in SUBSET BlockIds
  <2>1. \A x \in BlockIds : A[x].past \subseteq BlockIds
    BY <1>3 DEF Block
  <2>2. {p} \cup refs \subseteq BlockIds
    BY <1>1
  <2> HIDE DEF A
  <2> QED BY <2>1, <2>2 DEF PastOf
<1>5. /\ C \in [BlockIds -> Block]
      /\ \A b \in BlockIds \ {n} : C[b] = B[b]
      /\ C[n].parent = p /\ C[n].references = refs /\ C[n].chain = B[p].chain \cup {n}
      /\ C[n].minerID = m
  <2> DEFINE e == [A[n] EXCEPT !.parent = p, !.references = refs, !.height = A[p].height + 1,
                               !.ancestorNum = anc, !.chain = A[p].chain \cup {n},
                               !.past = PastOf(A, p, refs)]
  <2>1. C = [A EXCEPT ![n] = e]
    BY DEF LinkBlock
  <2>2. A[n] \in Block /\ A[p] \in Block /\ A[p] = B[p]
    BY <1>1, <1>3
  <2>3. /\ A[p].height + 1 \in Nat
        /\ A[p].chain \cup {n} \in SUBSET BlockIds
        /\ p \in BlockIds \cup {-1}
    BY <2>2, <1>1 DEF Block
  <2>4. /\ e \in Block
        /\ e.parent = p /\ e.references = refs /\ e.chain = B[p].chain \cup {n}
        /\ e.minerID = A[n].minerID
    <3> DEFINE past == PastOf(A, p, refs)
               height == A[p].height + 1
    <3> HIDE DEF A, past, height
    <3>1. e = [A[n] EXCEPT !.parent = p, !.references = refs, !.height = height,
                           !.ancestorNum = anc, !.chain = A[p].chain \cup {n}, !.past = past]
      BY DEF past, height
    <3>2. height \in Nat /\ past \in SUBSET BlockIds
      BY <1>4, <2>3 DEF past, height
    <3> HIDE DEF e
    <3> QED BY <1>1, <2>2, <2>3, <3>1, <3>2 DEF Block
  <2> HIDE DEF e, A
  <2> QED BY <2>1, <2>4, <1>1, <1>3
<1> HIDE DEF C, A
<1>6. Agree(B, C, n)
  BY <1>1, <1>5 DEF Agree, BlockIds
<1>7. EdgesOK(C, n + 1)
  <2>1. C[0].parent = -1 /\ C[0].references = {} /\ C[0].chain = {0}
    BY <1>1, <1>5 DEF EdgesOK, BlockIds
  <2>2. ASSUME NEW b \in 1..n
        PROVE  /\ C[b].parent \in 0..(b - 1)
               /\ C[b].references \subseteq 0..(b - 1)
               /\ C[b].chain = C[C[b].parent].chain \cup {b}
    <3>1. CASE b = n
      BY <3>1, <1>1, <1>5
    <3>2. CASE b # n
      <4>1. b \in 1..(n - 1) /\ b \in BlockIds \ {n} /\ C[b] = B[b]
        BY <3>2, <1>1, <1>5 DEF BlockIds
      <4>2. /\ B[b].parent \in 0..(b - 1)
            /\ B[b].references \subseteq 0..(b - 1)
            /\ B[b].chain = B[B[b].parent].chain \cup {b}
        BY <4>1, <1>1 DEF EdgesOK
      <4>3. C[B[b].parent] = B[B[b].parent]
        BY <4>1, <4>2, <1>1, <1>5 DEF BlockIds
      <4> QED BY <4>1, <4>2, <4>3
    <3> QED BY <3>1, <3>2
  <2>3. \A b \in (n + 1)..MaxBlock : C[b].parent = -1 /\ C[b].references = {}
    BY <1>1, <1>5, SMTT(60) DEF EdgesOK, BlockIds
  <2> QED BY <2>1, <2>2, <2>3 DEF EdgesOK
<1>8. ChainsOK(C, n + 1)
  <2>1. \A b \in 0..(n - 1) : C[b].chain = B[b].chain /\ B[b].chain \subseteq 0..b
                              /\ C[b].parent = B[b].parent
    BY <1>1, <1>5 DEF ChainsOK, BlockIds
  <2> SUFFICES ASSUME NEW b \in 0..n
               PROVE  /\ b \in C[b].chain /\ 0 \in C[b].chain /\ C[b].chain \subseteq 0..b
                      /\ \A a \in C[b].chain : C[a].chain \subseteq C[b].chain
                      /\ \A a, c \in C[b].chain : a \in C[c].chain \/ c \in C[a].chain
                      /\ \A a \in C[b].chain \ {b} : \E c \in C[b].chain : c # 0 /\ C[c].parent = a
    BY DEF ChainsOK
  <2>2. CASE b < n
    <3>1. b \in 0..(n - 1) /\ \A a \in B[b].chain : a \in 0..(n - 1)
      BY <2>1, <2>2
    <3> QED BY <1>1, <2>1, <3>1 DEF ChainsOK
  <2>3. CASE b = n
    <3>1. C[n].chain = B[p].chain \cup {n} /\ B[p].chain \subseteq 0..p
      BY <1>5, <2>1
    <3>2. \A a \in B[p].chain : a \in 0..(n - 1) /\ C[a].chain = B[a].chain
      BY <2>1, <3>1
    <3>3. \A a \in B[p].chain : B[a].chain \subseteq B[p].chain
      BY <1>1 DEF ChainsOK
    <3>4. n \in C[b].chain /\ 0 \in C[b].chain /\ C[b].chain \subseteq 0..b
      BY <1>1, <2>3, <3>1 DEF ChainsOK
    <3>5. \A a \in C[b].chain : C[a].chain \subseteq C[b].chain
      BY <2>3, <3>1, <3>2, <3>3
    <3>6. \A a, c \in C[b].chain : a \in C[c].chain \/ c \in C[a].chain
      BY <1>1, <2>3, <3>1, <3>2 DEF ChainsOK
    <3>7. ASSUME NEW a \in C[b].chain \ {b}
          PROVE  \E c \in C[b].chain : c # 0 /\ C[c].parent = a
      <4>1. CASE a = p
        BY <4>1, <1>1, <1>5, <2>3, <3>4
      <4>2. CASE a # p
        <5>1. a \in B[p].chain \ {p}
          BY <4>2, <2>3, <3>1
        <5>2. PICK c \in B[p].chain : c # 0 /\ B[c].parent = a
          BY <1>1, <5>1 DEF ChainsOK
        <5> QED BY <5>2, <2>1, <2>3, <3>1, <3>2
      <4> QED BY <4>1, <4>2
    <3> QED BY <2>3, <3>4, <3>5, <3>6, <3>7
  <2> QED BY <2>2, <2>3
<1> QED BY <1>1, <1>5, <1>6, <1>7, <1>8 DEF TableOK, Filled, C, A

-----------------------------------------------------------------------------
(***************************************************************************)
(* Chains and pivots.                                                      *)
(***************************************************************************)
\* Every block with edges except genesis points to earlier blocks only.
LEMMA TableFacts ==
    ASSUME NEW B, NEW n, TableOK(B, n)
    PROVE  /\ n \in Nat /\ n >= 1 /\ 0..(n - 1) \subseteq BlockIds
           /\ \A b \in 0..(n - 1) : IsGenesis(B, b) <=> b = 0
           /\ \A b \in 1..(n - 1) : B[b].parent \in 0..(b - 1) /\ B[b].parent \in Parents(B, b)
           /\ \A b \in 0..(n - 1) : Parents(B, b) \subseteq 0..(b - 1)
<1>1. n \in 1..(MaxBlock + 1) /\ EdgesOK(B, n)
  BY DEF TableOK
<1>2. n \in Nat /\ n >= 1 /\ 0..(n - 1) \subseteq BlockIds
  BY <1>1, BlockAssumption DEF BlockIds
<1>3. IsGenesis(B, 0) /\ Parents(B, 0) = {}
  BY <1>1 DEF EdgesOK, IsGenesis, Parents
<1>4. ASSUME NEW b \in 1..(n - 1)
      PROVE  /\ ~ IsGenesis(B, b) /\ B[b].parent \in 0..(b - 1)
             /\ B[b].parent \in Parents(B, b) /\ Parents(B, b) \subseteq 0..(b - 1)
  <2>1. B[b].parent \in 0..(b - 1) /\ B[b].references \subseteq 0..(b - 1)
    BY <1>1 DEF EdgesOK
  <2>2. ~ IsGenesis(B, b)
    BY <2>1 DEF IsGenesis
  <2> QED BY <2>1, <2>2 DEF Parents
<1>5. \A b \in 0..(n - 1) : b = 0 \/ b \in 1..(n - 1)
  BY <1>2
<1> QED BY <1>2, <1>3, <1>4, <1>5

\* A set of blocks with edges that holds the chains of its blocks.
ChainClosed(B, n, L) == L \subseteq 0..(n - 1) /\ \A b \in L : B[b].chain \subseteq L

\* PivotChain as a function of the ledger and the maxChild pointers.
PivotOf(B, L, mc) == {b \in L : \A a \in B[b].chain \ {0} : mc[B[a].parent] = a}

\* The blocks reached from genesis by maxChild pointers are a single path:
\* they include their ancestors, are pairwise comparable, and each step of the
\* path is a maxChild pointer.
LEMMA PivotFacts ==
    ASSUME NEW B, NEW n, TableOK(B, n), NEW L, ChainClosed(B, n, L), NEW mc
    PROVE  /\ 0 \in L => 0 \in PivotOf(B, L, mc)
           /\ \A d \in PivotOf(B, L, mc) : B[d].chain \subseteq PivotOf(B, L, mc)
           /\ \A d \in PivotOf(B, L, mc), c \in L :
                 c # 0 /\ B[c].parent = d /\ mc[d] = c => c \in PivotOf(B, L, mc)
           /\ \A d, e \in PivotOf(B, L, mc) : d \in B[e].chain \/ e \in B[d].chain
           /\ \A d, e \in PivotOf(B, L, mc) : d \in B[e].chain /\ d # e =>
                 \E c \in B[e].chain : c # 0 /\ B[c].parent = d /\ mc[d] = c
<1> DEFINE P == PivotOf(B, L, mc)
<1>1. n \in Nat /\ EdgesOK(B, n) /\ ChainsOK(B, n) /\ L \subseteq 0..(n - 1)
      /\ (\A b \in L : B[b].chain \subseteq L) /\ P \subseteq L
  BY TableFacts DEF TableOK, ChainClosed, PivotOf
<1>2. 0 \in L => 0 \in P
  BY <1>1 DEF PivotOf, EdgesOK
<1>3. ASSUME NEW d \in P PROVE B[d].chain \subseteq P
  BY <1>1 DEF PivotOf, ChainsOK
<1>4. ASSUME NEW d \in P, NEW c \in L, c # 0, B[c].parent = d, mc[d] = c
      PROVE  c \in P
  <2>1. B[c].chain = B[d].chain \cup {c}
    BY <1>1, <1>4 DEF EdgesOK
  <2> QED BY <2>1, <1>4 DEF PivotOf
<1>5. ASSUME NEW d \in P, NEW e \in P, d \in B[e].chain, d # e
      PROVE  \E c \in B[e].chain : c # 0 /\ B[c].parent = d /\ mc[d] = c
  <2>1. PICK c \in B[e].chain : c # 0 /\ B[c].parent = d
    BY <1>1, <1>5 DEF ChainsOK
  <2>2. mc[d] = c
    BY <2>1 DEF PivotOf
  <2> QED BY <2>1, <2>2
<1>6. ASSUME NEW d \in P, NEW e \in P, d \notin B[e].chain, e \notin B[d].chain
      PROVE  FALSE
  <2> DEFINE S == B[d].chain \cap B[e].chain
  <2>1. 0 \in S /\ S \subseteq 0..(n - 1)
    BY <1>1 DEF ChainsOK
  <2>2. PICK k \in S : \A x \in S : x <= k
    <3>1. n - 1 \in Nat
      BY TableFacts
    <3> HIDE DEF S
    <3> QED BY <3>1, <2>1, MaxExists
  <2>3. k \in B[d].chain /\ k \in B[e].chain /\ k # d /\ k # e
    BY <1>6
  <2>4. k \in P
    BY <1>3, <2>3
  <2>5. PICK c \in B[d].chain : c # 0 /\ B[c].parent = k /\ mc[k] = c
    BY <1>5, <2>3, <2>4
  <2>6. PICK f \in B[e].chain : f # 0 /\ B[f].parent = k /\ mc[k] = f
    BY <1>5, <2>3, <2>4
  <2>7. c \in S /\ c \in 1..(n - 1)
    BY <2>1, <2>5, <2>6
  <2>8. k < c
    BY <2>5, <2>7, TableFacts
  <2> QED BY <2>2, <2>7, <2>8, <2>1
<1> QED BY <1>2, <1>3, <1>4, <1>5, <1>6

\* The parent path of a block, in the form the proofs about the loops of
\* insert use: paths are nested, and a path holds one child of each block.
LEMMA ChainFacts ==
    ASSUME NEW B, NEW n, TableOK(B, n)
    PROVE  /\ \A d \in 1..(n - 1) : /\ B[d].chain = B[B[d].parent].chain \cup {d}
                                  /\ B[d].parent \in B[d].chain /\ B[d].parent < d
                                  /\ B[d].parent \in 0..(n - 1) /\ d \notin B[B[d].parent].chain
           /\ \A d \in 0..(n - 1) : d \in B[d].chain /\ 0 \in B[d].chain
           /\ \A d \in 0..(n - 1) : \A a \in B[d].chain : a \in 0..(n - 1) /\ a <= d
           /\ \A d \in 0..(n - 1) : \A a \in B[d].chain : d \in B[a].chain => a = d
           /\ \A d \in 0..(n - 1) : \A a \in B[d].chain : B[a].chain \subseteq B[d].chain
           /\ \A d \in 0..(n - 1) : \A a, c \in B[d].chain :
                 /\ a \in B[c].chain \/ c \in B[a].chain
                 /\ a # 0 /\ c # 0 /\ B[a].parent = B[c].parent => a = c
<1>1. n \in Nat /\ n >= 1 /\ EdgesOK(B, n) /\ ChainsOK(B, n)
  BY TableFacts DEF TableOK
<1>2. ASSUME NEW d \in 0..(n - 1), NEW a \in B[d].chain
      PROVE  /\ a \in 0..(n - 1) /\ a <= d
             /\ d \in B[a].chain => a = d
  <2>1. a \in 0..d /\ a \in 0..(n - 1)
    BY <1>1 DEF ChainsOK
  <2>2. B[a].chain \subseteq 0..a
    BY <1>1, <2>1 DEF ChainsOK
  <2> QED BY <2>1, <2>2
<1>3. \A d \in 0..(n - 1) : d \in B[d].chain /\ 0 \in B[d].chain
                           /\ (\A a \in B[d].chain : B[a].chain \subseteq B[d].chain)
                           /\ (\A a, c \in B[d].chain : a \in B[c].chain \/ c \in B[a].chain)
  BY <1>1 DEF ChainsOK
<1>4. ASSUME NEW d \in 1..(n - 1)
      PROVE  /\ B[d].chain = B[B[d].parent].chain \cup {d}
             /\ B[d].parent \in B[d].chain /\ B[d].parent < d
             /\ B[d].parent \in 0..(n - 1) /\ d \notin B[B[d].parent].chain
  <2>1. B[d].chain = B[B[d].parent].chain \cup {d} /\ B[d].parent \in 0..(d - 1)
    BY <1>1 DEF EdgesOK
  <2>2. B[d].parent \in 0..(n - 1) /\ B[d].parent < d
    BY <1>1, <2>1
  <2>3. d \notin B[B[d].parent].chain
    BY <1>2, <2>2, <2>1
  <2> QED BY <2>1, <2>2, <2>3, <1>3
<1>5. ASSUME NEW d \in 0..(n - 1), NEW a \in B[d].chain, NEW c \in B[d].chain,
             a # 0, c # 0, B[a].parent = B[c].parent
      PROVE  a = c
  <2>1. a \in 1..(n - 1) /\ c \in 1..(n - 1)
    BY <1>2, <1>5, <1>1
  <2>2. a \in B[c].chain => a = c
    BY <2>1, <1>4, <1>5
  <2>3. c \in B[a].chain => a = c
    BY <2>1, <1>4, <1>5
  <2> QED BY <2>2, <2>3, <1>3
<1> QED BY <1>2, <1>3, <1>4, <1>5

\* A block of a ledger has a subtree weight between one and the size of the
\* ledger.
LEMMA SubtreeBounds ==
    ASSUME NEW B, NEW n, TableOK(B, n), NEW L, ChainClosed(B, n, L)
    PROVE  /\ IsFiniteSet(L) /\ Cardinality(L) \in Nat
           /\ \A x \in L : /\ IsFiniteSet(Subtree(B, L, x))
                          /\ SubtreeWeight(B, L, x) \in 1..Cardinality(L)
<1>1. n \in Nat /\ ChainsOK(B, n) /\ L \subseteq 0..(n - 1)
  BY TableFacts DEF TableOK, ChainClosed
<1>2. IsFiniteSet(L) /\ Cardinality(L) \in Nat
  <2>1. 0 \in Int /\ n - 1 \in Int
    BY <1>1
  <2>2. IsFiniteSet(0..(n - 1))
    BY <2>1, FS_Interval
  <2> QED BY <2>2, <1>1, FS_Subset, FS_CardinalityType
<1>3. ASSUME NEW x \in L
      PROVE  /\ IsFiniteSet(Subtree(B, L, x))
             /\ SubtreeWeight(B, L, x) \in 1..Cardinality(L)
  <2> DEFINE S == Subtree(B, L, x)
  <2>1. x \in S /\ S \subseteq L
    BY <1>1 DEF Subtree, ChainsOK
  <2>2. SubtreeWeight(B, L, x) = Cardinality(S)
    BY DEF SubtreeWeight
  <2> HIDE DEF S
  <2>3. IsFiniteSet(S) /\ Cardinality(S) \in Nat /\ Cardinality(S) <= Cardinality(L)
    BY <2>1, <1>2, FS_Subset, FS_CardinalityType
  <2>4. Cardinality(S) # 0
    BY <2>1, <2>3, FS_EmptySet
  <2> QED BY <2>2, <2>3, <2>4, <1>2 DEF S
<1> QED BY <1>2, <1>3

\* Entering b under its parent adds one to the subtrees on its chain.
Grows(B, n, L, b) ==
    /\ ChainClosed(B, n, L \cup {b})
    /\ Cardinality(L) \in Nat /\ Cardinality(L \cup {b}) = Cardinality(L) + 1
    /\ SubtreeWeight(B, L \cup {b}, b) = 1
    /\ \A x \in L : /\ SubtreeWeight(B, L, x) \in 1..Cardinality(L)
                   /\ SubtreeWeight(B, L \cup {b}, x) =
                         IF x \in B[b].chain THEN SubtreeWeight(B, L, x) + 1
                         ELSE SubtreeWeight(B, L, x)

\* Adding b under a block of the ledger adds one to the subtrees on its chain,
\* and to no other: what the first loop of insert counts on.
LEMMA SubtreeGrows ==
    ASSUME NEW B, NEW n, TableOK(B, n), NEW L, ChainClosed(B, n, L),
           NEW b \in 1..(n - 1), b \notin L, B[b].parent \in L
    PROVE  Grows(B, n, L, b)
<1>1. n \in Nat /\ EdgesOK(B, n) /\ ChainsOK(B, n) /\ L \subseteq 0..(n - 1)
      /\ (\A x \in L : B[x].chain \subseteq L)
  BY TableFacts DEF TableOK, ChainClosed
<1>2. B[b].chain = B[B[b].parent].chain \cup {b} /\ b \in 0..(n - 1)
  BY <1>1 DEF EdgesOK
<1>3. ChainClosed(B, n, L \cup {b})
  BY <1>1, <1>2 DEF ChainClosed
<1>4. IsFiniteSet(L)
  BY SubtreeBounds
<1>5. Cardinality(L) \in Nat /\ Cardinality(L \cup {b}) = Cardinality(L) + 1
  BY <1>4, FS_AddElement, FS_CardinalityType
<1>6. Subtree(B, L \cup {b}, b) = {b}
  BY <1>1, <1>2 DEF Subtree
<1>7. SubtreeWeight(B, L \cup {b}, b) = 1
  BY <1>6, FS_Singleton DEF SubtreeWeight
<1>8. ASSUME NEW x \in L
      PROVE  /\ SubtreeWeight(B, L, x) \in 1..Cardinality(L)
             /\ SubtreeWeight(B, L \cup {b}, x) =
                   IF x \in B[b].chain THEN SubtreeWeight(B, L, x) + 1
                   ELSE SubtreeWeight(B, L, x)
  <2> DEFINE S == Subtree(B, L, x)
  <2>1. b \notin S /\ IsFiniteSet(S) /\ Cardinality(S) \in 1..Cardinality(L)
    BY SubtreeBounds DEF Subtree, SubtreeWeight
  <2>2. Subtree(B, L \cup {b}, x) = IF x \in B[b].chain THEN S \cup {b} ELSE S
    BY DEF Subtree
  <2>3. Cardinality(S \cup {b}) = Cardinality(S) + 1
    <3> HIDE DEF S
    <3> QED BY <2>1, FS_AddElement
  <2>4. SubtreeWeight(B, L, x) = Cardinality(S)
    BY DEF SubtreeWeight
  <2>5. SubtreeWeight(B, L \cup {b}, x) =
          IF x \in B[b].chain THEN Cardinality(S) + 1 ELSE Cardinality(S)
    BY <2>2, <2>3 DEF SubtreeWeight
  <2> HIDE DEF S
  <2> QED BY <2>1, <2>4, <2>5, <1>5
<1> QED BY <1>3, <1>5, <1>7, <1>8 DEF Grows

-----------------------------------------------------------------------------
(***************************************************************************)
(* Beats is a strict total order on the children of a block, so the loop   *)
(* of updateMaxChild finds the one heaviest child.                         *)
(***************************************************************************)
\* With natural weights, of two children exactly one beats the other.
LEMMA BeatsOrder ==
    ASSUME NEW B, NEW K, \A c \in K : c \in Int /\ B[c].residual \in Int,
           NEW w, \A c \in K : w[c] \in Int
    PROVE  /\ \A c \in K : ~ Beats(B, w[c], w[c], c, c)
           /\ \A c, d, e \in K : Beats(B, w[c], w[d], c, d) /\ Beats(B, w[d], w[e], d, e)
                                    => Beats(B, w[c], w[e], c, e)
           /\ \A c, d \in K : c # d => Beats(B, w[c], w[d], c, d) \/ Beats(B, w[d], w[c], d, c)
           /\ \A c, d \in K : Beats(B, w[c], w[d], c, d) => ~ Beats(B, w[d], w[c], d, c)
BY DEF Beats

\* What updateMaxChild stores is the child that beats all the others, when the
\* weights it reads are those of the subtrees.
LEMMA MaxChildIsHeaviest ==
    ASSUME NEW B, NEW n, TableOK(B, n), NEW g, g.ledger \subseteq 0..(n - 1),
           NEW x \in g.ledger, Children(B, g, x) # {},
           \A c \in Children(B, g, x) : /\ GetWeight(g, c) = SubtreeWeight(B, g.ledger, c)
                                        /\ GetWeight(g, c) \in Int
    PROVE  IsHeaviestChild(B, g.ledger, x, MaxChildOf(B, g, x))
<1> DEFINE K == Children(B, g, x)
           w == [c \in K |-> GetWeight(g, c)]
           R == {e \in K \X K : Beats(B, w[e[1]], w[e[2]], e[1], e[2])}
<1>1. K \subseteq g.ledger /\ K = ChildrenIn(B, g.ledger, x)
  BY DEF Children, ChildrenIn
<1>2. n \in Nat /\ 0..(n - 1) \subseteq BlockIds /\ B \in [BlockIds -> Block]
  BY TableFacts DEF TableOK
<1>3. \A c \in K : c \in Int /\ B[c].residual \in Int /\ w[c] \in Int /\ w[c] = GetWeight(g, c)
  <2>1. \A c \in K : B[c] \in Block /\ c \in Int
    BY <1>1, <1>2
  <2> QED BY <2>1, BlockAssumption DEF Block
<1>4. IsFiniteSet(K)
  <2>1. 0 \in Int /\ n - 1 \in Int
    BY <1>2
  <2>2. IsFiniteSet(0..(n - 1))
    BY <2>1, FS_Interval
  <2>3. K \subseteq 0..(n - 1)
    BY <1>1
  <2> HIDE DEF K
  <2> QED BY <2>2, <2>3, FS_Subset
<1> HIDE DEF w
<1>5. \A c, d \in K : <<c, d>> \in R <=> Beats(B, w[c], w[d], c, d)
  OBVIOUS
<1> HIDE DEF R, K
<1>6. /\ \A c \in K : ~ Beats(B, w[c], w[c], c, c)
      /\ \A c, d, e \in K : Beats(B, w[c], w[d], c, d) /\ Beats(B, w[d], w[e], d, e)
                                => Beats(B, w[c], w[e], c, e)
      /\ \A c, d \in K : c # d => Beats(B, w[c], w[d], c, d) \/ Beats(B, w[d], w[c], d, c)
  BY <1>3, BeatsOrder
<1>7. PICK m \in K : \A c \in K : <<c, m>> \notin R
  <2>1. K # {}
    BY DEF K
  <2>2. \A c \in K : <<c, c>> \notin R
    BY <1>5, <1>6
  <2>3. \A c, d, e \in K : <<c, d>> \in R /\ <<d, e>> \in R => <<c, e>> \in R
    BY <1>5, <1>6
  <2> QED BY <1>4, <2>1, <2>2, <2>3, Undominated
<1>8. \A d \in K \ {m} : Beats(B, w[m], w[d], m, d)
  BY <1>5, <1>6, <1>7
<1>9. \A d \in K \ {m} : Beats(B, GetWeight(g, m), GetWeight(g, d), m, d)
  BY <1>3, <1>8
<1>10. /\ MaxChildOf(B, g, x) \in K
       /\ \A d \in K \ {MaxChildOf(B, g, x)} :
             Beats(B, GetWeight(g, MaxChildOf(B, g, x)), GetWeight(g, d), MaxChildOf(B, g, x), d)
  <2>1. MaxChildOf(B, g, x) = CHOOSE c \in K : \A d \in K \ {c} :
                                Beats(B, GetWeight(g, c), GetWeight(g, d), c, d)
    BY DEF MaxChildOf, K
  <2> QED BY <2>1, <1>9
<1> QED BY <1>1, <1>10 DEF IsHeaviestChild, K

-----------------------------------------------------------------------------
(***************************************************************************)
(* insert(b) on a consistent graph that holds the ancestors of b, step by  *)
(* step.                                                                   *)
(***************************************************************************)
Ready(B, n, g, b) ==
    /\ TableOK(B, n) /\ GraphOK(B, n, g)
    /\ b \in 1..(n - 1) /\ b \notin g.ledger /\ Parents(B, b) \subseteq g.ledger

Branch(B, g, b)   == Climbed(B, AddEntry(B, g, b), B[b].parent)
Fork(B, g, b)     == PivotPoint(B, AddEntry(B, g, b), B[b].parent)
Credited(B, g, b) == CreditBranch(B, AddEntry(B, g, b), Branch(B, g, b))
Lowered(B, g, b)  == LowerOldBranch(B, Credited(B, g, b), Credited(B, g, b).maxChild[Fork(B, g, b)])

\* A stored weight tells whether the block is on the pivot.
LEMMA PivotSign ==
    ASSUME NEW B, NEW n, TableOK(B, n), NEW g, GraphOK(B, n, g)
    PROVE  /\ ChainClosed(B, n, g.ledger)
           /\ g.totalWeight \in Nat
           /\ \A x \in g.ledger :
                 /\ SubtreeWeight(B, g.ledger, x) \in 1..g.totalWeight
                 /\ IsPivot(g, x) <=> x \in PivotChain(B, g)
                 /\ g.weight[x] = SubtreeWeight(B, g.ledger, x)
                                   - (IF x \in PivotChain(B, g) THEN g.totalWeight ELSE 0)
<1>1. ChainClosed(B, n, g.ledger) /\ WeightsExact(B, g)
  BY DEF GraphOK, ChainClosed, Consistent
<1>2. g.totalWeight = Cardinality(g.ledger)
  BY <1>1 DEF WeightsExact
<1>3. g.totalWeight \in Nat /\ \A x \in g.ledger : SubtreeWeight(B, g.ledger, x) \in 1..g.totalWeight
  BY <1>1, <1>2, SubtreeBounds
<1>4. \A x \in g.ledger : g.weight[x] = SubtreeWeight(B, g.ledger, x)
                                   - (IF x \in PivotChain(B, g) THEN g.totalWeight ELSE 0)
  BY <1>1 DEF WeightsExact
<1>5. \A x \in g.ledger : IsPivot(g, x) <=> x \in PivotChain(B, g)
  BY <1>3, <1>4 DEF IsPivot
<1> QED BY <1>1, <1>3, <1>4, <1>5

\* The graph once the new entry is in it, field by field.
LEMMA EnteredFields ==
    ASSUME NEW B, NEW n, NEW g, NEW b, Ready(B, n, g, b)
    PROVE  /\ AddEntry(B, g, b) \in Graph
           /\ AddEntry(B, g, b).ledger = g.ledger \cup {b}
           /\ AddEntry(B, g, b).totalWeight = g.totalWeight + 1
           /\ \A x \in BlockIds : /\ AddEntry(B, g, b).weight[x] = IF x = b THEN 1 ELSE g.weight[x]
                                 /\ AddEntry(B, g, b).maxChild[x] =
                                      IF x = b THEN None ELSE g.maxChild[x]
           /\ AddEntry(B, g, b).tips = (g.tips \ Parents(B, b)) \cup {b}
           /\ AddEntry(B, g, b).pivotTip = g.pivotTip
<1> DEFINE wt   == [g.weight EXCEPT ![b] = 1]
           mc   == [g.maxChild EXCEPT ![b] = None]
           tips == (g.tips \ Parents(B, b)) \cup {b}
           all  == g.ledger \cup {b}
           tot  == g.totalWeight + 1
<1>1. g \in Graph /\ b \in BlockIds /\ ~ IsGenesis(B, b)
  BY TableFacts DEF Ready, GraphOK
<1>2. AddEntry(B, g, b) = [g EXCEPT !.ledger = all, !.totalWeight = tot, !.weight = wt,
                                    !.maxChild = mc, !.tips = tips]
  BY <1>1 DEF AddEntry
<1>3. wt \in [BlockIds -> Int] /\ mc \in [BlockIds -> BlockIds \cup {None}]
      /\ tips \in SUBSET BlockIds /\ all \in SUBSET BlockIds /\ tot \in Nat
  BY <1>1 DEF Graph
<1> HIDE DEF wt, mc, tips, all, tot
<1> DEFINE e == AddEntry(B, g, b)
<1>4. /\ e \in Graph
      /\ e.ledger = all /\ e.totalWeight = tot /\ e.weight = wt
      /\ e.maxChild = mc /\ e.tips = tips /\ e.pivotTip = g.pivotTip
  BY <1>1, <1>2, <1>3 DEF Graph
<1>5. \A x \in BlockIds : /\ wt[x] = IF x = b THEN 1 ELSE g.weight[x]
                         /\ mc[x] = IF x = b THEN -1 ELSE g.maxChild[x]
  BY <1>1 DEF wt, mc, Graph
<1> QED BY <1>4, <1>5 DEF tips, all, tot

\* The climb ends at the deepest pivot block on the chain of the parent.
LEMMA ClimbEnds ==
    ASSUME NEW B, NEW n, NEW g, NEW b, Ready(B, n, g, b)
    PROVE  /\ B[b].parent \in g.ledger /\ B[b].parent < b
           /\ B[b].chain = B[B[b].parent].chain \cup {b}
           /\ B[B[b].parent].chain \subseteq g.ledger
           /\ Branch(B, g, b) = B[B[b].parent].chain \ PivotChain(B, g)
           /\ Fork(B, g, b) \in B[B[b].parent].chain \cap PivotChain(B, g)
           /\ B[Fork(B, g, b)].chain = B[B[b].parent].chain \cap PivotChain(B, g)
<1> DEFINE p == B[b].parent
           P == PivotChain(B, g)
           e == AddEntry(B, g, b)
<1>1. /\ TableOK(B, n) /\ GraphOK(B, n, g) /\ EdgesOK(B, n) /\ ChainsOK(B, n)
      /\ b \in 1..(n - 1) /\ b \notin g.ledger /\ Parents(B, b) \subseteq g.ledger
  BY DEF Ready, TableOK
<1>2. p \in g.ledger /\ p < b /\ p \in 0..(n - 1) /\ B[b].chain = B[p].chain \cup {b}
  BY <1>1, TableFacts DEF EdgesOK
<1>3. ChainClosed(B, n, g.ledger) /\ B[p].chain \subseteq g.ledger
  BY <1>1, <1>2, PivotSign DEF ChainClosed
<1>4. P = PivotOf(B, g.ledger, g.maxChild)
  BY DEF PivotOf, PivotChain
<1>5. \A x \in g.ledger : IsPivot(e, x) <=> x \in P
  <2>1. \A x \in g.ledger : e.weight[x] = g.weight[x]
    <3>1. \A x \in BlockIds : e.weight[x] = IF x = b THEN 1 ELSE g.weight[x]
      BY EnteredFields
    <3>2. g.ledger \subseteq BlockIds
      BY <1>1 DEF GraphOK, Graph
    <3> HIDE DEF e
    <3> QED BY <3>1, <3>2, <1>1
  <2> QED BY <2>1, <1>1, PivotSign DEF IsPivot
<1>6. \A d \in P : B[d].chain \subseteq P
  BY <1>1, <1>3, <1>4, PivotFacts
<1>7. \A c \in B[p].chain : c \in B[c].chain
  BY <1>1, <1>2 DEF ChainsOK
<1>8. Climbed(B, e, p) = B[p].chain \ P
  <2> HIDE DEF e, P, p
  <2> QED BY <1>3, <1>5, <1>6, <1>7 DEF Climbed
<1>9. 0 \in B[p].chain \cap P
  BY <1>1, <1>2, <1>3, <1>4, PivotFacts DEF ChainsOK
<1>10. PICK k \in B[p].chain \cap P : \A x \in B[p].chain \cap P : x <= k
  <2>1. B[p].chain \cap P \subseteq 0..p /\ p \in Nat
    BY <1>1, <1>2 DEF ChainsOK
  <2> HIDE DEF P, p
  <2> QED BY <2>1, <1>9, MaxExists
<1>11. B[k].chain = B[p].chain \cap P
  <2>1. B[k].chain \subseteq B[p].chain \cap P
    BY <1>1, <1>2, <1>6 DEF ChainsOK
  <2>2. ASSUME NEW c \in B[p].chain \cap P PROVE c \in B[k].chain
    <3>1. c \in B[k].chain \/ k \in B[c].chain
      BY <1>1, <1>2 DEF ChainsOK
    <3>2. c \in 0..(n - 1) /\ B[c].chain \subseteq 0..c /\ c <= k /\ k \in 0..(n - 1)
      <4>1. B[p].chain \subseteq 0..(n - 1)
        BY <1>1, <1>3 DEF GraphOK
      <4> HIDE DEF p, P
      <4> QED BY <4>1, <1>1, <1>10 DEF ChainsOK
    <3>3. k \in B[c].chain => k = c
      BY <3>2
    <3> QED BY <3>1, <3>3, <1>7
  <2> QED BY <2>1, <2>2
<1>12. B[p].chain \ Climbed(B, e, p) = B[p].chain \cap P
  BY <1>8
<1>13. Fork(B, g, b) \in B[p].chain /\ B[Fork(B, g, b)].chain = B[p].chain \cap P
  <2>1. Fork(B, g, b) = CHOOSE a \in B[p].chain : B[a].chain = B[p].chain \ Climbed(B, e, p)
    BY DEF Fork, PivotPoint
  <2> HIDE DEF e, P, p
  <2> QED BY <2>1, <1>11, <1>12
<1>14. Fork(B, g, b) \in P
  BY <1>7, <1>13
<1> QED BY <1>2, <1>3, <1>8, <1>13, <1>14 DEF Branch

\* A loop of insert that adds to weights changes nothing but weights.
LEMMA AddWeightFields ==
    ASSUME NEW g \in Graph, NEW S, NEW k \in Int
    PROVE  /\ AddWeight(g, S, k) \in Graph
           /\ AddWeight(g, S, k).ledger = g.ledger
           /\ AddWeight(g, S, k).totalWeight = g.totalWeight
           /\ AddWeight(g, S, k).maxChild = g.maxChild
           /\ AddWeight(g, S, k).tips = g.tips
           /\ AddWeight(g, S, k).pivotTip = g.pivotTip
           /\ \A x \in BlockIds : AddWeight(g, S, k).weight[x] =
                                    IF x \in S THEN g.weight[x] + k ELSE g.weight[x]
<1> DEFINE wt == [x \in BlockIds |-> g.weight[x] + (IF x \in S THEN k ELSE 0)]
<1>1. AddWeight(g, S, k) = [g EXCEPT !.weight = wt]
  BY DEF AddWeight
<1>2. wt \in [BlockIds -> Int]
  BY DEF Graph
<1>3. \A x \in BlockIds : wt[x] = IF x \in S THEN g.weight[x] + k ELSE g.weight[x]
  BY DEF Graph
<1> HIDE DEF wt
<1> QED BY <1>1, <1>2, <1>3 DEF Graph

\* The weights on the branch climbed, and the maxChild chosen there, are those
\* of the graph with b.
CreditedOK(B, g, b, c) ==
    /\ c \in Graph
    /\ c.ledger = g.ledger \cup {b}
    /\ c.totalWeight = g.totalWeight + 1
    /\ c.tips = (g.tips \ Parents(B, b)) \cup {b}
    /\ c.pivotTip = g.pivotTip
    /\ c.weight[b] = 1 /\ c.maxChild[b] = None
    /\ \A x \in g.ledger : c.weight[x] =
          IF x \in Branch(B, g, b) THEN g.weight[x] + 1 ELSE g.weight[x]
    /\ \A x \in Branch(B, g, b) : IsHeaviestChild(B, g.ledger \cup {b}, x, c.maxChild[x])
    /\ \A x \in g.ledger \ Branch(B, g, b) : c.maxChild[x] = g.maxChild[x]

\* After the first loop the blocks off the pivot have exact weights and the
\* branch that was climbed has exact maxChild pointers.
LEMMA CreditedFields ==
    ASSUME NEW B, NEW n, NEW g, NEW b, Ready(B, n, g, b)
    PROVE  CreditedOK(B, g, b, Credited(B, g, b))
<1> DEFINE e == AddEntry(B, g, b)
           R == Branch(B, g, b)
           h == AddWeight(e, R, 1)
           c == Credited(B, g, b)
           L == g.ledger
           P == PivotChain(B, g)
           p == B[b].parent
<1>1. /\ TableOK(B, n) /\ GraphOK(B, n, g) /\ EdgesOK(B, n) /\ ChainsOK(B, n)
      /\ b \in 1..(n - 1) /\ b \notin L /\ p \in L /\ L \subseteq 0..(n - 1)
      /\ 0..(n - 1) \subseteq BlockIds /\ L \cup {b} \subseteq 0..(n - 1) /\ n \in Nat
  BY TableFacts, ClimbEnds DEF Ready, TableOK, GraphOK
<1>2. /\ e \in Graph /\ e.ledger = L \cup {b} /\ e.totalWeight = g.totalWeight + 1
      /\ e.tips = (g.tips \ Parents(B, b)) \cup {b} /\ e.pivotTip = g.pivotTip
      /\ \A x \in BlockIds : /\ e.weight[x] = IF x = b THEN 1 ELSE g.weight[x]
                            /\ e.maxChild[x] = IF x = b THEN -1 ELSE g.maxChild[x]
  BY EnteredFields
<1> HIDE DEF e
<1>3. /\ h \in Graph /\ h.ledger = L \cup {b} /\ h.totalWeight = g.totalWeight + 1
      /\ h.tips = e.tips /\ h.pivotTip = g.pivotTip /\ h.maxChild = e.maxChild
      /\ \A x \in BlockIds : h.weight[x] = IF x \in R THEN e.weight[x] + 1 ELSE e.weight[x]
  BY <1>2, AddWeightFields
<1> HIDE DEF h
<1>4. R = B[p].chain \ P /\ B[b].chain = B[p].chain \cup {b} /\ B[p].chain \subseteq L
  BY ClimbEnds
<1>5. /\ ChainClosed(B, n, L)
      /\ \A x \in L : /\ SubtreeWeight(B, L, x) \in 1..g.totalWeight
                     /\ g.weight[x] = SubtreeWeight(B, L, x) - (IF x \in P THEN g.totalWeight ELSE 0)
  BY <1>1, PivotSign
<1>6. /\ SubtreeWeight(B, L \cup {b}, b) = 1
      /\ \A x \in L : SubtreeWeight(B, L \cup {b}, x) =
            IF x \in B[b].chain THEN SubtreeWeight(B, L, x) + 1 ELSE SubtreeWeight(B, L, x)
  <2>1. TableOK(B, n) /\ ChainClosed(B, n, L) /\ b \in 1..(n - 1) /\ b \notin L
        /\ B[b].parent \in L
    BY <1>1, <1>5
  <2> HIDE DEF L
  <2>2. Grows(B, n, L, b)
    BY <2>1, SubtreeGrows
  <2> QED BY <2>2 DEF Grows
<1>7. \A d \in P : B[d].chain \subseteq P
  <2>1. P = PivotOf(B, L, g.maxChild)
    BY DEF PivotOf, PivotChain
  <2> QED BY <2>1, <1>1, <1>5, PivotFacts
<1>8. ASSUME NEW x \in R PROVE IsHeaviestChild(B, L \cup {b}, x, MaxChildOf(B, h, x))
  <2>1. x \in h.ledger /\ x \in L /\ x \notin P /\ x \in B[b].chain \ {b} /\ b \in 0..(n - 1)
    BY <1>1, <1>3, <1>4
  <2>2. Children(B, h, x) # {}
    <3>1. PICK d \in B[b].chain : d # 0 /\ B[d].parent = x
      BY <1>1, <2>1 DEF ChainsOK
    <3>2. d \in h.ledger
      BY <1>3, <1>4, <3>1
    <3> QED BY <3>1, <3>2 DEF Children
  <2>3. ASSUME NEW d \in Children(B, h, x)
        PROVE  GetWeight(h, d) = SubtreeWeight(B, h.ledger, d) /\ GetWeight(h, d) \in Int
    <3>1. d \in L \cup {b} /\ B[d].parent = x /\ d \in 0..(n - 1) /\ d \in BlockIds
      BY <1>1, <1>3 DEF Children
    <3>2. x \in B[d].chain
      <4>1. d \in 1..(n - 1)
        <5>1. x \in 0..(n - 1)
          BY <1>1, <2>1
        <5> QED BY <1>1, <3>1, <5>1 DEF EdgesOK
      <4>2. B[d].chain = B[x].chain \cup {d}
        BY <1>1, <3>1, <4>1 DEF EdgesOK
      <4>3. x \in B[x].chain
        BY <1>1, <2>1 DEF ChainsOK
      <4> QED BY <4>2, <4>3
    <3>3. CASE d = b
      <4>1. b \notin R
        BY <1>1, <1>4
      <4>2. h.weight[d] = 1
        BY <1>2, <1>3, <3>1, <3>3, <4>1
      <4> QED BY <4>2, <1>3, <1>6, <3>3 DEF GetWeight, IsPivot
    <3>4. CASE d \in L
      <4>1. d \notin P /\ d # b
        BY <1>1, <1>7, <2>1, <3>2, <3>4
      <4>2. d \in R <=> d \in B[b].chain
        BY <1>4, <4>1
      <4>3. g.weight[d] = SubtreeWeight(B, L, d) /\ SubtreeWeight(B, L, d) \in 1..g.totalWeight
        BY <1>5, <3>4, <4>1
      <4>4. h.weight[d] = SubtreeWeight(B, L \cup {b}, d)
        <5>1. h.weight[d] = IF d \in R THEN g.weight[d] + 1 ELSE g.weight[d]
          BY <1>2, <1>3, <3>1, <4>1
        <5>2. SubtreeWeight(B, L \cup {b}, d) =
                IF d \in B[b].chain THEN SubtreeWeight(B, L, d) + 1 ELSE SubtreeWeight(B, L, d)
          BY <1>6, <3>4
        <5> QED BY <5>1, <5>2, <4>2, <4>3
      <4>5. h.weight[d] > 0 /\ h.weight[d] \in Int
        BY <1>6, <3>4, <4>3, <4>4
      <4> QED BY <4>4, <4>5, <1>3 DEF GetWeight, IsPivot
    <3> QED BY <3>1, <3>3, <3>4
  <2>4. h.ledger \subseteq 0..(n - 1)
    BY <1>1, <1>3
  <2>5. TableOK(B, n) /\ x \in h.ledger
    BY <1>1, <2>1
  <2>6. IsHeaviestChild(B, h.ledger, x, MaxChildOf(B, h, x))
    BY <2>2, <2>3, <2>4, <2>5, MaxChildIsHeaviest
  <2> QED BY <2>6, <1>3
<1> DEFINE mc == [x \in BlockIds |-> IF x \in R THEN MaxChildOf(B, h, x) ELSE h.maxChild[x]]
<1>9. c = [h EXCEPT !.maxChild = mc]
  BY DEF Credited, CreditBranch, h, e
<1>10. mc \in [BlockIds -> BlockIds \cup {-1}]
  <2>1. \A x \in R : MaxChildOf(B, h, x) \in BlockIds
    BY <1>1, <1>8 DEF IsHeaviestChild, ChildrenIn
  <2>2. h.maxChild \in [BlockIds -> BlockIds \cup {-1}]
    BY <1>3 DEF Graph
  <2> HIDE DEF R
  <2> QED BY <2>1, <2>2
<1>11. \A x \in BlockIds : mc[x] = IF x \in R THEN MaxChildOf(B, h, x) ELSE h.maxChild[x]
  OBVIOUS
<1> HIDE DEF mc, c
<1>12. /\ c \in Graph /\ c.ledger = h.ledger /\ c.totalWeight = h.totalWeight
       /\ c.tips = h.tips /\ c.pivotTip = h.pivotTip /\ c.weight = h.weight /\ c.maxChild = mc
  BY <1>3, <1>9, <1>10 DEF Graph
<1>13. b \in BlockIds /\ b \notin R /\ R \subseteq L /\ L \subseteq BlockIds
  BY <1>1, <1>4
<1> HIDE DEF L, R
<1>14. c.weight[b] = 1 /\ c.maxChild[b] = -1
  BY <1>2, <1>3, <1>11, <1>12, <1>13
<1>15. \A x \in L : /\ c.weight[x] = IF x \in R THEN g.weight[x] + 1 ELSE g.weight[x]
                  /\ c.maxChild[x] = IF x \in R THEN MaxChildOf(B, h, x) ELSE g.maxChild[x]
  BY <1>1, <1>2, <1>3, <1>11, <1>12, <1>13
<1>16. \A x \in R : IsHeaviestChild(B, L \cup {b}, x, c.maxChild[x])
  BY <1>8, <1>13, <1>15
<1> QED BY <1>2, <1>3, <1>12, <1>14, <1>15, <1>16 DEF CreditedOK, c, L, R

\* What the proofs below use of the facts above.
ReadyOK(B, n, g, b) ==
    /\ TableOK(B, n) /\ GraphOK(B, n, g) /\ n \in Nat /\ 0..(n - 1) \subseteq BlockIds
    /\ b \in 0..(n - 1) /\ b \in 1..(n - 1) /\ b \notin g.ledger
    /\ g.ledger \subseteq 0..(n - 1)
    /\ ChainClosed(B, n, g.ledger) /\ ChainClosed(B, n, g.ledger \cup {b})
    /\ \A d \in g.ledger : B[d].chain \subseteq g.ledger
    /\ PivotChain(B, g) = PivotOf(B, g.ledger, g.maxChild)
    /\ PivotChain(B, g) \subseteq g.ledger
    /\ \A x \in PivotChain(B, g) : Credited(B, g, b).maxChild[x] = g.maxChild[x]
    /\ g.totalWeight \in Nat
    /\ SubtreeWeight(B, g.ledger \cup {b}, b) = 1
    /\ \A x \in g.ledger :
          /\ SubtreeWeight(B, g.ledger, x) \in 1..g.totalWeight
          /\ SubtreeWeight(B, g.ledger \cup {b}, x) =
               IF x \in B[b].chain THEN SubtreeWeight(B, g.ledger, x) + 1
               ELSE SubtreeWeight(B, g.ledger, x)
    /\ \A x \in g.ledger \cup {b} :
          SubtreeWeight(B, g.ledger \cup {b}, x) \in 1..(g.totalWeight + 1)

\* The facts about the graph, the fork and the branch climbed that the rest of
\* the argument starts from.
LEMMA ReadyFacts ==
    ASSUME NEW B, NEW n, NEW g, NEW b, Ready(B, n, g, b)
    PROVE  ReadyOK(B, n, g, b)
<1>1. /\ TableOK(B, n) /\ GraphOK(B, n, g) /\ b \in 1..(n - 1) /\ b \notin g.ledger
      /\ n \in Nat /\ 0..(n - 1) \subseteq BlockIds /\ B[b].parent \in g.ledger
  BY TableFacts DEF Ready
<1>2. b \in 0..(n - 1) /\ g.ledger \subseteq 0..(n - 1) /\ \A d \in g.ledger : B[d].chain \subseteq g.ledger
  BY <1>1 DEF GraphOK
<1>3. ChainClosed(B, n, g.ledger) /\ g.totalWeight \in Nat
  BY <1>1, PivotSign
<1>4. g.totalWeight = Cardinality(g.ledger)
  BY <1>1 DEF GraphOK, Consistent, WeightsExact
<1>5. PivotChain(B, g) = PivotOf(B, g.ledger, g.maxChild) /\ PivotChain(B, g) \subseteq g.ledger
  BY DEF PivotOf, PivotChain
<1>6. \A x \in PivotChain(B, g) : Credited(B, g, b).maxChild[x] = g.maxChild[x]
  <2>1. \A x \in PivotChain(B, g) : x \in g.ledger \ Branch(B, g, b)
    BY <1>5, ClimbEnds
  <2>2. CreditedOK(B, g, b, Credited(B, g, b))
    BY CreditedFields
  <2>3. \A x \in g.ledger \ Branch(B, g, b) : Credited(B, g, b).maxChild[x] = g.maxChild[x]
    BY <2>2 DEF CreditedOK
  <2> QED BY <2>1, <2>3
<1>7. Grows(B, n, g.ledger, b)
  <2> DEFINE L == g.ledger
  <2>1. TableOK(B, n) /\ ChainClosed(B, n, L) /\ b \in 1..(n - 1) /\ b \notin L
        /\ B[b].parent \in L
    BY <1>1, <1>3
  <2> HIDE DEF L
  <2>2. Grows(B, n, L, b)
    BY <2>1, SubtreeGrows
  <2> QED BY <2>2 DEF L
<1>8. /\ ChainClosed(B, n, g.ledger \cup {b})
      /\ SubtreeWeight(B, g.ledger \cup {b}, b) = 1
      /\ \A x \in g.ledger :
            /\ SubtreeWeight(B, g.ledger, x) \in 1..g.totalWeight
            /\ SubtreeWeight(B, g.ledger \cup {b}, x) =
                 IF x \in B[b].chain THEN SubtreeWeight(B, g.ledger, x) + 1
                 ELSE SubtreeWeight(B, g.ledger, x)
  BY <1>4, <1>7 DEF Grows
<1>9. ASSUME NEW x \in g.ledger \cup {b}
      PROVE  SubtreeWeight(B, g.ledger \cup {b}, x) \in 1..(g.totalWeight + 1)
  BY <1>3, <1>8
<1> QED BY <1>1, <1>2, <1>3, <1>5, <1>6, <1>8, <1>9 DEF ReadyOK

\* The second loop passes the pivot blocks below the fork.
LEMMA OldChainIs ==
    ASSUME NEW B, NEW n, NEW g, NEW b, Ready(B, n, g, b)
    PROVE  MaxChildChain(B, Credited(B, g, b), Credited(B, g, b).maxChild[Fork(B, g, b)])
             = PivotChain(B, g) \ B[Fork(B, g, b)].chain
<1> DEFINE c == Credited(B, g, b)
           L == g.ledger
           P == PivotChain(B, g)
           p == B[b].parent
           f == Fork(B, g, b)
           o == c.maxChild[f]
<1>1. /\ TableOK(B, n) /\ n \in Nat /\ b \in 1..(n - 1) /\ b \in 0..(n - 1) /\ b \notin L
      /\ L \subseteq 0..(n - 1) /\ (\A d \in L : B[d].chain \subseteq L)
      /\ P \subseteq L /\ (\A x \in P : c.maxChild[x] = g.maxChild[x])
  <2>1. ReadyOK(B, n, g, b)
    BY ReadyFacts
  <2> HIDE DEF L, P, c
  <2> QED BY <2>1 DEF ReadyOK, L, P, c
<1>2. /\ p \in L /\ B[b].chain = B[p].chain \cup {b} /\ B[p].chain \subseteq L
      /\ f \in B[p].chain /\ f \in P /\ B[f].chain = B[p].chain \cap P
      /\ Branch(B, g, b) = B[p].chain \ P
  BY ClimbEnds
<1>3. /\ 0 \in P
      /\ \A d \in P : B[d].chain \subseteq P
      /\ \A d \in P, e \in L : e # 0 /\ B[e].parent = d /\ g.maxChild[d] = e => e \in P
      /\ \A d, e \in P : d \in B[e].chain \/ e \in B[d].chain
      /\ \A d, e \in P : d \in B[e].chain /\ d # e =>
            \E a \in B[e].chain : a # 0 /\ B[a].parent = d /\ g.maxChild[d] = a
  <2>1. ChainClosed(B, n, L) /\ P = PivotOf(B, L, g.maxChild)
    <3>1. ReadyOK(B, n, g, b)
      BY ReadyFacts
    <3> QED BY <3>1 DEF ReadyOK
  <2>2. 0 \in L
    BY <1>1, <1>2, ChainFacts
  <2> HIDE DEF L, P
  <2> QED BY <1>1, <2>1, <2>2, PivotFacts
<1>4. c.ledger = L \cup {b} /\ c.maxChild[b] = -1
      /\ \A x \in L \ Branch(B, g, b) : c.maxChild[x] = g.maxChild[x]
  <2>1. CreditedOK(B, g, b, c)
    BY CreditedFields
  <2> QED BY <2>1 DEF CreditedOK
<1>5. o = g.maxChild[f]
  BY <1>1, <1>2
<1> HIDE DEF c, L, P, p, f, o
<1>6. \A x \in P : x # 0 => x \in 1..(n - 1) /\ B[x].parent \in P /\ g.maxChild[B[x].parent] = x
  <2> SUFFICES ASSUME NEW x \in P, x # 0
               PROVE  x \in 1..(n - 1) /\ B[x].parent \in P /\ g.maxChild[B[x].parent] = x
    OBVIOUS
  <2>1. x \in 1..(n - 1) /\ x \in B[x].chain
    BY <1>1, ChainFacts
  <2>2. B[x].parent \in P
    BY <1>1, <1>3, <2>1, ChainFacts
  <2>3. g.maxChild[B[x].parent] = x
    BY <2>1 DEF P, PivotChain
  <2> QED BY <2>1, <2>2, <2>3
<1>7. ASSUME NEW d \in P, d \notin B[f].chain
      PROVE  d \in MaxChildChain(B, c, o)
  <2>1. f \in B[d].chain /\ f # d
    BY <1>1, <1>2, <1>3, <1>7, ChainFacts
  <2>2. PICK a \in B[d].chain : a # 0 /\ B[a].parent = f /\ g.maxChild[f] = a
    BY <1>2, <1>3, <2>1
  <2>3. o = a /\ o # -1
    BY <1>1, <1>5, <2>2, ChainFacts
  <2>4. ASSUME NEW x \in B[d].chain \ B[o].chain PROVE c.maxChild[B[x].parent] = x
    <3>1. o \in B[d].chain /\ 0 \in B[o].chain
      BY <1>1, <2>2, <2>3, ChainFacts
    <3>2. x # 0 /\ x \in P
      BY <1>3, <2>4, <3>1
    <3> QED BY <1>1, <1>6, <3>2
  <2>5. d \in c.ledger /\ o \in B[d].chain
    BY <1>1, <1>4, <2>2, <2>3
  <2> QED BY <2>3, <2>4, <2>5 DEF MaxChildChain
<1>8. ASSUME NEW d \in MaxChildChain(B, c, o)
      PROVE  d \in P /\ d \notin B[f].chain
  <2>1. /\ o # -1 /\ d \in L \cup {b} /\ o \in B[d].chain
        /\ \A x \in B[d].chain \ B[o].chain : c.maxChild[B[x].parent] = x
    BY <1>4 DEF MaxChildChain
  <2>2. d \in 0..(n - 1) /\ o \in 0..(n - 1)
    BY <1>1, <2>1, ChainFacts
  <2>3. o \in L /\ B[o].parent = f /\ o # 0
    <3>1. MaxChildExact(B, g)
      BY DEF Ready, GraphOK, Consistent
    <3>2. o \in ChildrenIn(B, L, f)
      BY <1>1, <1>2, <1>5, <2>1, <3>1 DEF MaxChildExact, IsHeaviestChild, L
    <3>3. o \in L /\ B[o].parent = f
      BY <3>2 DEF ChildrenIn
    <3>4. f # -1 /\ B[0].parent = -1
      BY <1>1, <1>2 DEF TableOK, EdgesOK
    <3> QED BY <3>3, <3>4
  <2>4. o \in P /\ o \notin B[p].chain /\ o \notin B[f].chain
    <3>1. o \in P
      BY <1>2, <1>3, <1>5, <2>3
    <3>2. o \in 1..(n - 1)
      BY <2>2, <2>3
    <3>3. o \notin B[f].chain
      BY <1>1, <2>3, <3>2, ChainFacts
    <3> QED BY <1>2, <3>1, <3>3
  <2>5. o \notin B[b].chain
    BY <1>1, <1>2, <2>3, <2>4
  <2>6. d \in L
    BY <2>1, <2>5
  <2>7. d \notin B[f].chain
    BY <1>1, <1>2, <2>1, <2>4, ChainFacts
  <2>8. ASSUME NEW x \in B[d].chain \ {0} PROVE g.maxChild[B[x].parent] = x
    <3>1. CASE x \in B[o].chain
      BY <1>3, <1>6, <2>4, <2>8, <3>1
    <3>2. CASE x \notin B[o].chain
      <4>1. x \in 1..(n - 1)
        BY <1>1, <2>2, <2>8, ChainFacts
      <4>2. o \in B[x].chain /\ o # x
        BY <1>1, <2>1, <2>2, <2>8, <3>2, ChainFacts
      <4>3. o \in B[B[x].parent].chain
        BY <1>1, <4>1, <4>2, ChainFacts
      <4>4. B[x].parent \in L /\ B[x].parent \in 0..(n - 1)
        BY <1>1, <2>6, <2>2, <4>1, ChainFacts
      <4>5. B[x].parent \notin B[p].chain
        <5>1. p \in 0..(n - 1)
          BY <1>1, <1>2
        <5> QED BY <1>1, <2>4, <4>3, <5>1, ChainFacts
      <4>6. B[x].parent \notin Branch(B, g, b)
        BY <1>2, <4>5
      <4>7. c.maxChild[B[x].parent] = x
        BY <2>1, <2>8, <3>2
      <4> QED BY <1>4, <4>4, <4>6, <4>7
    <3> QED BY <3>1, <3>2
  <2>9. d \in P
    BY <2>6, <2>8 DEF P, L, PivotChain
  <2> QED BY <2>7, <2>9
<1>9. MaxChildChain(B, c, o) = P \ B[f].chain
  BY <1>7, <1>8
<1> QED BY <1>9 DEF c, o, f, P

-----------------------------------------------------------------------------
(***************************************************************************)
(* The rest of insert: the second loop, the choice at the fork, the new    *)
(* pivot, and the lemma for the whole of Insert.                           *)
(***************************************************************************)
\* The graph before the choice at the fork: every weight is exact for the
\* ledger with b and for the pivot chain as it was.
LoweredOK(B, g, b, l) ==
    /\ l \in Graph
    /\ l.ledger = g.ledger \cup {b}
    /\ l.totalWeight = g.totalWeight + 1
    /\ l.tips = (g.tips \ Parents(B, b)) \cup {b}
    /\ l.pivotTip = g.pivotTip
    /\ l.maxChild = Credited(B, g, b).maxChild
    /\ \A x \in g.ledger \cup {b} :
          l.weight[x] = SubtreeWeight(B, g.ledger \cup {b}, x)
                         - (IF x \in PivotChain(B, g) THEN g.totalWeight + 1 ELSE 0)

\* The second loop of insert makes up for the total weight, which has grown.
LEMMA LoweredFields ==
    ASSUME NEW B, NEW n, NEW g, NEW b, Ready(B, n, g, b)
    PROVE  LoweredOK(B, g, b, Lowered(B, g, b))
<1> DEFINE c == Credited(B, g, b)
           S == MaxChildChain(B, c, c.maxChild[Fork(B, g, b)])
           l == Lowered(B, g, b)
           L == g.ledger
           P == PivotChain(B, g)
           p == B[b].parent
           f == Fork(B, g, b)
           T == g.totalWeight
           sw(x) == SubtreeWeight(B, L \cup {b}, x)
<1>1. S = P \ B[f].chain
  BY OldChainIs
<1>2. l = AddWeight(c, S, -1)
  BY DEF Lowered, LowerOldBranch
<1>3. CreditedOK(B, g, b, c)
  BY CreditedFields
<1>4. ReadyOK(B, n, g, b)
  BY ReadyFacts
<1>5. /\ p \in L /\ B[b].chain = B[p].chain \cup {b}
      /\ B[f].chain = B[p].chain \cap P /\ Branch(B, g, b) = B[p].chain \ P
  BY ClimbEnds
<1> HIDE DEF c, S
<1>6. c \in Graph
  BY <1>3 DEF CreditedOK
<1>7. /\ l \in Graph /\ l.ledger = c.ledger /\ l.totalWeight = c.totalWeight
      /\ l.maxChild = c.maxChild /\ l.tips = c.tips /\ l.pivotTip = c.pivotTip
      /\ \A x \in BlockIds : l.weight[x] = IF x \in S THEN c.weight[x] + (-1) ELSE c.weight[x]
  <2> HIDE DEF l
  <2>1. -1 \in Int
    OBVIOUS
  <2> QED BY <1>2, <1>6, <2>1, AddWeightFields
<1> HIDE DEF l
<1>8. ASSUME NEW x \in L
      PROVE  l.weight[x] = sw(x) - (IF x \in P THEN T + 1 ELSE 0)
  <2>1. /\ x \in BlockIds /\ x # b /\ T \in Nat
        /\ SubtreeWeight(B, L, x) \in Int
        /\ sw(x) = IF x \in B[b].chain THEN SubtreeWeight(B, L, x) + 1
                   ELSE SubtreeWeight(B, L, x)
    <3>1. x \in BlockIds /\ x # b /\ T \in Nat
      BY <1>4 DEF ReadyOK
    <3>2. /\ SubtreeWeight(B, L, x) \in 1..T
          /\ sw(x) = IF x \in B[b].chain THEN SubtreeWeight(B, L, x) + 1
                     ELSE SubtreeWeight(B, L, x)
      BY <1>4 DEF ReadyOK
    <3> QED BY <3>1, <3>2
  <2>2. g.weight[x] = SubtreeWeight(B, L, x) - (IF x \in P THEN T ELSE 0)
    <3>1. TableOK(B, n) /\ GraphOK(B, n, g)
      BY DEF Ready
    <3> QED BY <3>1, PivotSign
  <2>3. c.weight[x] = IF x \in Branch(B, g, b) THEN g.weight[x] + 1 ELSE g.weight[x]
    BY <1>3 DEF CreditedOK
  <2>4. l.weight[x] = IF x \in S THEN c.weight[x] - 1 ELSE c.weight[x]
    <3>1. c.weight[x] \in Int
      BY <1>6, <2>1 DEF Graph
    <3> QED BY <1>7, <2>1, <3>1
  <2> DEFINE s == SubtreeWeight(B, L, x)
             s1 == sw(x)
  <2> HIDE DEF s, s1, L, P, T, p, f
  <2>5. /\ s \in Int /\ T \in Nat
        /\ s1 = IF x \in B[b].chain THEN s + 1 ELSE s
        /\ g.weight[x] = s - (IF x \in P THEN T ELSE 0)
    BY <2>1, <2>2 DEF s, s1
  <2>6. l.weight[x] = s1 - (IF x \in P THEN T + 1 ELSE 0)
    <3>1. CASE x \in P /\ x \in B[p].chain
      BY <3>1, <1>1, <1>5, <2>3, <2>4, <2>5
    <3>2. CASE x \in P /\ x \notin B[p].chain
      BY <3>2, <1>1, <1>5, <2>1, <2>3, <2>4, <2>5
    <3>3. CASE x \notin P
      BY <3>3, <1>1, <1>5, <2>1, <2>3, <2>4, <2>5
    <3> QED BY <3>1, <3>2, <3>3
  <2> QED BY <2>6 DEF s1
<1>9. l.weight[b] = sw(b) - (IF b \in P THEN T + 1 ELSE 0)
  <2>1. b \in BlockIds /\ b \notin P /\ sw(b) = 1
    BY <1>4 DEF ReadyOK
  <2>2. c.weight[b] = 1
    BY <1>3 DEF CreditedOK
  <2>3. l.weight[b] = 1
    BY <1>1, <1>7, <2>1, <2>2
  <2> QED BY <2>1, <2>3
<1>10. \A x \in L \cup {b} : l.weight[x] = sw(x) - (IF x \in P THEN T + 1 ELSE 0)
  BY <1>8, <1>9
<1>11. /\ c.ledger = L \cup {b} /\ c.totalWeight = T + 1
       /\ c.tips = (g.tips \ Parents(B, b)) \cup {b} /\ c.pivotTip = g.pivotTip
  BY <1>3 DEF CreditedOK
<1> QED BY <1>7, <1>10, <1>11 DEF LoweredOK, l, c

\* The children of a block other than the parent of b stay the same, and a
\* heaviest child on the chain of b only gets heavier: away from the fork no
\* choice is overturned.
LEMMA HeaviestStays ==
    ASSUME NEW B, NEW n, NEW g, NEW b, Ready(B, n, g, b),
           NEW x \in g.ledger, x \notin Branch(B, g, b), x # Fork(B, g, b),
           NEW m, IsHeaviestChild(B, g.ledger, x, m), g.maxChild[x] = m
    PROVE  IsHeaviestChild(B, g.ledger \cup {b}, x, m)
<1> DEFINE L == g.ledger
           P == PivotChain(B, g)
           p == B[b].parent
           f == Fork(B, g, b)
           w(y) == SubtreeWeight(B, L, y)
           w1(y) == SubtreeWeight(B, L \cup {b}, y)
<1>1. ReadyOK(B, n, g, b)
  BY ReadyFacts
<1>2. /\ p \in L /\ B[b].chain = B[p].chain \cup {b} /\ B[p].chain \subseteq L
      /\ f \in B[p].chain /\ f \in P
      /\ B[f].chain = B[p].chain \cap P /\ Branch(B, g, b) = B[p].chain \ P
  BY ClimbEnds
<1>3. /\ TableOK(B, n) /\ EdgesOK(B, n) /\ ChainsOK(B, n) /\ n \in Nat
      /\ b \in 0..(n - 1) /\ b \notin L /\ L \subseteq 0..(n - 1)
  BY <1>1 DEF ReadyOK, TableOK
<1>4. ASSUME NEW y \in L
      PROVE  w(y) \in Int /\ w1(y) = IF y \in B[b].chain THEN w(y) + 1 ELSE w(y)
  <2>1. g.totalWeight \in Nat
    BY <1>1 DEF ReadyOK
  <2>2. w(y) \in 1..g.totalWeight /\ w1(y) = IF y \in B[b].chain THEN w(y) + 1 ELSE w(y)
    BY <1>1 DEF ReadyOK
  <2> QED BY <2>1, <2>2
<1> HIDE DEF L, P, p, f, w, w1
<1>5. x \in 0..(n - 1) /\ p \in 0..(n - 1) /\ x # b /\ f \in 0..(n - 1)
  BY <1>2, <1>3 DEF L
<1>6. x # p
  <2> SUFFICES ASSUME x = p PROVE FALSE
    OBVIOUS
  <2>1. p \in B[p].chain
    BY <1>3, <1>5, ChainFacts
  <2>2. p \in B[f].chain
    BY <1>2, <2>1
  <2>3. f = p
    BY <1>2, <1>3, <1>5, <2>2, ChainFacts
  <2> QED BY <2>3 DEF f
<1>7. ChildrenIn(B, L \cup {b}, x) = ChildrenIn(B, L, x)
  BY <1>6 DEF ChildrenIn, p
<1>8. /\ m \in ChildrenIn(B, L, x)
      /\ \A d \in ChildrenIn(B, L, x) \ {m} : Beats(B, w(m), w(d), m, d)
  BY DEF IsHeaviestChild, L, w
<1>9. ASSUME NEW d \in ChildrenIn(B, L, x) \ {m} PROVE d \notin B[b].chain
  <2> SUFFICES ASSUME d \in B[b].chain PROVE FALSE
    OBVIOUS
  <2>1. d \in L /\ B[d].parent = x /\ m \in L /\ B[m].parent = x
    BY <1>8 DEF ChildrenIn
  <2>2. d \in 1..(n - 1) /\ m \in 1..(n - 1)
    <3>1. x # -1 /\ B[0].parent = -1
      BY <1>3, <1>5 DEF EdgesOK
    <3>2. d \in 0..(n - 1) /\ m \in 0..(n - 1)
      BY <1>3, <2>1
    <3> QED BY <2>1, <3>1, <3>2
  <2>3. x \in B[d].chain
    BY <1>3, <2>1, <2>2, ChainFacts
  <2>4. x \in B[b].chain
    BY <1>3, <2>3, ChainFacts
  <2>5. x \in B[f].chain /\ x # f
    BY <1>2, <1>5, <2>4 DEF f
  <2>6. PICK a \in B[f].chain : a # 0 /\ B[a].parent = x
    BY <1>3, <1>5, <2>5 DEF ChainsOK
  <2>7. a = m
    <3>1. a \in P
      BY <1>2, <2>6
    <3>2. \A y \in B[a].chain \ {0} : g.maxChild[B[y].parent] = y
      BY <3>1 DEF P, PivotChain
    <3>3. a \in B[a].chain
      BY <1>3, <1>5, <2>6, ChainFacts
    <3> QED BY <2>6, <3>2, <3>3
  <2>8. m \in B[b].chain
    BY <1>2, <2>6, <2>7
  <2>9. d = m
    BY <1>3, <2>1, <2>2, <2>8, ChainFacts
  <2> QED BY <2>9
<1>10. ASSUME NEW d \in ChildrenIn(B, L, x) \ {m} PROVE Beats(B, w1(m), w1(d), m, d)
  <2>1. d \in L /\ m \in L
    BY <1>8 DEF ChildrenIn
  <2>2. w1(d) = w(d) /\ (w1(m) = w(m) \/ w1(m) = w(m) + 1) /\ w(d) \in Int /\ w(m) \in Int
    BY <1>4, <1>9, <2>1
  <2>3. Beats(B, w(m), w(d), m, d)
    BY <1>8
  <2> DEFINE u == w(m)
             v == w(d)
             u1 == w1(m)
             v1 == w1(d)
  <2>4. v1 = v /\ (u1 = u \/ u1 = u + 1) /\ v \in Int /\ u \in Int /\ Beats(B, u, v, m, d)
    BY <2>2, <2>3
  <2> HIDE DEF u, v, u1, v1
  <2>5. Beats(B, u1, v1, m, d)
    <3>1. CASE u1 = u
      BY <2>4, <3>1
    <3>2. CASE u1 = u + 1
      BY <2>4, <3>2 DEF Beats
    <3> QED BY <2>4, <3>1, <3>2
  <2> QED BY <2>5 DEF u1, v1
<1> QED BY <1>7, <1>8, <1>10 DEF IsHeaviestChild, L, w1

\* What maxChild must be at x in a graph that holds the blocks of L.
ChildExact(B, L, x, m) ==
    IF ChildrenIn(B, L, x) = {} THEN m = None ELSE IsHeaviestChild(B, L, x, m)

\* Every maxChild but the one at the fork is right before it is looked at.
LEMMA AwayFromFork ==
    ASSUME NEW B, NEW n, NEW g, NEW b, Ready(B, n, g, b),
           NEW x \in g.ledger \cup {b}, x # Fork(B, g, b)
    PROVE  ChildExact(B, g.ledger \cup {b}, x, Credited(B, g, b).maxChild[x])
<1> DEFINE L == g.ledger
           c == Credited(B, g, b)
<1>1. ReadyOK(B, n, g, b) /\ CreditedOK(B, g, b, c)
  BY ReadyFacts, CreditedFields
<1>2. /\ TableOK(B, n) /\ b \in 1..(n - 1) /\ b \notin L /\ L \subseteq 0..(n - 1) /\ n \in Nat
      /\ b \in 0..(n - 1) /\ \A d \in L : B[d].chain \subseteq L
  BY <1>1 DEF ReadyOK
<1>3. c.maxChild[b] = -1 /\ \A y \in L \ Branch(B, g, b) : c.maxChild[y] = g.maxChild[y]
  BY <1>1 DEF CreditedOK
<1>4. \A y \in Branch(B, g, b) : IsHeaviestChild(B, L \cup {b}, y, c.maxChild[y])
  BY <1>1 DEF CreditedOK
<1>5. /\ B[b].parent \in L /\ B[b].parent < b
      /\ Branch(B, g, b) = B[B[b].parent].chain \ PivotChain(B, g)
      /\ Fork(B, g, b) \in B[B[b].parent].chain \cap PivotChain(B, g)
      /\ B[Fork(B, g, b)].chain = B[B[b].parent].chain \cap PivotChain(B, g)
  BY ClimbEnds
<1> HIDE DEF L, c
<1>6. CASE x = b
  <2>1. ASSUME NEW d \in ChildrenIn(B, L \cup {b}, b) PROVE FALSE
    <3>1. d \in L /\ B[d].parent = b
      BY <1>2, <1>5 DEF ChildrenIn
    <3>2. d \in 1..(n - 1)
      <4>1. d \in 0..(n - 1) /\ B[0].parent = -1 /\ b # -1
        BY <1>2, <3>1 DEF TableOK, EdgesOK
      <4> QED BY <3>1, <4>1
    <3>3. b \in B[d].chain
      BY <1>2, <3>1, <3>2, ChainFacts
    <3> QED BY <1>2, <3>1, <3>3
  <2>2. ChildrenIn(B, L \cup {b}, b) = {}
    BY <2>1
  <2> QED BY <1>3, <1>6, <2>2 DEF ChildExact, L, c
<1>7. CASE x \in Branch(B, g, b)
  <2>1. IsHeaviestChild(B, L \cup {b}, x, c.maxChild[x])
    BY <1>4, <1>7
  <2>2. ChildrenIn(B, L \cup {b}, x) # {}
    BY <2>1 DEF IsHeaviestChild
  <2> QED BY <2>1, <2>2 DEF ChildExact, L, c
<1>8. CASE x \in L /\ x \notin Branch(B, g, b)
  <2>1. c.maxChild[x] = g.maxChild[x]
    BY <1>3, <1>8
  <2>2. ChildExact(B, L, x, g.maxChild[x])
    BY <1>8 DEF Ready, GraphOK, Consistent, MaxChildExact, ChildExact, L
  <2>3. CASE ChildrenIn(B, L, x) = {}
    <3>1. x # B[b].parent
      <4> SUFFICES ASSUME x = B[b].parent PROVE FALSE
        OBVIOUS
      <4>1. x \in 0..(n - 1)
        BY <1>2, <1>8
      <4>2. x \in B[x].chain
        BY <1>2, <4>1, ChainFacts
      <4>3. x \in PivotChain(B, g)
        BY <1>5, <1>8, <4>2
      <4>4. x \in B[Fork(B, g, b)].chain
        BY <1>5, <4>2, <4>3
      <4>5. Fork(B, g, b) = x
        BY <1>2, <1>5, <4>1, <4>4, ChainFacts
      <4> QED BY <4>5
    <3>2. ChildrenIn(B, L \cup {b}, x) = {}
      BY <2>3, <3>1 DEF ChildrenIn
    <3> QED BY <2>1, <2>2, <2>3, <3>2 DEF ChildExact, L, c
  <2>4. CASE ChildrenIn(B, L, x) # {}
    <3>1. IsHeaviestChild(B, L, x, g.maxChild[x])
      BY <2>2, <2>4 DEF ChildExact
    <3>2. IsHeaviestChild(B, L \cup {b}, x, g.maxChild[x])
      BY <1>8, <3>1, HeaviestStays DEF L
    <3>3. ChildrenIn(B, L \cup {b}, x) # {}
      BY <3>2 DEF IsHeaviestChild
    <3> QED BY <2>1, <3>2, <3>3 DEF ChildExact, L, c
  <2> QED BY <2>3, <2>4
<1> QED BY <1>6, <1>7, <1>8 DEF L

\* The child chosen at the fork is the heaviest one.
LEMMA AtFork ==
    ASSUME NEW B, NEW n, NEW g, NEW b, Ready(B, n, g, b)
    PROVE  IsHeaviestChild(B, g.ledger \cup {b}, Fork(B, g, b),
                           MaxChildOf(B, Lowered(B, g, b), Fork(B, g, b)))
<1> DEFINE l == Lowered(B, g, b)
           f == Fork(B, g, b)
           T == g.totalWeight + 1
           M == g.ledger \cup {b}
<1>1. ReadyOK(B, n, g, b) /\ LoweredOK(B, g, b, l)
  BY ReadyFacts, LoweredFields
<1>2. /\ TableOK(B, n) /\ ChainsOK(B, n) /\ M \subseteq 0..(n - 1) /\ b \in 0..(n - 1) /\ T \in Nat
      /\ \A d \in M : B[d].chain \subseteq M
  BY <1>1 DEF ReadyOK, TableOK, ChainClosed
<1>3. l.ledger = M /\ l.totalWeight = T
  BY <1>1 DEF LoweredOK
<1>4. ASSUME NEW y \in M
      PROVE  GetWeight(l, y) = SubtreeWeight(B, M, y) /\ GetWeight(l, y) \in Int
  <2>1. l.weight[y] = SubtreeWeight(B, M, y) - (IF y \in PivotChain(B, g) THEN T ELSE 0)
    BY <1>1 DEF LoweredOK
  <2>2. SubtreeWeight(B, M, y) \in 1..T
    BY <1>1 DEF ReadyOK
  <2> DEFINE s == SubtreeWeight(B, M, y)
  <2>3. l.weight[y] = s - (IF y \in PivotChain(B, g) THEN T ELSE 0) /\ s \in 1..T
    BY <2>1, <2>2
  <2> HIDE DEF s, T, l
  <2>4. GetWeight(l, y) = s /\ s \in Int
    <3>1. CASE y \in PivotChain(B, g)
      BY <1>2, <1>3, <2>3, <3>1 DEF GetWeight, IsPivot
    <3>2. CASE y \notin PivotChain(B, g)
      BY <1>2, <1>3, <2>3, <3>2 DEF GetWeight, IsPivot
    <3> QED BY <3>1, <3>2
  <2> QED BY <2>4 DEF s
<1>5. f \in B[b].chain \ {b} /\ f \in M
  <2>1. /\ B[b].parent \in g.ledger /\ B[b].parent < b /\ B[b].chain = B[B[b].parent].chain \cup {b}
        /\ B[B[b].parent].chain \subseteq g.ledger /\ f \in B[B[b].parent].chain
    BY ClimbEnds
  <2>2. b \notin g.ledger
    BY DEF Ready
  <2> HIDE DEF f
  <2> QED BY <2>1, <2>2
<1> HIDE DEF l, f, M
<1>6. Children(B, l, f) # {}
  <2>1. PICK d \in B[b].chain : d # 0 /\ B[d].parent = f
    BY <1>2, <1>5 DEF ChainsOK
  <2>2. d \in M
    BY <1>2 DEF M
  <2> QED BY <1>3, <2>1, <2>2 DEF Children
<1>7. \A y \in Children(B, l, f) : /\ GetWeight(l, y) = SubtreeWeight(B, l.ledger, y)
                                   /\ GetWeight(l, y) \in Int
  BY <1>3, <1>4 DEF Children
<1>8. IsHeaviestChild(B, l.ledger, f, MaxChildOf(B, l, f))
  BY <1>2, <1>3, <1>5, <1>6, <1>7, MaxChildIsHeaviest
<1> QED BY <1>3, <1>8 DEF l, f, M

-----------------------------------------------------------------------------
(***************************************************************************)
(* The pivot after the choice at the fork.                                 *)
(***************************************************************************)
Chosen(B, g, b)   == MaxChildOf(B, Lowered(B, g, b), Fork(B, g, b))
NewChain(B, g, b) == MaxChildChain(B, Lowered(B, g, b), Chosen(B, g, b))

\* What the lemmas below use of the fork f, the child nb chosen at it, the
\* maxChild pointers mc0 before the choice and the blocks nc below it.
ForkOK(B, n, g, b, M, f, nb, mc0, nc) ==
    /\ TableOK(B, n) /\ EdgesOK(B, n) /\ ChainsOK(B, n) /\ n \in Nat
    /\ ChainClosed(B, n, M) /\ M \subseteq 0..(n - 1) /\ \A d \in M : B[d].chain \subseteq M
    /\ f \in M /\ nb \in M /\ nb # 0 /\ B[nb].parent = f
    /\ nb \notin B[f].chain /\ B[nb].chain = B[f].chain \cup {nb}
    /\ \A x \in M \ {f} : ChildExact(B, M, x, mc0[x])
    /\ \A a \in B[f].chain \ {0} : mc0[B[a].parent] = a
    /\ nc = {d \in M : nb \in B[d].chain /\ \A a \in B[d].chain \ B[nb].chain : mc0[B[a].parent] = a}

\* Where the walk up met the pivot, and the branch the pivot takes from there:
\* the new branch is a path from the chosen child, disjoint from the chain of
\* the fork.
LEMMA ForkFacts ==
    ASSUME NEW B, NEW n, NEW g, NEW b, Ready(B, n, g, b)
    PROVE  ForkOK(B, n, g, b, g.ledger \cup {b}, Fork(B, g, b), Chosen(B, g, b),
                  Lowered(B, g, b).maxChild, NewChain(B, g, b))
<1> DEFINE M == g.ledger \cup {b}
           f == Fork(B, g, b)
           nb == Chosen(B, g, b)
           l == Lowered(B, g, b)
           c == Credited(B, g, b)
<1>1. ReadyOK(B, n, g, b) /\ LoweredOK(B, g, b, l)
  BY ReadyFacts, LoweredFields
<1>2. /\ TableOK(B, n) /\ EdgesOK(B, n) /\ ChainsOK(B, n) /\ n \in Nat
      /\ ChainClosed(B, n, M) /\ M \subseteq 0..(n - 1) /\ \A d \in M : B[d].chain \subseteq M
  BY <1>1 DEF ReadyOK, TableOK, ChainClosed
<1>3. l.ledger = M /\ l.maxChild = c.maxChild
  BY <1>1 DEF LoweredOK
<1>4. f \in g.ledger /\ f \in PivotChain(B, g)
  <2>1. f \in B[B[b].parent].chain \cap PivotChain(B, g) /\ B[B[b].parent].chain \subseteq g.ledger
    BY ClimbEnds
  <2> HIDE DEF f
  <2> QED BY <2>1
<1>5. nb \in M /\ B[nb].parent = f
  <2>1. IsHeaviestChild(B, M, f, nb)
    BY AtFork DEF Chosen
  <2> HIDE DEF M, f, nb
  <2> QED BY <2>1 DEF IsHeaviestChild, ChildrenIn
<1>6. \A x \in M \ {f} : ChildExact(B, M, x, l.maxChild[x])
  <2> SUFFICES ASSUME NEW x \in g.ledger \cup {b}, x # Fork(B, g, b)
               PROVE  ChildExact(B, g.ledger \cup {b}, x, Lowered(B, g, b).maxChild[x])
    OBVIOUS
  <2>1. ChildExact(B, g.ledger \cup {b}, x, Credited(B, g, b).maxChild[x])
    BY AwayFromFork
  <2> QED BY <1>3, <2>1
<1>7. \A a \in B[f].chain \ {0} : l.maxChild[B[a].parent] = a
  <2> SUFFICES ASSUME NEW a \in B[f].chain, a # 0
               PROVE  l.maxChild[B[a].parent] = a
    OBVIOUS
  <2>1. /\ PivotChain(B, g) = PivotOf(B, g.ledger, g.maxChild)
        /\ ChainClosed(B, n, g.ledger)
        /\ g.ledger \subseteq 0..(n - 1)
        /\ \A x \in PivotChain(B, g) : c.maxChild[x] = g.maxChild[x]
        /\ PivotChain(B, g) \subseteq g.ledger
    BY <1>1 DEF ReadyOK
  <2> HIDE DEF f, l, c
  <2>2. a \in PivotChain(B, g)
    BY <1>2, <1>4, <2>1, PivotFacts
  <2>3. a \in 1..(n - 1)
    BY <2>1, <2>2
  <2>4. a \in B[a].chain /\ B[a].parent \in B[a].chain
    BY <1>2, <2>3, ChainFacts
  <2>5. B[a].parent \in PivotChain(B, g)
    BY <1>2, <2>1, <2>2, <2>4, PivotFacts
  <2>6. g.maxChild[B[a].parent] = a
    BY <2>2, <2>4 DEF PivotChain
  <2> QED BY <1>3, <2>1, <2>5, <2>6
<1>8. nb # 0
  <2> HIDE DEF f, nb, M
  <2>1. B[0].parent = -1 /\ f # -1
    BY <1>1, <1>2, <1>4 DEF ReadyOK, EdgesOK
  <2> QED BY <1>5, <2>1
<1> HIDE DEF M, f, nb, l
<1>9. nb \in 1..(n - 1)
  BY <1>2, <1>5, <1>8
<1>10. nb \notin B[f].chain /\ B[nb].chain = B[f].chain \cup {nb}
  BY <1>2, <1>5, <1>9, ChainFacts
<1>11. NewChain(B, g, b) =
         {d \in M : nb \in B[d].chain /\ \A a \in B[d].chain \ B[nb].chain : l.maxChild[B[a].parent] = a}
  <2>1. nb # -1
    BY <1>9
  <2>2. NewChain(B, g, b) = MaxChildChain(B, l, nb)
    BY DEF NewChain, l, nb
  <2> QED BY <1>3, <2>1, <2>2 DEF MaxChildChain
<1>12. f \in M
  BY <1>4 DEF M
<1> QED
  BY <1>2, <1>5, <1>6, <1>7, <1>8, <1>10, <1>11, <1>12 DEF ForkOK, M, f, nb, l

\* The pivot after the choice: the chain of the fork, then the new branch.
LEMMA NewPivotIs ==
    ASSUME NEW B, NEW n, NEW g, NEW b, NEW M, NEW f, NEW nb, NEW mc0, NEW nc,
           ForkOK(B, n, g, b, M, f, nb, mc0, nc),
           NEW mc, mc[f] = nb, \A x \in M \ {f} : mc[x] = mc0[x]
    PROVE  PivotOf(B, M, mc) = B[f].chain \cup nc
<1>1. /\ TableOK(B, n) /\ EdgesOK(B, n) /\ ChainsOK(B, n) /\ n \in Nat
      /\ ChainClosed(B, n, M) /\ M \subseteq 0..(n - 1) /\ (\A d \in M : B[d].chain \subseteq M)
      /\ f \in M /\ nb \in M /\ nb # 0 /\ B[nb].parent = f
      /\ nb \notin B[f].chain /\ B[nb].chain = B[f].chain \cup {nb}
  BY DEF ForkOK
<1>2. /\ \A a \in B[f].chain \ {0} : mc0[B[a].parent] = a
      /\ nc = {d \in M : nb \in B[d].chain /\ \A a \in B[d].chain \ B[nb].chain : mc0[B[a].parent] = a}
  BY DEF ForkOK
<1>3. ASSUME NEW d \in M, NEW a \in B[d].chain, a # 0
      PROVE  a \in 1..(n - 1) /\ B[a].parent \in M /\ a \in B[a].chain /\ B[a].parent < a
  <2>1. d \in 0..(n - 1) /\ a \in 0..(n - 1)
    BY <1>1, ChainFacts
  <2>2. a \in 1..(n - 1)
    BY <1>3, <2>1
  <2>3. B[a].parent \in B[a].chain /\ B[a].chain \subseteq B[d].chain /\ a \in B[a].chain
        /\ B[a].parent < a
    BY <1>1, <2>1, <2>2, ChainFacts
  <2> QED BY <1>1, <2>2, <2>3
<1>4. ASSUME NEW a \in B[f].chain, a # 0 PROVE mc[B[a].parent] = a
  <2>1. B[a].parent \in M /\ B[a].parent < a /\ a \in 1..(n - 1)
    BY <1>1, <1>3, <1>4
  <2>2. a <= f /\ f \in 0..(n - 1)
    BY <1>1, ChainFacts
  <2>3. B[a].parent # f
    <3>1. B[a].parent \in 0..(n - 1)
      BY <1>1, <2>1
    <3> QED BY <2>1, <2>2, <3>1
  <2> QED BY <1>2, <1>4, <2>1, <2>3
<1>5. f \in PivotOf(B, M, mc)
  BY <1>1, <1>4 DEF PivotOf
<1>6. ASSUME NEW d \in PivotOf(B, M, mc) PROVE d \in B[f].chain \cup nc
  <2>1. d \in M /\ \A a \in B[d].chain \ {0} : mc[B[a].parent] = a
    BY DEF PivotOf
  <2>2. d \in 0..(n - 1) /\ d \in B[d].chain
    BY <1>1, <2>1, ChainFacts
  <2>3. d \in B[f].chain \/ (f \in B[d].chain /\ f # d)
    BY <1>1, <1>5, <1>6, <2>2, PivotFacts
  <2>4. CASE f \in B[d].chain /\ f # d
    <3>1. PICK a \in B[d].chain : a # 0 /\ B[a].parent = f
      BY <1>1, <2>2, <2>4 DEF ChainsOK
    <3>2. a = nb
      BY <2>1, <3>1
    <3>3. ASSUME NEW x \in B[d].chain \ B[nb].chain PROVE mc0[B[x].parent] = x
      <4>1. 0 \in B[nb].chain /\ nb \in B[nb].chain
        BY <1>1, ChainFacts
      <4>2. x # 0 /\ x # nb
        BY <4>1
      <4>3. mc[B[x].parent] = x
        BY <2>1, <4>2
      <4>4. B[x].parent # f /\ B[x].parent \in M
        BY <1>3, <2>1, <4>2, <4>3
      <4> QED BY <4>3, <4>4
    <3> QED BY <1>2, <2>1, <3>1, <3>2, <3>3
  <2> QED BY <2>3, <2>4
<1>7. ASSUME NEW d \in B[f].chain PROVE d \in PivotOf(B, M, mc)
  BY <1>1, <1>5, PivotFacts
<1>8. ASSUME NEW d \in nc PROVE d \in PivotOf(B, M, mc)
  <2>1. d \in M /\ nb \in B[d].chain /\ \A a \in B[d].chain \ B[nb].chain : mc0[B[a].parent] = a
    BY <1>2
  <2> SUFFICES ASSUME NEW x \in B[d].chain, x # 0 PROVE mc[B[x].parent] = x
    BY <2>1 DEF PivotOf
  <2>2. CASE x = nb
    BY <1>1, <2>2
  <2>3. CASE x \in B[f].chain
    BY <1>4, <2>3
  <2>4. CASE x \notin B[nb].chain
    <3>1. mc0[B[x].parent] = x
      BY <2>1, <2>4
    <3>2. x # nb
      BY <1>1, <2>4
    <3>3. d \in 0..(n - 1)
      BY <1>1, <2>1
    <3>4. B[x].parent # f
      BY <1>1, <2>1, <3>2, <3>3, ChainFacts
    <3>5. B[x].parent \in M
      BY <1>3, <2>1
    <3> QED BY <3>1, <3>4, <3>5
  <2> QED BY <1>1, <2>2, <2>3, <2>4
<1> QED BY <1>6, <1>7, <1>8

\* The walk down the new branch ends.
LEMMA NewTipExists ==
    ASSUME NEW B, NEW n, NEW g, NEW b, NEW M, NEW f, NEW nb, NEW mc0, NEW nc,
           ForkOK(B, n, g, b, M, f, nb, mc0, nc)
    PROVE  nc \subseteq M /\ nb \in nc /\ f \notin nc /\ \E t \in nc : mc0[t] = None
<1>1. /\ TableOK(B, n) /\ EdgesOK(B, n) /\ ChainsOK(B, n) /\ n \in Nat /\ n - 1 \in Nat
      /\ ChainClosed(B, n, M) /\ M \subseteq 0..(n - 1) /\ (\A d \in M : B[d].chain \subseteq M)
      /\ f \in M /\ nb \in M /\ nb # 0 /\ B[nb].parent = f
      /\ nb \notin B[f].chain /\ B[nb].chain = B[f].chain \cup {nb}
  BY TableFacts DEF ForkOK
<1>2. /\ \A x \in M \ {f} : ChildExact(B, M, x, mc0[x])
      /\ nc = {d \in M : nb \in B[d].chain /\ \A a \in B[d].chain \ B[nb].chain : mc0[B[a].parent] = a}
  BY DEF ForkOK
<1>3. nb \in nc /\ nc \subseteq 0..(n - 1) /\ f \notin nc /\ nc \subseteq M
  <2>1. nb \in B[nb].chain
    BY <1>1
  <2> QED BY <1>1, <1>2, <2>1
<1>4. PICK k \in nc : \A x \in nc : x <= k
  BY <1>1, <1>3, MaxExists
<1>5. mc0[k] = -1
  <2> SUFFICES ASSUME mc0[k] # -1 PROVE FALSE
    OBVIOUS
  <2>1. k \in M /\ k # f /\ k \in 0..(n - 1)
    BY <1>1, <1>2, <1>3
  <2>2. ChildExact(B, M, k, mc0[k])
    BY <1>2, <2>1
  <2>3. mc0[k] \in ChildrenIn(B, M, k)
    BY <2>2 DEF ChildExact, IsHeaviestChild
  <2> DEFINE m == mc0[k]
  <2>4. m \in M /\ B[m].parent = k
    BY <2>3 DEF ChildrenIn
  <2> HIDE DEF m
  <2>5. m \in 1..(n - 1)
    <3>1. B[0].parent = -1 /\ k # -1 /\ m \in 0..(n - 1)
      BY <1>1, <2>1, <2>4 DEF EdgesOK
    <3> QED BY <2>4, <3>1
  <2>6. B[m].chain = B[k].chain \cup {m} /\ k < m
    BY <1>1, <2>4, <2>5, ChainFacts
  <2>7. m \in nc
    <3>1. nb \in B[m].chain
      BY <1>2, <2>6
    <3>2. \A a \in B[m].chain \ B[nb].chain : mc0[B[a].parent] = a
      BY <1>2, <2>4, <2>6 DEF m
    <3> QED BY <1>2, <2>4, <3>1, <3>2
  <2>8. m <= k
    BY <1>4, <2>7
  <2> QED BY <2>1, <2>5, <2>6, <2>8
<1> QED BY <1>3, <1>5

-----------------------------------------------------------------------------
(***************************************************************************)
(* The graph insert leaves.                                                *)
(***************************************************************************)
Switched(B, g, b) == SwitchBranch(B, Credited(B, g, b), Fork(B, g, b))

\* The fields of the graph after the choice at the fork.
SwitchedOK(B, g, b, r) ==
    /\ r \in Graph
    /\ r.ledger = g.ledger \cup {b}
    /\ r.totalWeight = g.totalWeight + 1
    /\ r.tips = (g.tips \ Parents(B, b)) \cup {b}
    /\ r.maxChild[Fork(B, g, b)] = Chosen(B, g, b)
    /\ \A x \in (g.ledger \cup {b}) \ {Fork(B, g, b)} : r.maxChild[x] = Lowered(B, g, b).maxChild[x]
    /\ r.pivotTip \in B[Fork(B, g, b)].chain \cup NewChain(B, g, b)
    /\ r.pivotTip # Fork(B, g, b) /\ Lowered(B, g, b).maxChild[r.pivotTip] = None
    /\ \A x \in g.ledger \cup {b} :
          r.weight[x] = SubtreeWeight(B, g.ledger \cup {b}, x)
             - (IF x \in B[Fork(B, g, b)].chain \cup NewChain(B, g, b) THEN g.totalWeight + 1 ELSE 0)

\* If the choice is the child the pivot already goes through, the last two
\* loops are not run and nothing is left to do.
LEMMA SamePivot ==
    ASSUME NEW B, NEW n, NEW g, NEW b, Ready(B, n, g, b),
           Chosen(B, g, b) = Credited(B, g, b).maxChild[Fork(B, g, b)]
    PROVE  SwitchedOK(B, g, b, Lowered(B, g, b))
<1> DEFINE M == g.ledger \cup {b}
           P == PivotChain(B, g)
           f == Fork(B, g, b)
           nb == Chosen(B, g, b)
           nc == NewChain(B, g, b)
           l == Lowered(B, g, b)
           c == Credited(B, g, b)
<1>1. /\ ReadyOK(B, n, g, b) /\ LoweredOK(B, g, b, l) /\ CreditedOK(B, g, b, c)
      /\ ForkOK(B, n, g, b, M, f, nb, l.maxChild, nc)
  BY ReadyFacts, LoweredFields, CreditedFields, ForkFacts
<1>2. /\ l \in Graph /\ l.ledger = M /\ l.totalWeight = g.totalWeight + 1
      /\ l.tips = (g.tips \ Parents(B, b)) \cup {b} /\ l.pivotTip = g.pivotTip
      /\ l.maxChild = c.maxChild
  BY <1>1 DEF LoweredOK
<1>3. c.ledger = M
  BY <1>1 DEF CreditedOK
<1>4. nc = P \ B[f].chain
  <2>1. MaxChildChain(B, c, c.maxChild[f]) = P \ B[f].chain
    BY OldChainIs
  <2>2. nc = MaxChildChain(B, l, nb)
    BY DEF NewChain
  <2>3. MaxChildChain(B, l, nb) = MaxChildChain(B, c, nb)
    <3> HIDE DEF l, c, nb, M
    <3> QED BY <1>2, <1>3 DEF MaxChildChain
  <2>4. nb = c.maxChild[f]
    OBVIOUS
  <2> QED BY <2>1, <2>2, <2>3, <2>4
<1>5. B[f].chain \subseteq P /\ f \in P
  <2>1. B[f].chain = B[B[b].parent].chain \cap P /\ f \in B[B[b].parent].chain \cap P
    BY ClimbEnds
  <2> HIDE DEF f, P
  <2> QED BY <2>1
<1>6. P = B[f].chain \cup nc
  BY <1>4, <1>5
<1>7. \A x \in M : l.weight[x] = SubtreeWeight(B, M, x) - (IF x \in P THEN g.totalWeight + 1 ELSE 0)
  BY <1>1 DEF LoweredOK
<1>8. g.pivotTip \in P /\ g.maxChild[g.pivotTip] = -1
  <2>1. PivotTipExact(B, g)
    BY DEF Ready, GraphOK, Consistent
  <2>2. g.ledger # {}
    BY ClimbEnds
  <2> QED BY <2>1, <2>2 DEF PivotTipExact
<1>9. l.maxChild[f] = nb /\ nb # -1
  <2>1. nb \in M /\ M \subseteq 0..(n - 1)
    BY <1>1 DEF ForkOK
  <2>2. -1 \notin 0..(n - 1)
    OBVIOUS
  <2> HIDE DEF M
  <2> QED BY <1>2, <2>1, <2>2
<1>10. \A x \in P : c.maxChild[x] = g.maxChild[x]
  BY <1>1 DEF ReadyOK
<1> HIDE DEF M, P, f, nb, nc, l, c
<1>11. l.maxChild[l.pivotTip] = -1 /\ l.pivotTip \in B[f].chain \cup nc /\ l.pivotTip # f
  BY <1>2, <1>6, <1>8, <1>9, <1>10
<1>12. \A x \in M : l.weight[x] = SubtreeWeight(B, M, x)
                       - (IF x \in B[f].chain \cup nc THEN g.totalWeight + 1 ELSE 0)
  BY <1>6, <1>7
<1> QED BY <1>2, <1>9, <1>11, <1>12 DEF SwitchedOK, M, f, nb, nc, l

\* Otherwise the old branch gets its full weights back, the new branch is
\* stored as pivot blocks are, and the tip moves.
LEMMA OtherPivot ==
    ASSUME NEW B, NEW n, NEW g, NEW b, Ready(B, n, g, b)
    PROVE  SwitchedOK(B, g, b, MovePivot(B, Lowered(B, g, b), Fork(B, g, b),
                                         Credited(B, g, b).maxChild[Fork(B, g, b)], Chosen(B, g, b)))
<1> DEFINE M == g.ledger \cup {b}
           P == PivotChain(B, g)
           f == Fork(B, g, b)
           nb == Chosen(B, g, b)
           nc == NewChain(B, g, b)
           l == Lowered(B, g, b)
           c == Credited(B, g, b)
           T == l.totalWeight
           oc == MaxChildChain(B, l, c.maxChild[f])
           u == AddWeight(l, oc, T)
           v == AddWeight(u, nc, -T)
           t == CHOOSE y \in nc : l.maxChild[y] = None
           mc == [v.maxChild EXCEPT ![f] = nb]
           r == MovePivot(B, l, f, c.maxChild[f], nb)
<1>1. /\ ReadyOK(B, n, g, b) /\ LoweredOK(B, g, b, l) /\ CreditedOK(B, g, b, c)
      /\ ForkOK(B, n, g, b, M, f, nb, l.maxChild, nc)
  BY ReadyFacts, LoweredFields, CreditedFields, ForkFacts
<1>2. /\ l \in Graph /\ l.ledger = M /\ T = g.totalWeight + 1
      /\ l.tips = (g.tips \ Parents(B, b)) \cup {b} /\ l.maxChild = c.maxChild
  BY <1>1 DEF LoweredOK
<1>3. c.ledger = M
  BY <1>1 DEF CreditedOK
<1>4. oc = P \ B[f].chain
  <2>1. MaxChildChain(B, c, c.maxChild[f]) = P \ B[f].chain
    BY OldChainIs
  <2>2. oc = MaxChildChain(B, c, c.maxChild[f])
    <3> HIDE DEF l, c, f, M
    <3> QED BY <1>2, <1>3 DEF MaxChildChain
  <2> QED BY <2>1, <2>2
<1>5. B[f].chain \subseteq P
  <2>1. B[f].chain = B[B[b].parent].chain \cap P
    BY ClimbEnds
  <2> HIDE DEF f, P
  <2> QED BY <2>1
<1>6. M \subseteq BlockIds /\ f \in M /\ nb \in M /\ T \in Nat
  <2>1. f \in M /\ nb \in M
    BY <1>1 DEF ForkOK
  <2>2. M \subseteq BlockIds /\ T \in Nat
    BY <1>2 DEF Graph
  <2> QED BY <2>1, <2>2
<1>7. nc \subseteq M /\ f \notin nc /\ t \in nc /\ l.maxChild[t] = -1
  <2>1. nc \subseteq M /\ f \notin nc /\ \E y \in nc : l.maxChild[y] = None
    <3> HIDE DEF nc, M, f, nb, l
    <3> QED BY <1>1, NewTipExists
  <2> HIDE DEF nc, l, M, f
  <2> QED BY <2>1
<1>8. \A x \in nc : x \notin B[f].chain
  <2>1. /\ nc = {d \in M : nb \in B[d].chain /\ \A a \in B[d].chain \ B[nb].chain : l.maxChild[B[a].parent] = a}
        /\ nb \notin B[f].chain /\ TableOK(B, n) /\ f \in 0..(n - 1)
    BY <1>1 DEF ForkOK
  <2> HIDE DEF nc, l, M, f, nb
  <2> QED BY <2>1, ChainFacts
<1>9. \A x \in M : l.weight[x] = SubtreeWeight(B, M, x) - (IF x \in P THEN g.totalWeight + 1 ELSE 0)
  BY <1>1 DEF LoweredOK
<1>10. \A x \in M : SubtreeWeight(B, M, x) \in Int
  <2> SUFFICES ASSUME NEW x \in M PROVE SubtreeWeight(B, M, x) \in Int
    OBVIOUS
  <2>1. SubtreeWeight(B, M, x) \in 1..(g.totalWeight + 1) /\ g.totalWeight \in Nat
    BY <1>1 DEF ReadyOK
  <2> QED BY <2>1
<1>11. r = [v EXCEPT !.maxChild = mc, !.pivotTip = t]
  <2>1. nc = MaxChildChain(B, l, nb)
    BY DEF NewChain
  <2> HIDE DEF l, c, f, nb, nc
  <2>2. r = [v EXCEPT !.maxChild[f] = nb, !.pivotTip = t]
    BY <2>1 DEF MovePivot
  <2> HIDE DEF v, t, r
  <2> QED BY <2>2
<1> HIDE DEF M, P, f, nb, nc, l, c, t, oc, r
<1>12. /\ u \in Graph /\ u.ledger = l.ledger /\ u.totalWeight = l.totalWeight
       /\ u.maxChild = l.maxChild /\ u.tips = l.tips
       /\ \A x \in BlockIds : u.weight[x] = IF x \in oc THEN l.weight[x] + T ELSE l.weight[x]
  <2>1. T \in Int
    BY <1>6
  <2> HIDE DEF T
  <2> QED BY <1>2, <2>1, AddWeightFields
<1> HIDE DEF u
<1>13. /\ v \in Graph /\ v.ledger = l.ledger /\ v.totalWeight = l.totalWeight
       /\ v.maxChild = l.maxChild /\ v.tips = l.tips
       /\ \A x \in BlockIds : v.weight[x] = IF x \in nc THEN u.weight[x] + (-T) ELSE u.weight[x]
  <2>1. -T \in Int
    BY <1>6
  <2> HIDE DEF T
  <2> QED BY <1>12, <2>1, AddWeightFields
<1> HIDE DEF v
<1>14. mc \in [BlockIds -> BlockIds \cup {-1}] /\ mc[f] = nb /\ \A x \in M \ {f} : mc[x] = l.maxChild[x]
  BY <1>6, <1>13 DEF Graph
<1>15. t \in BlockIds /\ t # f
  BY <1>6, <1>7
<1> HIDE DEF mc
<1>16. /\ r \in Graph /\ r.ledger = l.ledger /\ r.totalWeight = l.totalWeight
       /\ r.tips = l.tips /\ r.weight = v.weight /\ r.maxChild = mc /\ r.pivotTip = t
  BY <1>11, <1>13, <1>14, <1>15 DEF Graph
<1>17. ASSUME NEW x \in M
       PROVE  r.weight[x] = SubtreeWeight(B, M, x)
                 - (IF x \in B[f].chain \cup nc THEN g.totalWeight + 1 ELSE 0)
  <2> DEFINE s == SubtreeWeight(B, M, x)
  <2>1. l.weight[x] = s - (IF x \in P THEN T ELSE 0) /\ s \in Int /\ x \in BlockIds /\ T \in Nat
    BY <1>2, <1>6, <1>9, <1>10
  <2>2. u.weight[x] = IF x \in oc THEN l.weight[x] + T ELSE l.weight[x]
    BY <1>12, <2>1
  <2>3. r.weight[x] = IF x \in nc THEN u.weight[x] + (-T) ELSE u.weight[x]
    BY <1>13, <1>16, <2>1
  <2> HIDE DEF s, T
  <2>4. r.weight[x] = s - (IF x \in B[f].chain \cup nc THEN T ELSE 0)
    <3>1. CASE x \in B[f].chain
      BY <3>1, <1>4, <1>5, <1>8, <2>1, <2>2, <2>3
    <3>2. CASE x \notin B[f].chain /\ x \in P
      BY <3>2, <1>4, <2>1, <2>2, <2>3
    <3>3. CASE x \notin B[f].chain /\ x \notin P
      BY <3>3, <1>4, <2>1, <2>2, <2>3
    <3> QED BY <3>1, <3>2, <3>3
  <2> QED BY <2>4, <1>2 DEF s
<1>18. SwitchedOK(B, g, b, r)
  BY <1>2, <1>7, <1>14, <1>15, <1>16, <1>17 DEF SwitchedOK, M, f, nb, nc, l
<1> QED BY <1>18 DEF r, l, f, c, nb

\* What insert leaves, whether the pivot stays or moves to another branch.
LEMMA SwitchedFields ==
    ASSUME NEW B, NEW n, NEW g, NEW b, Ready(B, n, g, b)
    PROVE  SwitchedOK(B, g, b, Switched(B, g, b))
<1> DEFINE c == Credited(B, g, b)
           f == Fork(B, g, b)
           l == Lowered(B, g, b)
<1>1. l = LowerOldBranch(B, c, c.maxChild[f])
  BY DEF Lowered
<1>2. Switched(B, g, b) = IF Chosen(B, g, b) = c.maxChild[f] THEN l
                          ELSE MovePivot(B, l, f, c.maxChild[f], Chosen(B, g, b))
  <2>1. Chosen(B, g, b) = MaxChildOf(B, l, f)
    BY DEF Chosen
  <2> HIDE DEF c, f, l
  <2> QED BY <1>1, <2>1 DEF Switched, SwitchBranch, c, f
<1>3. CASE Chosen(B, g, b) = c.maxChild[f]
  <2>1. SwitchedOK(B, g, b, l)
    BY <1>3, SamePivot
  <2> QED BY <1>2, <1>3, <2>1
<1>4. CASE Chosen(B, g, b) # c.maxChild[f]
  <2>1. SwitchedOK(B, g, b, MovePivot(B, l, f, c.maxChild[f], Chosen(B, g, b)))
    BY OtherPivot
  <2> QED BY <1>2, <1>4, <2>1
<1> QED BY <1>3, <1>4

\* The steps of insert leave alone the entries of the blocks that are not in
\* the graph they end with.
LEMMA SwitchedRest ==
    ASSUME NEW B, NEW n, NEW g, NEW b, Ready(B, n, g, b)
    PROVE  \A x \in BlockIds \ (g.ledger \cup {b}) :
              /\ Switched(B, g, b).weight[x] = g.weight[x]
              /\ Switched(B, g, b).maxChild[x] = g.maxChild[x]
<1> DEFINE M == g.ledger \cup {b}
           e == AddEntry(B, g, b)
           R == Branch(B, g, b)
           h == AddWeight(e, R, 1)
           c == Credited(B, g, b)
           f == Fork(B, g, b)
           o == c.maxChild[f]
           l == Lowered(B, g, b)
           nb == Chosen(B, g, b)
           r == Switched(B, g, b)
<1>1. R \subseteq M /\ f \in M
  BY ClimbEnds
<1>2. /\ e \in Graph /\ e.ledger = M
      /\ \A x \in BlockIds : /\ e.weight[x] = IF x = b THEN 1 ELSE g.weight[x]
                            /\ e.maxChild[x] = IF x = b THEN -1 ELSE g.maxChild[x]
  BY EnteredFields
<1>3. c = [h EXCEPT !.maxChild = [x \in BlockIds |-> IF x \in R THEN MaxChildOf(B, h, x) ELSE h.maxChild[x]]]
  BY DEF Credited, CreditBranch
<1>4. c \in Graph /\ c.ledger = M
  <2>1. CreditedOK(B, g, b, c)
    BY CreditedFields
  <2> QED BY <2>1 DEF CreditedOK
<1>5. /\ l = AddWeight(c, MaxChildChain(B, c, o), -1)
      /\ nb = MaxChildOf(B, l, f)
      /\ r = IF nb = o THEN l ELSE MovePivot(B, l, f, o, nb)
  BY DEF Lowered, LowerOldBranch, Chosen, Switched, SwitchBranch
<1>6. \A d \in {c, l} : \A x : d.ledger = M => MaxChildChain(B, d, x) \subseteq M
  BY DEF MaxChildChain
<1>7. f \in BlockIds /\ M \subseteq BlockIds
  BY <1>1, <1>2 DEF Graph
<1> HIDE DEF e, R, c, f, l, nb, r, M, o
<1>8. /\ h \in Graph /\ h.ledger = M /\ h.maxChild = e.maxChild
      /\ \A x \in BlockIds : h.weight[x] = IF x \in R THEN e.weight[x] + 1 ELSE e.weight[x]
  BY <1>2, AddWeightFields
<1> HIDE DEF h
<1>9. c.weight = h.weight /\ \A x \in BlockIds \ R : c.maxChild[x] = h.maxChild[x]
  BY <1>3, <1>8 DEF Graph
<1>10. /\ l \in Graph /\ l.ledger = M /\ l.maxChild = c.maxChild
       /\ \A x \in BlockIds : l.weight[x] = IF x \in MaxChildChain(B, c, o) THEN c.weight[x] + (-1) ELSE c.weight[x]
  <2>1. -1 \in Int
    OBVIOUS
  <2> QED BY <1>4, <1>5, <2>1, AddWeightFields
<1>11. \A x \in BlockIds \ M : l.weight[x] = g.weight[x] /\ l.maxChild[x] = g.maxChild[x]
  <2> SUFFICES ASSUME NEW x \in BlockIds \ M PROVE l.weight[x] = g.weight[x] /\ l.maxChild[x] = g.maxChild[x]
    OBVIOUS
  <2>1. x # b /\ x \notin R /\ x \notin MaxChildChain(B, c, o)
    BY <1>1, <1>4, <1>6 DEF M
  <2> QED BY <1>2, <1>8, <1>9, <1>10, <2>1
<1>12. CASE nb = o
  BY <1>5, <1>11, <1>12 DEF M, r
<1>13. CASE nb # o
  <2> DEFINE T == l.totalWeight
             oc == MaxChildChain(B, l, o)
             nc == MaxChildChain(B, l, nb)
             u == AddWeight(l, oc, T)
             v == AddWeight(u, nc, -T)
             t == CHOOSE y \in nc : l.maxChild[y] = None
             mc == [v.maxChild EXCEPT ![f] = nb]
  <2>1. r = [v EXCEPT !.maxChild = mc, !.pivotTip = t]
    <3>1. r = [v EXCEPT !.maxChild[f] = nb, !.pivotTip = t]
      BY <1>5, <1>13 DEF MovePivot
    <3> HIDE DEF v, t
    <3> QED BY <3>1
  <2>2. oc \subseteq M /\ nc \subseteq M
    BY <1>6, <1>10
  <2>3. T \in Int /\ -T \in Int
    BY <1>10 DEF Graph
  <2> HIDE DEF oc, nc, t, T
  <2>4. /\ u \in Graph /\ u.maxChild = l.maxChild
        /\ \A x \in BlockIds : u.weight[x] = IF x \in oc THEN l.weight[x] + T ELSE l.weight[x]
    BY <1>10, <2>3, AddWeightFields
  <2> HIDE DEF u
  <2>5. /\ v \in Graph /\ v.maxChild = l.maxChild
        /\ \A x \in BlockIds : v.weight[x] = IF x \in nc THEN u.weight[x] + (-T) ELSE u.weight[x]
    BY <2>3, <2>4, AddWeightFields
  <2> HIDE DEF v
  <2>6. r.weight = v.weight /\ r.maxChild = mc
    BY <2>1, <2>5 DEF Graph
  <2>7. \A x \in BlockIds \ M : mc[x] = l.maxChild[x]
    BY <1>1, <2>5 DEF Graph
  <2>8. \A x \in BlockIds \ M : r.weight[x] = l.weight[x] /\ r.maxChild[x] = l.maxChild[x]
    BY <2>2, <2>4, <2>5, <2>6, <2>7
  <2> QED BY <1>11, <2>8 DEF M, r
<1> QED BY <1>12, <1>13

\* Adding b to a graph with its ancestors turns the referred tips into the
\* one tip b.
LEMMA TipsGrow ==
    ASSUME NEW B, NEW n, NEW g, NEW b, Ready(B, n, g, b)
    PROVE  TipsOf(B, g.ledger \cup {b}) = (g.tips \ Parents(B, b)) \cup {b}
<1> DEFINE L == g.ledger
<1>1. /\ TableOK(B, n) /\ b \in 0..(n - 1) /\ b \notin L /\ \A y \in L : Parents(B, y) \subseteq L
      /\ g.tips = {y \in L : \A c \in L : y \notin Parents(B, c)}
  BY TableFacts DEF Ready, GraphOK, Consistent, AncestorClosed, TipsExact, TipsOf
<1>2. b \notin Parents(B, b)
  BY <1>1, TableFacts
<1> HIDE DEF L
<1>3. TipsOf(B, L \cup {b}) = (g.tips \ Parents(B, b)) \cup {b}
  BY <1>1, <1>2 DEF TipsOf
<1> QED BY <1>3 DEF L

\* The graph insert leaves is consistent.
LEMMA SwitchedKeepsGraph ==
    ASSUME NEW B, NEW n, NEW g, NEW b, Ready(B, n, g, b)
    PROVE  GraphOK(B, n, Switched(B, g, b))
<1> DEFINE M == g.ledger \cup {b}
           f == Fork(B, g, b)
           nb == Chosen(B, g, b)
           nc == NewChain(B, g, b)
           l == Lowered(B, g, b)
           r == Switched(B, g, b)
<1>1. /\ ReadyOK(B, n, g, b) /\ SwitchedOK(B, g, b, r)
      /\ ForkOK(B, n, g, b, M, f, nb, l.maxChild, nc)
  BY ReadyFacts, SwitchedFields, ForkFacts
<1>2. /\ r \in Graph /\ r.ledger = M /\ r.totalWeight = g.totalWeight + 1
      /\ r.tips = (g.tips \ Parents(B, b)) \cup {b}
      /\ r.maxChild[f] = nb /\ \A x \in M \ {f} : r.maxChild[x] = l.maxChild[x]
  BY <1>1 DEF SwitchedOK
<1>3. r.pivotTip \in B[f].chain \cup nc /\ r.pivotTip # f /\ l.maxChild[r.pivotTip] = -1
  BY <1>1 DEF SwitchedOK
<1>4. \A x \in M : r.weight[x] = SubtreeWeight(B, M, x)
                       - (IF x \in B[f].chain \cup nc THEN g.totalWeight + 1 ELSE 0)
  BY <1>1 DEF SwitchedOK
<1>5. /\ M \subseteq 0..(n - 1) /\ \A d \in M : B[d].chain \subseteq M
      /\ \A x \in M \ {f} : ChildExact(B, M, x, l.maxChild[x])
  BY <1>1 DEF ForkOK
<1>6. PivotOf(B, M, r.maxChild) = B[f].chain \cup nc
  <2> HIDE DEF M, f, nb, nc, l, r
  <2> QED BY <1>1, <1>2, NewPivotIs
<1>7. PivotChain(B, r) = B[f].chain \cup nc
  <2> HIDE DEF M, f, nb, nc, r
  <2> QED BY <1>2, <1>6 DEF PivotChain, PivotOf
<1>8. Cardinality(M) = r.totalWeight
  <2>1. Grows(B, n, g.ledger, b)
    <3>1. /\ TableOK(B, n) /\ ChainClosed(B, n, g.ledger) /\ b \in 1..(n - 1) /\ b \notin g.ledger
      BY <1>1 DEF ReadyOK
    <3>2. B[b].parent \in g.ledger
      BY ClimbEnds
    <3> DEFINE L == g.ledger
    <3>3. ChainClosed(B, n, L) /\ b \notin L /\ B[b].parent \in L
      BY <3>1, <3>2
    <3> HIDE DEF L
    <3>4. Grows(B, n, L, b)
      BY <3>1, <3>3, SubtreeGrows
    <3> QED BY <3>4 DEF L
  <2>2. Cardinality(M) = Cardinality(g.ledger) + 1
    BY <2>1 DEF Grows
  <2>3. g.totalWeight = Cardinality(g.ledger)
    BY DEF Ready, GraphOK, Consistent, WeightsExact
  <2> QED BY <1>2, <2>2, <2>3
<1>9. IsHeaviestChild(B, M, f, nb)
  BY AtFork DEF Chosen
<1>10. AncestorClosed(B, M)
  <2>1. (\A y \in g.ledger : Parents(B, y) \subseteq g.ledger) /\ Parents(B, b) \subseteq g.ledger
    BY DEF Ready, GraphOK, Consistent, AncestorClosed
  <2> QED BY <2>1 DEF AncestorClosed
<1>11. TipsOf(B, M) = r.tips
  BY <1>2, TipsGrow
<1> HIDE DEF M, f, nb, nc, l, r
<1>12. WeightsExact(B, r)
  BY <1>2, <1>4, <1>7, <1>8 DEF WeightsExact
<1>13. MaxChildExact(B, r)
  <2> SUFFICES ASSUME NEW x \in M PROVE ChildExact(B, M, x, r.maxChild[x])
    BY <1>2 DEF MaxChildExact, ChildExact
  <2>1. CASE x = f
    BY <1>2, <1>9, <2>1 DEF ChildExact, IsHeaviestChild
  <2>2. CASE x # f
    BY <1>2, <1>5, <2>2
  <2> QED BY <2>1, <2>2
<1>14. PivotTipExact(B, r)
  <2>1. r.pivotTip \in M
    <3>1. PivotChain(B, r) \subseteq M
      BY <1>2 DEF PivotChain
    <3> QED BY <1>3, <1>7, <3>1
  <2>2. r.maxChild[r.pivotTip] = -1
    BY <1>2, <1>3, <2>1
  <2> QED BY <1>3, <1>7, <2>2 DEF PivotTipExact
<1>15. AncestorClosed(B, r.ledger) /\ TipsExact(B, r)
  BY <1>2, <1>10, <1>11 DEF TipsExact
<1>16. RestBlank(r)
  <2>1. \A x \in BlockIds \ M : r.weight[x] = g.weight[x] /\ r.maxChild[x] = g.maxChild[x]
    BY SwitchedRest DEF M, r
  <2>2. \A x \in BlockIds \ g.ledger : g.weight[x] = 0 /\ g.maxChild[x] = -1
    BY DEF Ready, GraphOK, RestBlank
  <2>3. g.ledger \subseteq M /\ M # {}
    BY DEF M
  <2> QED BY <1>2, <2>1, <2>2, <2>3 DEF RestBlank
<1> QED BY <1>2, <1>5, <1>12, <1>13, <1>14, <1>15, <1>16 DEF GraphOK, Consistent, r

\* The insertion of genesis into an empty graph.
LEMMA GenesisKeepsGraph ==
    ASSUME NEW B, NEW n, TableOK(B, n), NEW g, GraphOK(B, n, g), 0 \notin g.ledger
    PROVE  GraphOK(B, n, [AddEntry(B, g, 0) EXCEPT !.pivotTip = 0])
<1> DEFINE wt == [g.weight EXCEPT ![0] = g.totalWeight]
           mc == [g.maxChild EXCEPT ![0] = None]
           e  == [AddEntry(B, g, 0) EXCEPT !.pivotTip = 0]
<1>1. /\ g \in Graph /\ g.ledger \subseteq 0..(n - 1) /\ \A b \in g.ledger : B[b].chain \subseteq g.ledger
      /\ g.totalWeight = Cardinality(g.ledger) /\ g.tips = TipsOf(B, g.ledger)
  BY DEF GraphOK, Consistent, WeightsExact, TipsExact
<1>2. /\ n \in Nat /\ 0 \in 0..(n - 1) /\ 0 \in BlockIds /\ IsGenesis(B, 0) /\ Parents(B, 0) = {}
      /\ B[0].parent = -1 /\ B[0].chain = {0}
  <2>1. n \in Nat /\ n >= 1 /\ 0..(n - 1) \subseteq BlockIds /\ EdgesOK(B, n)
    BY TableFacts DEF TableOK
  <2> QED BY <2>1 DEF EdgesOK, IsGenesis, Parents
<1>3. g.ledger = {}
  <2> SUFFICES ASSUME NEW b \in g.ledger PROVE FALSE
    OBVIOUS
  <2>1. 0 \in B[b].chain
    BY <1>1, ChainFacts
  <2> QED BY <1>1, <2>1
<1>4. g.totalWeight = 0 /\ g.tips = {}
  BY <1>1, <1>3, FS_EmptySet DEF TipsOf
<1>5. e = [g EXCEPT !.ledger = {0}, !.totalWeight = 1, !.weight = wt, !.maxChild = mc,
                   !.tips = {0}, !.pivotTip = 0]
  <2>1. AddEntry(B, g, 0) = [g EXCEPT !.ledger = {0}, !.totalWeight = 1, !.weight = wt,
                                     !.maxChild = mc, !.tips = {0}]
    <3> DEFINE all  == g.ledger \cup {0}
               tips == (g.tips \ Parents(B, 0)) \cup {0}
    <3>1. all = {0} /\ tips = {0} /\ g.totalWeight + 1 = 1
      BY <1>2, <1>3, <1>4
    <3>2. AddEntry(B, g, 0) = [g EXCEPT !.ledger = all, !.totalWeight = g.totalWeight + 1, !.weight = wt,
                                       !.maxChild = mc, !.tips = tips]
      BY <1>2 DEF AddEntry
    <3> HIDE DEF all, tips, wt, mc
    <3> QED BY <3>1, <3>2
  <2> HIDE DEF wt, mc
  <2> QED BY <2>1
<1>6. /\ wt \in [BlockIds -> Int] /\ mc \in [BlockIds -> BlockIds \cup {-1}]
      /\ wt[0] = 0 /\ mc[0] = -1
  BY <1>1, <1>2, <1>4 DEF Graph
<1> HIDE DEF wt, mc, e
<1>7. /\ e \in Graph /\ e.ledger = {0} /\ e.totalWeight = 1 /\ e.weight = wt
      /\ e.maxChild = mc /\ e.tips = {0} /\ e.pivotTip = 0
  BY <1>1, <1>2, <1>5, <1>6 DEF Graph
<1>8. PivotChain(B, e) = {0}
  BY <1>2, <1>7 DEF PivotChain
<1>9. SubtreeWeight(B, {0}, 0) = 1 /\ Cardinality({0}) = 1
  <2>1. Subtree(B, {0}, 0) = {0}
    BY <1>2 DEF Subtree
  <2>2. Cardinality({0}) = 1
    BY FS_Singleton
  <2> QED BY <2>1, <2>2 DEF SubtreeWeight
<1>10. ChildrenIn(B, {0}, 0) = {}
  BY <1>2 DEF ChildrenIn
<1>11. WeightsExact(B, e)
  BY <1>6, <1>7, <1>8, <1>9 DEF WeightsExact
<1>12. MaxChildExact(B, e) /\ PivotTipExact(B, e)
  BY <1>6, <1>7, <1>8, <1>10 DEF MaxChildExact, PivotTipExact
<1>13. TipsExact(B, e) /\ AncestorClosed(B, e.ledger)
  BY <1>2, <1>7 DEF TipsExact, TipsOf, AncestorClosed
<1>14. e.ledger \subseteq 0..(n - 1) /\ \A b \in e.ledger : B[b].chain \subseteq e.ledger
  BY <1>2, <1>7
<1>15. RestBlank(e)
  <2>1. \A x \in BlockIds : g.weight[x] = 0 /\ g.maxChild[x] = -1
    BY <1>3 DEF GraphOK, RestBlank
  <2>2. \A x \in BlockIds \ {0} : wt[x] = 0 /\ mc[x] = -1
    BY <1>1, <1>2, <2>1 DEF wt, mc, Graph
  <2> QED BY <1>7, <2>2 DEF RestBlank
<1> QED BY <1>7, <1>11, <1>12, <1>13, <1>14, <1>15 DEF GraphOK, Consistent, e

\* Insert keeps a consistent graph consistent, whatever block with edges it is
\* given.
LEMMA InsertKeepsGraph ==
    ASSUME NEW B, NEW n, TableOK(B, n), NEW g, GraphOK(B, n, g), NEW b \in 0..(n - 1)
    PROVE  GraphOK(B, n, Insert(B, g, b))
<1>1. CASE InsertResult(B, g, b) # "Success"
  BY <1>1 DEF Insert
<1>2. CASE InsertResult(B, g, b) = "Success"
  <2>1. b \notin g.ledger /\ Parents(B, b) \subseteq g.ledger /\ Insert(B, g, b) = InsertNew(B, g, b)
    BY <1>2 DEF InsertResult, SeenAllAncestors, Insert
  <2>2. CASE b = 0
    <3>1. IsGenesis(B, 0)
      BY <2>2, TableFacts
    <3>2. InsertNew(B, g, 0) = [AddEntry(B, g, 0) EXCEPT !.pivotTip = 0]
      BY <3>1 DEF InsertNew
    <3> QED BY <2>1, <2>2, <3>2, GenesisKeepsGraph
  <2>3. CASE b # 0
    <3>1. ~ IsGenesis(B, b) /\ b \in 1..(n - 1)
      BY <2>3, TableFacts
    <3>2. Ready(B, n, g, b)
      BY <2>1, <3>1 DEF Ready
    <3>3. InsertNew(B, g, b) = Switched(B, g, b)
      BY <3>1 DEF InsertNew, Switched, Credited, Branch, Fork
    <3> QED BY <2>1, <3>2, <3>3, SwitchedKeepsGraph
  <2> QED BY <2>2, <2>3
<1> QED BY <1>1, <1>2

\* A graph that is consistent stays so whatever becomes of the blocks that have
\* no edges yet.
LEMMA AgreeKeepsGraph ==
    ASSUME NEW B, NEW n, TableOK(B, n), NEW C, Agree(B, C, n),
           NEW g, GraphOK(B, n, g)
    PROVE  GraphOK(C, n, g)
<1> DEFINE L == g.ledger
<1>1. /\ g \in Graph /\ L \subseteq 0..(n - 1) /\ (\A b \in L : B[b].chain \subseteq L) /\ n \in Nat
      /\ AncestorClosed(B, L) /\ WeightsExact(B, g) /\ MaxChildExact(B, g)
      /\ PivotTipExact(B, g) /\ TipsExact(B, g)
  BY TableFacts DEF GraphOK, Consistent
<1>2. \A b \in L : C[b] = B[b]
  BY <1>1 DEF Agree
<1>3. \A b : ChildrenIn(C, L, b) = ChildrenIn(B, L, b) /\ Subtree(C, L, b) = Subtree(B, L, b)
  BY <1>2 DEF ChildrenIn, Subtree
<1>4. \A b : SubtreeWeight(C, L, b) = SubtreeWeight(B, L, b)
  BY <1>3 DEF SubtreeWeight
<1>5. PivotChain(C, g) = PivotChain(B, g)
  BY <1>1, <1>2 DEF PivotChain
<1>6. ASSUME NEW b, NEW c, IsHeaviestChild(B, L, b, c) PROVE IsHeaviestChild(C, L, b, c)
  <2>1. /\ c \in ChildrenIn(B, L, b) /\ ChildrenIn(B, L, b) \subseteq L
        /\ \A d \in ChildrenIn(B, L, b) \ {c} :
              Beats(B, SubtreeWeight(B, L, c), SubtreeWeight(B, L, d), c, d)
    BY <1>6 DEF IsHeaviestChild, ChildrenIn
  <2>2. ASSUME NEW d \in ChildrenIn(C, L, b) \ {c}
        PROVE  Beats(C, SubtreeWeight(C, L, c), SubtreeWeight(C, L, d), c, d)
    <3>1. d \in ChildrenIn(B, L, b) \ {c}
      BY <1>3
    <3>2. C[c] = B[c] /\ C[d] = B[d]
      BY <1>2, <2>1, <3>1
    <3>3. Beats(B, SubtreeWeight(B, L, c), SubtreeWeight(B, L, d), c, d)
      BY <2>1, <3>1
    <3> HIDE DEF L
    <3> QED BY <1>4, <3>2, <3>3 DEF Beats
  <2> QED BY <1>3, <2>1, <2>2 DEF IsHeaviestChild
<1>7. WeightsExact(C, g)
  BY <1>1, <1>4, <1>5 DEF WeightsExact
<1>8. MaxChildExact(C, g)
  BY <1>1, <1>3, <1>6 DEF MaxChildExact
<1>9. PivotTipExact(C, g)
  BY <1>1, <1>5 DEF PivotTipExact
<1>10. \A b \in L : Parents(C, b) = Parents(B, b)
  BY <1>2 DEF Parents, IsGenesis
<1>11. AncestorClosed(C, L) /\ TipsExact(C, g)
  BY <1>1, <1>10 DEF AncestorClosed, TipsExact, TipsOf
<1>12. \A b \in L : C[b].chain \subseteq L
  BY <1>1, <1>2
<1>13. RestBlank(g)
  BY DEF GraphOK
<1> QED BY <1>1, <1>7, <1>8, <1>9, <1>11, <1>12, <1>13 DEF GraphOK, Consistent

\* It stays so when a block it does not hold gets its edges.
LEMMA TableGrowthKeepsGraph ==
    ASSUME NEW B, NEW n, TableOK(B, n), NEW C, Agree(B, C, n),
           NEW g, GraphOK(B, n, g)
    PROVE  GraphOK(C, n + 1, g)
<1>1. GraphOK(C, n, g) /\ n \in Nat
  BY AgreeKeepsGraph, TableFacts
<1>2. 0..(n - 1) \subseteq 0..(n + 1 - 1)
  BY <1>1
<1> QED BY <1>1, <1>2 DEF GraphOK

\* mineNextBlock touches only the block it mines, which has no edges yet.
LEMMA MineKeepsTable ==
    ASSUME NEW B, NEW n, TableOK(B, n), NEW m \in Miners, NEW r \in 0..MaxResidual
    PROVE  /\ TableOK(MineBlock(B, n, m, r), n) /\ Agree(B, MineBlock(B, n, m, r), n)
           /\ n <= MaxBlock => /\ MineBlock(B, n, m, r)[n].minerID = m
                               /\ MineBlock(B, n, B[n].minerID, B[n].residual) = B
<1> DEFINE A == MineBlock(B, n, m, r)
           N == [B[n] EXCEPT !.minerID = m, !.residual = r]
<1>1. /\ B \in [BlockIds -> Block] /\ n \in 1..(MaxBlock + 1) /\ EdgesOK(B, n) /\ ChainsOK(B, n)
      /\ n \in Nat /\ 0..(n - 1) \subseteq BlockIds
  BY TableFacts DEF TableOK
<1>2. A = [B EXCEPT ![n] = N]
  BY DEF MineBlock
<1>3. ASSUME n \in BlockIds
      PROVE  N \in Block /\ N.minerID = m /\ N.parent = B[n].parent /\ N.references = B[n].references
  <2> DEFINE x == B[n]
  <2>1. x \in Block
    BY <1>1, <1>3
  <2>2. m \in Miners \cup {NoMiner}
    OBVIOUS
  <2> HIDE DEF x
  <2>3. /\ [x EXCEPT !.minerID = m, !.residual = r] \in Block
        /\ [x EXCEPT !.minerID = m, !.residual = r].minerID = m
        /\ [x EXCEPT !.minerID = m, !.residual = r].parent = x.parent
        /\ [x EXCEPT !.minerID = m, !.residual = r].references = x.references
    BY <2>1, <2>2 DEF Block
  <2> QED BY <2>3 DEF x
<1> HIDE DEF N, A
<1>4. A \in [BlockIds -> Block]
  <2>1. CASE n \in BlockIds
    BY <1>1, <1>2, <1>3, <2>1
  <2>2. CASE n \notin BlockIds
    BY <1>1, <1>2, <2>2
  <2> QED BY <2>1, <2>2
<1>5. \A b \in BlockIds : A[b] = IF b = n THEN N ELSE B[b]
  BY <1>1, <1>2
<1>6. \A b \in 0..(n - 1) : A[b] = B[b] /\ b \in BlockIds
  BY <1>1, <1>5
<1>7. EdgesOK(A, n)
  <2>1. 0 \in 0..(n - 1) /\ \A b \in 1..(n - 1) : b \in 0..(n - 1) /\ 0..(b - 1) \subseteq 0..(n - 1)
    BY <1>1
  <2>2. A[0].parent = -1 /\ A[0].references = {} /\ A[0].chain = {0}
    BY <1>1, <1>6, <2>1 DEF EdgesOK
  <2>3. \A b \in 1..(n - 1) : /\ A[b].parent \in 0..(b - 1)
                               /\ A[b].references \subseteq 0..(b - 1)
                               /\ A[b].chain = A[A[b].parent].chain \cup {b}
    BY <1>1, <1>6, <2>1 DEF EdgesOK
  <2>4. \A b \in n..MaxBlock : b \in BlockIds
    BY <1>1 DEF BlockIds
  <2>5. \A b \in n..MaxBlock : A[b].parent = -1 /\ A[b].references = {}
    <3>1. \A b \in n..MaxBlock : B[b].parent = -1 /\ B[b].references = {}
      BY <1>1 DEF EdgesOK
    <3> QED BY <1>3, <1>5, <2>4, <3>1
  <2> QED BY <2>2, <2>3, <2>5 DEF EdgesOK
<1>8. ChainsOK(A, n)
  <2> SUFFICES ASSUME NEW b \in 0..(n - 1)
               PROVE  /\ b \in A[b].chain /\ Genesis \in A[b].chain /\ A[b].chain \subseteq 0..b
                      /\ \A a \in A[b].chain : A[a].chain \subseteq A[b].chain
                      /\ \A a, c \in A[b].chain : a \in A[c].chain \/ c \in A[a].chain
                      /\ \A a \in A[b].chain \ {b} :
                            \E c \in A[b].chain : c # Genesis /\ A[c].parent = a
    BY DEF ChainsOK
  <2>1. A[b].chain = B[b].chain /\ B[b].chain \subseteq 0..b
    BY <1>1, <1>6 DEF ChainsOK
  <2>2. 0..b \subseteq 0..(n - 1)
    BY <1>1
  <2>3. \A a \in B[b].chain : A[a] = B[a]
    BY <1>6, <2>1, <2>2
  <2> QED BY <1>1, <2>1, <2>3 DEF ChainsOK
<1>9. TableOK(A, n) /\ Agree(B, A, n)
  BY <1>1, <1>4, <1>6, <1>7, <1>8 DEF TableOK, Agree
<1>10. ASSUME n <= MaxBlock PROVE A[n].minerID = m /\ MineBlock(B, n, B[n].minerID, B[n].residual) = B
  <2>1. n \in BlockIds
    BY <1>1, <1>10 DEF BlockIds
  <2>2. [B[n] EXCEPT !.minerID = B[n].minerID, !.residual = B[n].residual] = B[n]
    BY <1>1, <2>1 DEF Block
  <2>3. MineBlock(B, n, B[n].minerID, B[n].residual)
          = [B EXCEPT ![n] = [B[n] EXCEPT !.minerID = B[n].minerID, !.residual = B[n].residual]]
    BY DEF MineBlock
  <2>4. [B EXCEPT ![n] = B[n]] = B
    BY <1>1
  <2> QED BY <1>3, <1>5, <2>1, <2>2, <2>3, <2>4
<1> QED BY <1>9, <1>10 DEF A

\* The empty graph is consistent: there is nothing to weigh.
LEMMA EmptyGraphOK ==
    ASSUME NEW B, NEW n
    PROVE  GraphOK(B, n, NewLocalGraph)
<1> DEFINE g == NewLocalGraph
<1>1. g \in Graph /\ g.ledger = {}
  BY BlockAssumption DEF NewLocalGraph, Graph, BlockIds
<1>2. WeightsExact(B, g)
  BY FS_EmptySet DEF WeightsExact, NewLocalGraph
<1>3. AncestorClosed(B, g.ledger) /\ MaxChildExact(B, g) /\ PivotTipExact(B, g) /\ TipsExact(B, g)
  BY DEF AncestorClosed, MaxChildExact, PivotTipExact, TipsExact, TipsOf, NewLocalGraph
<1>4. RestBlank(g)
  BY DEF RestBlank, NewLocalGraph
<1> HIDE DEF g
<1> QED BY <1>1, <1>2, <1>3, <1>4 DEF GraphOK, Consistent, g

\* A block that is mined and given edges to blocks with edges leaves every
\* graph consistent.
LEMMA NewBlockKeepsGraph ==
    ASSUME NEW B, NEW n, TableOK(B, n), n <= MaxBlock,
           NEW m \in Miners, NEW r \in 0..MaxResidual,
           NEW p \in 0..(n - 1), NEW refs \in SUBSET (0..(n - 1)), NEW anc \in Nat,
           NEW C, C = LinkBlock(MineBlock(B, n, m, r), n, p, refs, anc)
    PROVE  /\ TableOK(C, n + 1) /\ Agree(B, C, n) /\ Filled(C, n, m, p, refs)
           /\ \A g : GraphOK(B, n, g) => GraphOK(C, n + 1, g)
<1>1. n \in Nat
  BY TableFacts
<1>2. TableOK(C, n + 1) /\ Agree(B, C, n) /\ Filled(C, n, m, p, refs)
  BY <1>1, LinkKeepsTable
<1> QED BY <1>2, TableGrowthKeepsGraph

\* The pivot tip and the tips of a graph that holds genesis can be linked to,
\* and are in the graph.
LEMMA OwnEdges ==
    ASSUME NEW B, NEW n, NEW g, GraphOK(B, n, g), Genesis \in g.ledger
    PROVE  /\ g.pivotTip \in 0..(n - 1) /\ g.pivotTip \in g.ledger
           /\ g.tips \ {g.pivotTip} \in SUBSET (0..(n - 1)) /\ g.tips \subseteq g.ledger
           /\ g.totalWeight \in Nat
<1>1. /\ g \in Graph /\ g.ledger \subseteq 0..(n - 1)
      /\ PivotTipExact(B, g) /\ TipsExact(B, g)
  BY DEF GraphOK, Consistent
<1> QED BY <1>1 DEF Graph, PivotTipExact, PivotChain, TipsExact, TipsOf

\* The ancestors of a block to be are finitely many.
LEMMA PastIsCounted ==
    ASSUME NEW B, NEW n, TableOK(B, n), NEW p \in 0..(n - 1), NEW refs \in SUBSET (0..(n - 1))
    PROVE  Cardinality(PastOf(B, p, refs)) \in Nat
<1>1. B \in [BlockIds -> Block] /\ 0..(n - 1) \subseteq BlockIds
  BY TableFacts DEF TableOK
<1>2. {p} \cup refs \subseteq BlockIds /\ \A x \in BlockIds : B[x].past \subseteq BlockIds
  BY <1>1 DEF Block
<1>3. PastOf(B, p, refs) \subseteq BlockIds
  BY <1>2 DEF PastOf
<1>4. IsFiniteSet(BlockIds)
  BY BlockAssumption, FS_Interval DEF BlockIds
<1> QED BY <1>3, <1>4, FS_Subset, FS_CardinalityType

\* The ledger after insert.
LEMMA InsertLedger ==
    ASSUME NEW B, NEW n, TableOK(B, n), NEW g, GraphOK(B, n, g), NEW b \in 0..(n - 1)
    PROVE  /\ InsertResult(B, g, b) = "Success" => Insert(B, g, b).ledger = g.ledger \cup {b}
           /\ InsertResult(B, g, b) # "Success" => Insert(B, g, b).ledger = g.ledger
<1>1. CASE InsertResult(B, g, b) # "Success"
  BY <1>1 DEF Insert
<1>2. CASE InsertResult(B, g, b) = "Success"
  <2>1. b \notin g.ledger /\ Parents(B, b) \subseteq g.ledger /\ Insert(B, g, b) = InsertNew(B, g, b)
    BY <1>2 DEF InsertResult, SeenAllAncestors, Insert
  <2>2. CASE b = 0
    <3>1. IsGenesis(B, 0)
      BY <2>2, TableFacts
    <3>2. InsertNew(B, g, 0) = [AddEntry(B, g, 0) EXCEPT !.pivotTip = 0] /\ g \in Graph
      BY <3>1 DEF InsertNew, GraphOK
    <3> QED BY <1>2, <2>1, <2>2, <3>2 DEF AddEntry, Graph
  <2>3. CASE b # 0
    <3>1. ~ IsGenesis(B, b) /\ b \in 1..(n - 1)
      BY <2>3, TableFacts
    <3>2. Ready(B, n, g, b)
      BY <2>1, <3>1 DEF Ready
    <3>3. InsertNew(B, g, b) = Switched(B, g, b)
      BY <3>1 DEF InsertNew, Switched, Credited, Branch, Fork
    <3>4. SwitchedOK(B, g, b, Switched(B, g, b))
      BY <3>2, SwitchedFields
    <3>5. Switched(B, g, b).ledger = g.ledger \cup {b}
      BY <3>4 DEF SwitchedOK
    <3> QED BY <1>2, <2>1, <3>3, <3>5
  <2> QED BY <2>2, <2>3
<1> QED BY <1>1, <1>2

\* GenerateBlock: the edges a miner gives its block let insert succeed at
\* once, and every other graph stays consistent.
LEMMA OwnBlockKeepsGraph ==
    ASSUME NEW B, NEW n, TableOK(B, n), n <= MaxBlock,
           NEW g, GraphOK(B, n, g), Genesis \in g.ledger,
           NEW m \in Miners, NEW r \in 0..MaxResidual,
           NEW C, C = FillNewBlock(MineBlock(B, n, m, r), g, n)
    PROVE  /\ TableOK(C, n + 1) /\ Agree(B, C, n)
           /\ \A h : GraphOK(B, n, h) => GraphOK(C, n + 1, h)
           /\ InsertResult(C, g, n) = "Success" /\ Parents(C, n) \subseteq g.ledger
           /\ GraphOK(C, n + 1, Insert(C, g, n)) /\ Insert(C, g, n).ledger = g.ledger \cup {n}
           /\ C[n].minerID = m
<1>1. C = LinkBlock(MineBlock(B, n, m, r), n, g.pivotTip, g.tips \ {g.pivotTip}, g.totalWeight)
  BY DEF FillNewBlock
<1>2. /\ g.pivotTip \in 0..(n - 1) /\ g.pivotTip \in g.ledger
      /\ g.tips \ {g.pivotTip} \in SUBSET (0..(n - 1)) /\ g.tips \subseteq g.ledger
      /\ g.totalWeight \in Nat
  BY OwnEdges
<1>3. /\ TableOK(C, n + 1) /\ Agree(B, C, n)
      /\ Filled(C, n, m, g.pivotTip, g.tips \ {g.pivotTip})
      /\ \A h : GraphOK(B, n, h) => GraphOK(C, n + 1, h)
  BY <1>1, <1>2, NewBlockKeepsGraph
<1>4. n \in Nat
  BY TableFacts
<1>5. /\ C[n].parent = g.pivotTip /\ C[n].references = g.tips \ {g.pivotTip}
      /\ C[n].minerID = m
  BY <1>3 DEF Filled
<1>6. Parents(C, n) \subseteq g.ledger
  BY <1>2, <1>5 DEF Parents
<1>7. n \notin g.ledger
  BY <1>4 DEF GraphOK
<1>8. InsertResult(C, g, n) = "Success"
  BY <1>6, <1>7 DEF InsertResult, SeenAllAncestors
<1>9. GraphOK(C, n + 1, g)
  BY <1>3
<1>10. GraphOK(C, n + 1, Insert(C, g, n)) /\ Insert(C, g, n).ledger = g.ledger \cup {n}
  <2> DEFINE k == n + 1
  <2>1. TableOK(C, k) /\ GraphOK(C, k, g) /\ n \in 0..(k - 1)
    BY <1>3, <1>4, <1>9
  <2> HIDE DEF k
  <2>2. GraphOK(C, k, Insert(C, g, n))
    BY <2>1, InsertKeepsGraph
  <2>3. Insert(C, g, n).ledger = g.ledger \cup {n}
    BY <1>8, <2>1, InsertLedger
  <2> QED BY <2>2, <2>3 DEF k
<1> QED BY <1>3, <1>5, <1>6, <1>8, <1>10

-----------------------------------------------------------------------------
(***************************************************************************)
(* The pivot of a consistent graph is that of the heaviest-subtree rule.   *)
(***************************************************************************)
\* A block has one heaviest child.
LEMMA HeaviestIsOne ==
    ASSUME NEW B, NEW n, TableOK(B, n), NEW L, ChainClosed(B, n, L), NEW p,
           NEW c, IsHeaviestChild(B, L, p, c), NEW d, IsHeaviestChild(B, L, p, d)
    PROVE  c = d
<1> DEFINE K == ChildrenIn(B, L, p)
           w == [x \in K |-> SubtreeWeight(B, L, x)]
<1>1. L \subseteq 0..(n - 1) /\ 0..(n - 1) \subseteq BlockIds /\ n \in Nat /\ B \in [BlockIds -> Block]
  BY TableFacts DEF ChainClosed, TableOK
<1>2. \A x \in L : SubtreeWeight(B, L, x) \in Int /\ B[x].residual \in Int /\ x \in Int
  <2>1. \A x \in L : SubtreeWeight(B, L, x) \in 1..Cardinality(L)
    BY SubtreeBounds
  <2>2. Cardinality(L) \in Nat
    BY SubtreeBounds
  <2>3. \A x \in BlockIds : B[x].residual \in 0..MaxResidual
    BY <1>1 DEF Block
  <2> QED BY <1>1, <2>1, <2>2, <2>3, BlockAssumption
<1>3. c \in K /\ d \in K /\ K \subseteq L
  BY DEF IsHeaviestChild, ChildrenIn
<1>4. \A x \in K : x \in Int /\ B[x].residual \in Int /\ w[x] \in Int
  BY <1>2, <1>3
<1>5. \A x, y \in K : Beats(B, w[x], w[y], x, y) => ~ Beats(B, w[y], w[x], y, x)
  <2> HIDE DEF K, w
  <2> QED BY <1>4, BeatsOrder
<1>6. c # d => Beats(B, w[c], w[d], c, d) /\ Beats(B, w[d], w[c], d, c)
  BY <1>3 DEF IsHeaviestChild
<1> QED BY <1>3, <1>5, <1>6

\* The maxChild pointers lead through the heaviest children.
LEMMA PivotIsGhostChain ==
    ASSUME NEW B, NEW n, TableOK(B, n), NEW g, GraphOK(B, n, g)
    PROVE  PivotChain(B, g) = GhostChain(B, g.ledger)
<1> DEFINE L == g.ledger
<1>1. /\ L \subseteq 0..(n - 1) /\ (\A b \in L : B[b].chain \subseteq L)
      /\ MaxChildExact(B, g) /\ n \in Nat
  BY TableFacts DEF GraphOK, Consistent
<1>2. ChainClosed(B, n, L)
  BY <1>1 DEF ChainClosed
<1>3. ASSUME NEW a \in L \ {0}
      PROVE  g.maxChild[B[a].parent] = a <=> IsHeaviestChild(B, L, B[a].parent, a)
  <2> DEFINE p == B[a].parent
  <2>1. a \in 1..(n - 1) /\ B[a].parent \in B[a].chain
    BY <1>1, ChainFacts
  <2>2. p \in L /\ a \in ChildrenIn(B, L, p)
    BY <1>1, <2>1 DEF ChildrenIn
  <2>3. IsHeaviestChild(B, L, p, g.maxChild[p])
    BY <1>1, <2>2 DEF MaxChildExact
  <2>4. IsHeaviestChild(B, L, p, a) => a = g.maxChild[p]
    <3> HIDE DEF L, p
    <3> QED BY <1>2, <2>3, HeaviestIsOne
  <2> QED BY <2>3, <2>4
<1> QED BY <1>1, <1>3 DEF PivotChain, GhostChain

\* Its end is pivotTip: the tip is a function of the set of blocks.
LEMMA PivotTipIsGhostTip ==
    ASSUME NEW B, NEW n, TableOK(B, n), NEW g, GraphOK(B, n, g), g.ledger # {}
    PROVE  g.pivotTip = GhostTip(B, g.ledger)
<1> DEFINE L == g.ledger
           P == PivotOf(B, L, g.maxChild)
<1>1. /\ L \subseteq 0..(n - 1) /\ (\A b \in L : B[b].chain \subseteq L)
      /\ MaxChildExact(B, g) /\ PivotTipExact(B, g) /\ n \in Nat
  BY TableFacts DEF GraphOK, Consistent
<1>2. P = PivotChain(B, g) /\ P = GhostChain(B, L) /\ P \subseteq L
  BY PivotIsGhostChain DEF PivotChain, PivotOf
<1>3. ChainClosed(B, n, L)
  BY <1>1 DEF ChainClosed
<1>4. g.pivotTip \in P /\ g.maxChild[g.pivotTip] = -1
  BY <1>1, <1>2 DEF PivotTipExact
<1>5. ChildrenIn(B, L, g.pivotTip) = {}
  <2>1. SUFFICES ASSUME ChildrenIn(B, L, g.pivotTip) # {} PROVE FALSE
    OBVIOUS
  <2>2. IsHeaviestChild(B, L, g.pivotTip, -1)
    BY <1>1, <1>2, <1>4, <2>1 DEF MaxChildExact
  <2>3. -1 \in L
    BY <2>2 DEF IsHeaviestChild, ChildrenIn
  <2> QED BY <1>1, <2>3
<1>6. ASSUME NEW t \in P, ChildrenIn(B, L, t) = {} PROVE t = g.pivotTip
  <2>1. SUFFICES ASSUME t # g.pivotTip PROVE FALSE
    OBVIOUS
  <2>2. t \in B[g.pivotTip].chain \/ g.pivotTip \in B[t].chain
    BY <1>3, <1>4, PivotFacts
  <2>3. \A d, e \in P : d \in B[e].chain /\ d # e => ChildrenIn(B, L, d) # {}
    <3>1. ASSUME NEW d \in P, NEW e \in P, d \in B[e].chain /\ d # e
          PROVE  ChildrenIn(B, L, d) # {}
      <4>1. PICK c \in B[e].chain : c # 0 /\ B[c].parent = d
        BY <1>3, <3>1, PivotFacts
      <4>2. c \in L
        BY <1>1, <1>2, <4>1
      <4> QED BY <4>1, <4>2 DEF ChildrenIn
    <3> QED BY <3>1
  <2> HIDE DEF P, L
  <2> QED BY <1>4, <1>5, <1>6, <2>1, <2>2, <2>3
<1> HIDE DEF P
<1> QED BY <1>2, <1>4, <1>5, <1>6 DEF GhostTip

\* A consistent graph is a function of the set of its blocks: nothing in it
\* depends on the order they came in.
LEMMA SameLedgerSameGraph ==
    ASSUME NEW B, NEW n, TableOK(B, n), NEW g, GraphOK(B, n, g), NEW h, GraphOK(B, n, h),
           g.ledger = h.ledger
    PROVE  g = h
<1> DEFINE L == g.ledger
<1>1. /\ g \in Graph /\ WeightsExact(B, g) /\ MaxChildExact(B, g) /\ TipsExact(B, g) /\ RestBlank(g)
      /\ h \in Graph /\ WeightsExact(B, h) /\ MaxChildExact(B, h) /\ TipsExact(B, h) /\ RestBlank(h)
      /\ ChainClosed(B, n, L)
  BY DEF GraphOK, Consistent, ChainClosed
<1>2. g.totalWeight = h.totalWeight /\ g.tips = h.tips
  BY <1>1 DEF WeightsExact, TipsExact
<1>3. PivotChain(B, g) = PivotChain(B, h)
  BY PivotIsGhostChain
<1>4. g.weight = h.weight
  <2>1. \A b \in L : g.weight[b] = h.weight[b]
    BY <1>1, <1>2, <1>3 DEF WeightsExact
  <2>2. \A b \in BlockIds \ L : g.weight[b] = h.weight[b]
    BY <1>1 DEF RestBlank
  <2>3. g.weight \in [BlockIds -> Int] /\ h.weight \in [BlockIds -> Int]
    BY <1>1 DEF Graph
  <2>4. \A b \in BlockIds : g.weight[b] = h.weight[b]
    BY <2>1, <2>2
  <2> QED BY <2>3, <2>4
<1>5. g.maxChild = h.maxChild
  <2>1. ASSUME NEW b \in L PROVE g.maxChild[b] = h.maxChild[b]
    <3>1. CASE ChildrenIn(B, L, b) = {}
      BY <1>1, <3>1 DEF MaxChildExact
    <3>2. CASE ChildrenIn(B, L, b) # {}
      <4>1. IsHeaviestChild(B, L, b, g.maxChild[b]) /\ IsHeaviestChild(B, L, b, h.maxChild[b])
        BY <1>1, <3>2 DEF MaxChildExact
      <4> HIDE DEF L
      <4> QED BY <1>1, <4>1, HeaviestIsOne
    <3> QED BY <3>1, <3>2
  <2>2. \A b \in BlockIds \ L : g.maxChild[b] = h.maxChild[b]
    BY <1>1 DEF RestBlank
  <2>3. g.maxChild \in [BlockIds -> BlockIds \cup {None}] /\ h.maxChild \in [BlockIds -> BlockIds \cup {None}]
    BY <1>1 DEF Graph
  <2>4. \A b \in BlockIds : g.maxChild[b] = h.maxChild[b]
    BY <2>1, <2>2
  <2> QED BY <2>3, <2>4
<1>6. g.pivotTip = h.pivotTip
  <2>1. CASE L = {}
    BY <1>1, <2>1 DEF RestBlank
  <2>2. CASE L # {}
    BY <2>2, PivotTipIsGhostTip
  <2> QED BY <2>1, <2>2
<1>7. \A k \in Graph : k = [ledger |-> k.ledger, weight |-> k.weight, maxChild |-> k.maxChild,
                          totalWeight |-> k.totalWeight, tips |-> k.tips, pivotTip |-> k.pivotTip]
  BY DEF Graph
<1> QED BY <1>1, <1>2, <1>4, <1>5, <1>6, <1>7

-----------------------------------------------------------------------------
(***************************************************************************)
(* The ancestors of a block.                                               *)
(***************************************************************************)
\* The past of a block is what its edges lead to.
PastOK(B, n) ==
    /\ B[Genesis].past = {}
    /\ \A b \in 1..(n - 1) : B[b].past = PastOf(B, B[b].parent, B[b].references)

\* The blocks with edges are those of the table.
LEMMA LinkedIs == ASSUME NEW B, NEW n, TableOK(B, n) PROVE Linked(B) = 0..(n - 1)
BY BlockAssumption DEF TableOK, EdgesOK, Linked, BlockIds

\* The past of a block holds earlier blocks only, its parents, and the past of
\* each block it holds; a graph with a block has its past.
LEMMA PastFacts ==
    ASSUME NEW B, NEW n, TableOK(B, n), PastOK(B, n)
    PROVE  /\ \A b \in 0..(n - 1) : B[b].past \subseteq 0..(b - 1) /\ Parents(B, b) \subseteq B[b].past
           /\ \A b \in 0..(n - 1) : \A a \in B[b].past : B[a].past \subseteq B[b].past
           /\ \A L \in SUBSET (0..(n - 1)) :
                 AncestorClosed(B, L) => \A b \in L : B[b].past \subseteq L
<1>1. /\ n \in Nat /\ n >= 1 /\ B[0].past = {} /\ Parents(B, 0) \subseteq {}
      /\ \A b \in 0..(n - 1) : Parents(B, b) \subseteq 0..(b - 1)
  <2>1. \A b \in 0..(n - 1) : Parents(B, b) \subseteq 0..(b - 1)
    BY TableFacts
  <2>2. n \in Nat /\ n >= 1
    BY TableFacts
  <2>3. Parents(B, 0) \subseteq 0..(0 - 1)
    BY <2>1, <2>2
  <2> QED BY <2>1, <2>2, <2>3 DEF PastOK
<1>2. ASSUME NEW b \in 1..(n - 1)
      PROVE  B[b].past = Parents(B, b) \cup UNION {B[x].past : x \in Parents(B, b)}
  <2>1. Parents(B, b) = {B[b].parent} \cup B[b].references
    BY TableFacts DEF Parents
  <2>2. B[b].past = PastOf(B, B[b].parent, B[b].references)
    BY DEF PastOK
  <2> QED BY <2>1, <2>2 DEF PastOf
<1>3. ASSUME NEW b \in 0..(n - 1) PROVE Parents(B, b) \subseteq B[b].past
  BY <1>1, <1>2
<1>4. ASSUME NEW b \in 0..(n - 1) PROVE B[b].past \subseteq 0..(b - 1)
  <2> DEFINE S == {x \in 0..(n - 1) : ~ (B[x].past \subseteq 0..(x - 1))}
  <2>1. S # {} => \E k \in S : \A x \in S : k <= x
    <3>1. S \in SUBSET Nat
      OBVIOUS
    <3> HIDE DEF S
    <3> QED BY <3>1, MinExists
  <2>2. SUFFICES ASSUME NEW k \in S, \A x \in S : k <= x PROVE FALSE
    BY <2>1
  <2>3. k \in 1..(n - 1)
    BY <1>1
  <2>4. \A x \in Parents(B, k) : x \in 0..(k - 1) /\ B[x].past \subseteq 0..(x - 1)
    BY <1>1, <2>2, <2>3
  <2>5. \A x \in Parents(B, k) : 0..(x - 1) \subseteq 0..(k - 1)
    BY <2>3, <2>4
  <2>6. B[k].past \subseteq 0..(k - 1)
    BY <1>2, <2>3, <2>4, <2>5
  <2> QED BY <2>6
<1>5. ASSUME NEW b \in 0..(n - 1), NEW a \in B[b].past PROVE B[a].past \subseteq B[b].past
  <2> DEFINE S == {x \in 0..(n - 1) : \E y \in B[x].past : ~ (B[y].past \subseteq B[x].past)}
  <2>1. S # {} => \E k \in S : \A x \in S : k <= x
    <3>1. S \in SUBSET Nat
      OBVIOUS
    <3> HIDE DEF S
    <3> QED BY <3>1, MinExists
  <2>2. SUFFICES ASSUME NEW k \in S, \A x \in S : k <= x PROVE FALSE
    BY <2>1
  <2>3. k \in 1..(n - 1)
    BY <1>1
  <2>4. PICK y \in B[k].past : ~ (B[y].past \subseteq B[k].past)
    OBVIOUS
  <2>5. B[k].past = Parents(B, k) \cup UNION {B[x].past : x \in Parents(B, k)}
    BY <1>2, <2>3
  <2>6. \A x \in Parents(B, k) : x \in 0..(n - 1) /\ x < k
    BY <1>1, <2>3
  <2>7. \A x \in Parents(B, k) : x \notin S
    BY <2>2, <2>6
  <2>8. \A x \in Parents(B, k) : \A z \in B[x].past : B[z].past \subseteq B[x].past
    BY <2>6, <2>7
  <2> HIDE DEF S
  <2> QED BY <2>4, <2>5, <2>8
<1>6. ASSUME NEW L \in SUBSET (0..(n - 1)), AncestorClosed(B, L), NEW b \in L
      PROVE  B[b].past \subseteq L
  <2> DEFINE S == {x \in L : ~ (B[x].past \subseteq L)}
  <2>1. S # {} => \E k \in S : \A x \in S : k <= x
    <3>1. S \in SUBSET Nat
      <4>1. 0..(n - 1) \subseteq Nat
        BY <1>1
      <4> QED BY <4>1
    <3> HIDE DEF S
    <3> QED BY <3>1, MinExists
  <2>2. SUFFICES ASSUME NEW k \in S, \A x \in S : k <= x PROVE FALSE
    BY <2>1
  <2>3. k \in 1..(n - 1)
    BY <1>1
  <2>4. Parents(B, k) \subseteq L
    BY <1>6 DEF AncestorClosed
  <2>5. \A x \in Parents(B, k) : x < k /\ x \in Nat /\ k \in Nat
    BY <1>1, <2>3
  <2>6. \A x \in Parents(B, k) : B[x].past \subseteq L
    <3>1. ASSUME NEW x \in Parents(B, k) PROVE x \notin S
      <4> HIDE DEF S
      <4>1. x < k /\ x \in Nat /\ k \in Nat
        BY <2>5
      <4> QED BY <2>2, <4>1
    <3> QED BY <2>4, <3>1
  <2>7. B[k].past = Parents(B, k) \cup UNION {B[x].past : x \in Parents(B, k)}
    BY <1>2, <2>3
  <2> QED BY <2>4, <2>6, <2>7
<1> QED BY <1>3, <1>4, <1>5, <1>6

\* The blocks of a graph are its pivot tip, its other tips, and what they lead
\* to.
LEMMA TipsCoverLedger ==
    ASSUME NEW B, NEW n, TableOK(B, n), PastOK(B, n), NEW g, GraphOK(B, n, g), Genesis \in g.ledger
    PROVE  PastOf(B, g.pivotTip, g.tips \ {g.pivotTip}) = g.ledger
<1> DEFINE L == g.ledger
           T == {g.pivotTip} \cup (g.tips \ {g.pivotTip})
           P == PastOf(B, g.pivotTip, g.tips \ {g.pivotTip})
<1>1. /\ L \in SUBSET (0..(n - 1)) /\ AncestorClosed(B, L) /\ g.tips = TipsOf(B, L)
      /\ g.pivotTip \in L /\ n \in Nat
  BY OwnEdges, TableFacts DEF GraphOK, Consistent, TipsExact
<1>2. T \subseteq L /\ g.tips \subseteq T /\ P = T \cup UNION {B[x].past : x \in T}
  BY <1>1 DEF PastOf, TipsOf
<1>3. /\ \A b \in 0..(n - 1) : B[b].past \subseteq 0..(b - 1) /\ Parents(B, b) \subseteq B[b].past
      /\ \A b \in 0..(n - 1) : \A a \in B[b].past : B[a].past \subseteq B[b].past
      /\ \A b \in L : B[b].past \subseteq L
  BY <1>1, PastFacts
<1> HIDE DEF L, P, T
<1>4. P \subseteq L
  BY <1>2, <1>3
<1>5. ASSUME L \ P # {} PROVE FALSE
  <2>1. L \ P \in SUBSET (0..n) /\ L \subseteq 0..(n - 1)
    <3>1. 0..(n - 1) \subseteq 0..n
      BY <1>1
    <3> QED BY <1>1, <3>1
  <2>2. PICK k \in L \ P : \A x \in L \ P : x <= k
    BY <1>1, <1>5, <2>1, MaxExists
  <2>3. PICK c \in L : k \in Parents(B, c)
    BY <1>1, <1>2, <2>2 DEF TipsOf
  <2>4. k \in B[c].past /\ k < c
    BY <1>3, <2>1, <2>3
  <2>5. c \in P
    BY <2>1, <2>2, <2>4
  <2>6. \A x \in T : B[x].past \subseteq P
    BY <1>2
  <2>7. c \notin T
    BY <2>2, <2>4, <2>6
  <2>8. PICK x \in T : c \in B[x].past
    BY <1>2, <2>5, <2>7
  <2>9. B[c].past \subseteq B[x].past
    BY <1>2, <1>3, <2>1, <2>8
  <2> QED BY <2>2, <2>4, <2>6, <2>9
<1> QED BY <1>4, <1>5 DEF L, P

-----------------------------------------------------------------------------
(***************************************************************************)
(* The edges of a block are those the rule gives to its past.              *)
(***************************************************************************)
EdgesFrom(B, b, past) ==
    /\ B[b].parent = GhostTip(B, past)
    /\ B[b].references = TipsOf(B, past) \ {B[b].parent}
    /\ B[b].ancestorNum = Cardinality(past)

\* The rule does not depend on blocks out of the set it is applied to.
LEMMA RuleStays ==
    ASSUME NEW B, NEW n, TableOK(B, n), NEW C, Agree(B, C, n), NEW L \in SUBSET (0..(n - 1))
    PROVE  GhostTip(C, L) = GhostTip(B, L) /\ TipsOf(C, L) = TipsOf(B, L)
<1>1. n \in Nat /\ ChainsOK(B, n) /\ \A b \in 0..(n - 1) : C[b] = B[b]
  BY TableFacts DEF TableOK, Agree
<1>2. \A b : ChildrenIn(C, L, b) = ChildrenIn(B, L, b) /\ Subtree(C, L, b) = Subtree(B, L, b)
  BY <1>1 DEF ChildrenIn, Subtree
<1>3. \A b : SubtreeWeight(C, L, b) = SubtreeWeight(B, L, b)
  BY <1>2 DEF SubtreeWeight
<1>4. ASSUME NEW b, NEW c PROVE IsHeaviestChild(C, L, b, c) <=> IsHeaviestChild(B, L, b, c)
  <2> DEFINE K == ChildrenIn(B, L, b)
  <2>1. K \subseteq 0..(n - 1)
    BY DEF ChildrenIn
  <2> HIDE DEF K
  <2>2. ASSUME NEW x \in K, NEW y \in K
        PROVE  Beats(C, SubtreeWeight(C, L, x), SubtreeWeight(C, L, y), x, y)
                 <=> Beats(B, SubtreeWeight(B, L, x), SubtreeWeight(B, L, y), x, y)
    <3>1. C[x] = B[x] /\ C[y] = B[y]
      BY <1>1, <2>1
    <3> QED BY <1>3, <3>1 DEF Beats
  <2>3. IsHeaviestChild(B, L, b, c) <=>
          /\ c \in K
          /\ \A d \in K \ {c} : Beats(B, SubtreeWeight(B, L, c), SubtreeWeight(B, L, d), c, d)
    BY DEF IsHeaviestChild, K
  <2>4. IsHeaviestChild(C, L, b, c) <=>
          /\ c \in K
          /\ \A d \in K \ {c} : Beats(C, SubtreeWeight(C, L, c), SubtreeWeight(C, L, d), c, d)
    BY <1>2 DEF IsHeaviestChild, K
  <2> QED BY <2>2, <2>3, <2>4
<1>5. GhostChain(C, L) = GhostChain(B, L)
  <2>1. ASSUME NEW b \in L
        PROVE  /\ C[b].chain = B[b].chain
               /\ \A a \in B[b].chain : C[a].parent = B[a].parent
    <3>1. B[b].chain \subseteq 0..b /\ 0..b \subseteq 0..(n - 1)
      BY <1>1 DEF ChainsOK
    <3> QED BY <1>1, <3>1
  <2> QED BY <1>4, <2>1 DEF GhostChain
<1>6. GhostTip(C, L) = GhostTip(B, L)
  BY <1>2, <1>5 DEF GhostTip
<1>7. \A b \in L : Parents(C, b) = Parents(B, b)
  BY <1>1 DEF Parents, IsGenesis
<1> QED BY <1>6, <1>7 DEF TipsOf

\* Neither past nor edges change when the table grows.
LEMMA PastStays ==
    ASSUME NEW B, NEW n, TableOK(B, n), PastOK(B, n), NEW C, Agree(B, C, n)
    PROVE  /\ PastOK(C, n)
           /\ \A b \in 1..(n - 1) : EdgesFrom(B, b, B[b].past) => EdgesFrom(C, b, C[b].past)
<1>1. n \in Nat /\ n >= 1 /\ EdgesOK(B, n) /\ \A b \in 0..(n - 1) : C[b] = B[b]
  BY TableFacts DEF TableOK, Agree
<1>2. ASSUME NEW b \in 1..(n - 1) PROVE C[b].past = PastOf(C, C[b].parent, C[b].references)
  <2> DEFINE p == B[b].parent
             R == B[b].references
  <2>1. p \in 0..(b - 1) /\ R \subseteq 0..(b - 1)
    BY <1>1 DEF EdgesOK
  <2>2. 0..(b - 1) \subseteq 0..(n - 1) /\ b \in 0..(n - 1)
    BY <1>1
  <2>3. \A x \in {p} \cup R : C[x] = B[x]
    BY <1>1, <2>1, <2>2
  <2>4. B[b].past = PastOf(B, p, R)
    BY DEF PastOK
  <2>5. C[b] = B[b]
    BY <1>1, <2>2
  <2> HIDE DEF p, R
  <2>6. PastOf(C, p, R) = PastOf(B, p, R)
    BY <2>3 DEF PastOf
  <2> QED BY <2>4, <2>5, <2>6 DEF p, R
<1>3. PastOK(C, n)
  <2>1. 0 \in 0..(n - 1)
    BY <1>1
  <2> QED BY <1>1, <1>2, <2>1 DEF PastOK
<1>4. ASSUME NEW b \in 1..(n - 1), EdgesFrom(B, b, B[b].past) PROVE EdgesFrom(C, b, C[b].past)
  <2>1. b \in 0..(n - 1) /\ 0..(b - 1) \subseteq 0..(n - 1)
    BY <1>1
  <2>2. B[b].past \in SUBSET (0..(n - 1))
    BY <2>1, PastFacts
  <2>3. /\ GhostTip(C, B[b].past) = GhostTip(B, B[b].past)
        /\ TipsOf(C, B[b].past) = TipsOf(B, B[b].past)
    BY <2>2, RuleStays
  <2> QED BY <1>1, <1>4, <2>1, <2>3 DEF EdgesFrom
<1> QED BY <1>3, <1>4

\* fillNewBlock gives a block the edges of the rule for all its miner knows,
\* and that is its past.
LEMMA OwnBlockPast ==
    ASSUME NEW B, NEW n, TableOK(B, n), PastOK(B, n), n <= MaxBlock,
           NEW g, GraphOK(B, n, g), Genesis \in g.ledger,
           NEW m \in Miners, NEW r \in 0..MaxResidual,
           NEW C, C = FillNewBlock(MineBlock(B, n, m, r), g, n)
    PROVE  /\ PastOK(C, n + 1)
           /\ C[n].past = g.ledger /\ EdgesFrom(C, n, C[n].past)
           /\ \A b \in 1..(n - 1) : EdgesFrom(B, b, B[b].past) => EdgesFrom(C, b, C[b].past)
<1> DEFINE A == MineBlock(B, n, m, r)
           p == g.pivotTip
           R == g.tips \ {g.pivotTip}
           L == g.ledger
<1>1. /\ C = LinkBlock(A, n, p, R, g.totalWeight)
      /\ n \in Nat /\ n \in BlockIds /\ 0..(n - 1) \subseteq BlockIds /\ n >= 1
  BY TableFacts DEF FillNewBlock, BlockIds
<1>2. TableOK(A, n) /\ Agree(B, A, n)
  BY MineKeepsTable
<1>3. Agree(B, C, n) /\ Filled(C, n, m, p, R)
  <2>1. /\ p \in 0..(n - 1) /\ R \in SUBSET (0..(n - 1)) /\ g.totalWeight \in Nat
    BY OwnEdges
  <2> HIDE DEF p, R
  <2> QED BY <1>1, <2>1, NewBlockKeepsGraph
<1>4. C[n].past = PastOf(A, p, R) /\ C[n].ancestorNum = g.totalWeight
  <2>1. A \in [BlockIds -> Block]
    BY <1>2 DEF TableOK
  <2> DEFINE P == PastOf(A, p, R)
             H == A[p].height + 1
             K == A[p].chain \cup {n}
             X == [A[n] EXCEPT !.parent = p, !.references = R, !.height = H,
                               !.ancestorNum = g.totalWeight, !.chain = K, !.past = P]
  <2>2. C = [A EXCEPT ![n] = X]
    BY <1>1 DEF LinkBlock
  <2>3. A[n] \in Block
    BY <1>1, <2>1
  <2>4. X.past = P /\ X.ancestorNum = g.totalWeight
    <3> DEFINE x == A[n]
    <3> HIDE DEF P, H, K, p, R, x
    <3> QED BY <2>3 DEF Block, x
  <2> HIDE DEF X, A
  <2> QED BY <1>1, <2>1, <2>2, <2>4
<1>5. PastOf(A, p, R) = PastOf(B, p, R)
  <2>1. \A x \in {p} \cup R : A[x] = B[x]
    <3>1. p \in 0..(n - 1) /\ R \in SUBSET (0..(n - 1))
      BY OwnEdges
    <3> HIDE DEF A, p, R
    <3> QED BY <1>2, <3>1 DEF Agree
  <2> HIDE DEF A, p, R
  <2> QED BY <2>1 DEF PastOf
<1>6. C[n].past = L
  BY <1>4, <1>5, TipsCoverLedger
<1>7. C[n].parent = p /\ C[n].references = R
  BY <1>3 DEF Filled
<1>8. PastOK(C, n) /\ \A b \in 1..(n - 1) : EdgesFrom(B, b, B[b].past) => EdgesFrom(C, b, C[b].past)
  BY <1>3, PastStays
<1>9. C[n].past = PastOf(C, C[n].parent, C[n].references)
  <2>1. PastOf(C, p, R) = PastOf(B, p, R)
    <3>1. p \in 0..(n - 1) /\ R \in SUBSET (0..(n - 1))
      BY OwnEdges
    <3> HIDE DEF p, R
    <3>2. \A x \in {p} \cup R : C[x] = B[x]
      BY <1>3, <3>1 DEF Agree
    <3> QED BY <3>2 DEF PastOf
  <2> QED BY <1>4, <1>5, <1>7, <2>1
<1>10. PastOK(C, n + 1)
  <2> DEFINE k == n + 1
  <2>1. \A b \in 1..(k - 1) : b \in 1..(n - 1) \/ b = n
    BY <1>1
  <2> HIDE DEF k
  <2>2. C[0].past = {} /\ \A b \in 1..(n - 1) : C[b].past = PastOf(C, C[b].parent, C[b].references)
    BY <1>8 DEF PastOK
  <2>3. \A b \in 1..(k - 1) : C[b].past = PastOf(C, C[b].parent, C[b].references)
    BY <1>9, <2>1, <2>2
  <2>4. PastOK(C, k)
    BY <2>2, <2>3 DEF PastOK
  <2> QED BY <2>4 DEF k
<1>11. EdgesFrom(C, n, L)
  <2>1. L \in SUBSET (0..(n - 1)) /\ L # {} /\ g.tips = TipsOf(B, L) /\ g.totalWeight = Cardinality(L)
    BY DEF GraphOK, Consistent, TipsExact, WeightsExact
  <2>2. p = GhostTip(B, L)
    BY <2>1, PivotTipIsGhostTip
  <2>3. GhostTip(C, L) = GhostTip(B, L) /\ TipsOf(C, L) = TipsOf(B, L)
    BY <1>3, <2>1, RuleStays
  <2> QED BY <1>4, <1>7, <2>1, <2>2, <2>3 DEF EdgesFrom
<1> QED BY <1>6, <1>8, <1>10, <1>11


-----------------------------------------------------------------------------
(***************************************************************************)
(* What the handlers of HonestMiner do to any state of the miner, for      *)
(* every number of blocks.  The scans of insertCache are a recursive       *)
(* function of the number of scans; what holds after all of them follows   *)
(* by induction on that number, from what one scan does.                   *)
(***************************************************************************)

-----------------------------------------------------------------------------
(***************************************************************************)
(* Sequences.                                                              *)
(***************************************************************************)
\* The values of a sequence.
LEMMA ToSetIs ==
    ASSUME NEW S, NEW c \in Seq(S)
    PROVE  ToSet(c) = {c[i] : i \in 1..Len(c)} /\ ToSet(c) \subseteq S
BY DEF ToSet

\* Removing an entry of a list leaves the others, in their order.
LEMMA RemoveAtFacts ==
    ASSUME NEW S, NEW c \in Seq(S), NEW i \in 1..Len(c)
    PROVE  /\ RemoveAt(c, i) \in Seq(S) /\ Len(RemoveAt(c, i)) = Len(c) - 1
           /\ \A j \in 1..(Len(c) - 1) : RemoveAt(c, i)[j] = IF j < i THEN c[j] ELSE c[j + 1]
<1> DEFINE u == SubSeq(c, 1, i - 1)
           v == SubSeq(c, i + 1, Len(c))
<1>1. Len(c) \in Nat /\ i \in Nat /\ i >= 1 /\ i <= Len(c)
  OBVIOUS
<1>2. u \in Seq(S) /\ Len(u) = i - 1 /\ \A j \in 1..(i - 1) : u[j] = c[j]
  <2>1. /\ \A j \in 1..(i - 1) : c[j] \in S
    BY <1>1
  <2>2. /\ SubSeq(c, 1, i - 1) \in Seq(S)
        /\ Len(SubSeq(c, 1, i - 1)) = IF 1 <= i - 1 THEN i - 1 - 1 + 1 ELSE 0
        /\ \A j \in 1..(i - 1 - 1 + 1) : SubSeq(c, 1, i - 1)[j] = c[1 + j - 1]
    BY <1>1, <2>1, SubSeqProperties
  <2> QED BY <1>1, <2>2
<1>3. v \in Seq(S) /\ Len(v) = Len(c) - i /\ \A j \in 1..(Len(c) - i) : v[j] = c[i + j]
  <2>1. /\ \A j \in (i + 1)..Len(c) : c[j] \in S
    BY <1>1
  <2>2. /\ SubSeq(c, i + 1, Len(c)) \in Seq(S)
        /\ Len(SubSeq(c, i + 1, Len(c))) = IF i + 1 <= Len(c) THEN Len(c) - (i + 1) + 1 ELSE 0
        /\ \A j \in 1..(Len(c) - (i + 1) + 1) : SubSeq(c, i + 1, Len(c))[j] = c[i + 1 + j - 1]
    BY <1>1, <2>1, SubSeqProperties
  <2> QED BY <1>1, <2>2
<1>4. RemoveAt(c, i) = u \o v
  BY DEF RemoveAt
<1> HIDE DEF u, v
<1>5. /\ u \o v \in Seq(S) /\ Len(u \o v) = Len(u) + Len(v)
      /\ \A j \in 1..(Len(u) + Len(v)) :
            (u \o v)[j] = IF j <= Len(u) THEN u[j] ELSE v[j - Len(u)]
  BY <1>2, <1>3, ConcatProperties
<1>6. ASSUME NEW j \in 1..(Len(c) - 1)
      PROVE  RemoveAt(c, i)[j] = IF j < i THEN c[j] ELSE c[j + 1]
  <2>1. RemoveAt(c, i)[j] = IF j <= i - 1 THEN u[j] ELSE v[j - (i - 1)]
    BY <1>1, <1>2, <1>3, <1>4, <1>5
  <2>2. CASE j < i
    BY <1>1, <1>2, <2>1, <2>2
  <2>3. CASE ~ (j < i)
    <3>1. j - (i - 1) \in 1..(Len(c) - i) /\ i + (j - (i - 1)) = j + 1
      BY <1>1, <2>3
    <3> QED BY <1>1, <1>3, <2>1, <2>3, <3>1, SMTT(60)
  <2> QED BY <2>2, <2>3
<1> QED BY <1>1, <1>2, <1>3, <1>4, <1>5, <1>6

\* The values of the list that is left.
LEMMA RemoveAtValues ==
    ASSUME NEW S, NEW c \in Seq(S), NEW i \in 1..Len(c)
    PROVE  /\ ToSet(c) = ToSet(RemoveAt(c, i)) \cup {c[i]}
           /\ IsInjective(c) => IsInjective(RemoveAt(c, i)) /\ c[i] \notin ToSet(RemoveAt(c, i))
<1> DEFINE d == RemoveAt(c, i)
<1>1. /\ d \in Seq(S) /\ Len(d) = Len(c) - 1
      /\ \A j \in 1..(Len(c) - 1) : d[j] = IF j < i THEN c[j] ELSE c[j + 1]
  BY RemoveAtFacts
<1>2. Len(c) \in Nat /\ i \in Nat /\ i >= 1 /\ i <= Len(c)
  OBVIOUS
<1> HIDE DEF d
<1>3. /\ ToSet(c) = {c[j] : j \in 1..Len(c)} /\ ToSet(d) = {d[j] : j \in 1..Len(d)}
      /\ DOMAIN c = 1..Len(c) /\ DOMAIN d = 1..Len(d)
  BY <1>1, ToSetIs
<1>4. ASSUME NEW j \in 1..Len(c), j # i PROVE c[j] \in ToSet(d)
  <2>1. CASE j < i
    <3>1. j \in 1..Len(d) /\ d[j] = c[j]
      BY <1>1, <1>2, <2>1
    <3> QED BY <1>3, <3>1
  <2>2. CASE j > i
    <3>1. j - 1 \in 1..Len(d) /\ d[j - 1] = c[j]
      BY <1>1, <1>2, <2>2
    <3> QED BY <1>3, <3>1
  <2> QED BY <1>2, <1>4, <2>1, <2>2
<1>5. ASSUME NEW j \in 1..Len(d) PROVE \E k \in 1..Len(c) : k # i /\ d[j] = c[k] /\ k = IF j < i THEN j ELSE j + 1
  BY <1>1, <1>2
<1>6. ToSet(c) = ToSet(d) \cup {c[i]}
  BY <1>3, <1>4, <1>5
<1>7. ASSUME IsInjective(c) PROVE IsInjective(d) /\ c[i] \notin ToSet(d)
  <2>1. \A j, k \in 1..Len(c) : c[j] = c[k] => j = k
    BY <1>3, <1>7 DEF IsInjective
  <2>2. ASSUME NEW j \in 1..Len(d), NEW k \in 1..Len(d), d[j] = d[k] PROVE j = k
    <3>1. PICK a \in 1..Len(c) : d[j] = c[a] /\ a = IF j < i THEN j ELSE j + 1
      BY <1>5
    <3>2. PICK e \in 1..Len(c) : d[k] = c[e] /\ e = IF k < i THEN k ELSE k + 1
      BY <1>5
    <3>3. a = e
      BY <2>1, <2>2, <3>1, <3>2
    <3> QED BY <1>1, <1>2, <3>1, <3>2, <3>3
  <2>3. c[i] \notin ToSet(d)
    BY <1>3, <1>5, <2>1
  <2> QED BY <1>3, <2>2, <2>3 DEF IsInjective
<1> QED BY <1>6, <1>7 DEF d

\* Appending to a list.
LEMMA AppendValues ==
    ASSUME NEW S, NEW c \in Seq(S), NEW e \in S
    PROVE  /\ Append(c, e) \in Seq(S) /\ Len(Append(c, e)) = Len(c) + 1
           /\ \A j \in 1..Len(c) : Append(c, e)[j] = c[j]
           /\ Append(c, e)[Len(c) + 1] = e
           /\ ToSet(Append(c, e)) = ToSet(c) \cup {e}
           /\ IsInjective(c) /\ e \notin ToSet(c) => IsInjective(Append(c, e))
<1> DEFINE d == Append(c, e)
<1>1. /\ d \in Seq(S) /\ Len(d) = Len(c) + 1
      /\ \A j \in 1..Len(c) : d[j] = c[j]
      /\ d[Len(c) + 1] = e /\ Len(c) \in Nat
  BY AppendProperties
<1> HIDE DEF d
<1>2. /\ ToSet(c) = {c[j] : j \in 1..Len(c)} /\ ToSet(d) = {d[j] : j \in 1..Len(d)}
      /\ DOMAIN c = 1..Len(c) /\ DOMAIN d = 1..Len(d)
  BY <1>1, ToSetIs
<1>3. \A j \in 1..Len(d) : j \in 1..Len(c) \/ j = Len(c) + 1
  BY <1>1
<1>4. \A j \in 1..Len(c) : j \in 1..Len(d)
  BY <1>1
<1>5. Len(c) + 1 \in 1..Len(d)
  BY <1>1
<1>6. ToSet(d) = ToSet(c) \cup {e}
  BY <1>1, <1>2, <1>3, <1>4, <1>5
<1>7. IsInjective(c) /\ e \notin ToSet(c) => IsInjective(d)
  BY <1>1, <1>2, <1>3 DEF IsInjective
<1> QED BY <1>1, <1>6, <1>7 DEF d

-----------------------------------------------------------------------------
(***************************************************************************)
(* Blocks entering a graph.                                                *)
(***************************************************************************)
\* The blocks of rel have entered a graph that held L, one by one, each after
\* its parent and the blocks it refers to; now the graph holds M.
Entered(B, L, rel, M) ==
    /\ IsInjective(rel) /\ M = L \cup ToSet(rel) /\ L \cap ToSet(rel) = {}
    /\ \A j \in 1..Len(rel) : \A a \in Parents(B, rel[j]) :
          a \in L \/ \E i \in 1..(j - 1) : rel[i] = a

\* Another one enters.
LEMMA EnteredAppend ==
    ASSUME NEW B, NEW L, NEW S, NEW rel \in Seq(S), NEW M, Entered(B, L, rel, M),
           NEW e \in S, e \notin M, Parents(B, e) \subseteq M
    PROVE  Entered(B, L, Append(rel, e), M \cup {e})
<1> DEFINE d == Append(rel, e)
<1>1. /\ d \in Seq(S) /\ Len(d) = Len(rel) + 1 /\ Len(rel) \in Nat
      /\ \A j \in 1..Len(rel) : d[j] = rel[j]
      /\ d[Len(rel) + 1] = e
      /\ ToSet(d) = ToSet(rel) \cup {e}
      /\ IsInjective(rel) /\ e \notin ToSet(rel) => IsInjective(d)
  BY AppendValues
<1>2. ToSet(rel) = {rel[j] : j \in 1..Len(rel)}
  BY ToSetIs
<1> HIDE DEF d
<1>3. /\ IsInjective(rel) /\ M = L \cup ToSet(rel) /\ L \cap ToSet(rel) = {}
      /\ \A j \in 1..Len(rel) : \A a \in Parents(B, rel[j]) :
            a \in L \/ \E i \in 1..(j - 1) : rel[i] = a
  BY DEF Entered
<1>4. ASSUME NEW j \in 1..Len(d), NEW a \in Parents(B, d[j])
      PROVE  a \in L \/ \E i \in 1..(j - 1) : d[i] = a
  <2>1. CASE j \in 1..Len(rel)
    <3>1. a \in L \/ \E i \in 1..(j - 1) : rel[i] = a
      BY <1>1, <1>3, <1>4, <2>1
    <3>2. \A i \in 1..(j - 1) : d[i] = rel[i]
      BY <1>1, <2>1
    <3> QED BY <3>1, <3>2
  <2>2. CASE j = Len(rel) + 1
    <3>1. a \in L \/ a \in ToSet(rel)
      BY <1>1, <1>3, <1>4, <2>2
    <3>2. ASSUME NEW i \in 1..Len(rel), rel[i] = a PROVE i \in 1..(j - 1) /\ d[i] = a
      BY <1>1, <2>2, <3>2
    <3> QED BY <1>2, <3>1, <3>2
  <2> QED BY <1>1, <2>1, <2>2
<1> QED BY <1>1, <1>3, <1>4 DEF Entered, d

\* The sequence of a single block.
LEMMA EnteredOne ==
    ASSUME NEW B, NEW L, NEW e, e \notin L, Parents(B, e) \subseteq L
    PROVE  Entered(B, L, <<e>>, L \cup {e})
<1>1. <<e>> \in Seq({e}) /\ Len(<<e>>) = 1 /\ <<e>>[1] = e /\ DOMAIN <<e>> = {1}
  OBVIOUS
<1>2. ToSet(<<e>>) = {e}
  BY <1>1 DEF ToSet
<1>3. IsInjective(<<e>>)
  BY <1>1 DEF IsInjective
<1>4. \A j \in 1..Len(<<e>>) : <<e>>[j] = e
  BY <1>1
<1> QED BY <1>2, <1>3, <1>4 DEF Entered

\* The empty one.
LEMMA EnteredNone == ASSUME NEW B, NEW L PROVE Entered(B, L, <<>>, L)
<1>1. Len(<<>>) = 0 /\ DOMAIN <<>> = {}
  OBVIOUS
<1>2. ToSet(<<>>) = {} /\ IsInjective(<<>>)
  BY <1>1 DEF ToSet, IsInjective
<1> QED BY <1>1, <1>2 DEF Entered

\* Two stretches of entering blocks are one.
LEMMA EnteredConcat ==
    ASSUME NEW B, NEW S, NEW L, NEW rel \in Seq(S), NEW M, Entered(B, L, rel, M),
           NEW more \in Seq(S), NEW N, Entered(B, M, more, N)
    PROVE  /\ Entered(B, L, rel \o more, N)
           /\ rel \o more \in Seq(S)
<1> DEFINE d == rel \o more
<1>1. /\ d \in Seq(S) /\ Len(d) = Len(rel) + Len(more) /\ Len(rel) \in Nat /\ Len(more) \in Nat
      /\ \A j \in 1..(Len(rel) + Len(more)) :
            d[j] = IF j <= Len(rel) THEN rel[j] ELSE more[j - Len(rel)]
  BY ConcatProperties
<1> HIDE DEF d
<1>2. /\ ToSet(rel) = {rel[j] : j \in 1..Len(rel)} /\ DOMAIN rel = 1..Len(rel)
      /\ ToSet(more) = {more[j] : j \in 1..Len(more)} /\ DOMAIN more = 1..Len(more)
      /\ ToSet(d) = {d[j] : j \in 1..Len(d)} /\ DOMAIN d = 1..Len(d)
  <2>1. DOMAIN rel = 1..Len(rel) /\ DOMAIN more = 1..Len(more) /\ DOMAIN d = 1..Len(d)
    BY <1>1
  <2> QED BY <2>1 DEF ToSet
<1>3. /\ IsInjective(rel) /\ M = L \cup ToSet(rel) /\ L \cap ToSet(rel) = {}
      /\ \A j \in 1..Len(rel) : \A a \in Parents(B, rel[j]) :
            a \in L \/ \E i \in 1..(j - 1) : rel[i] = a
  BY DEF Entered
<1>4. /\ IsInjective(more) /\ N = M \cup ToSet(more) /\ M \cap ToSet(more) = {}
      /\ \A j \in 1..Len(more) : \A a \in Parents(B, more[j]) :
            a \in M \/ \E i \in 1..(j - 1) : more[i] = a
  BY DEF Entered
<1>5. /\ \A j \in 1..Len(rel) : j \in 1..Len(d) /\ d[j] = rel[j]
      /\ \A j \in 1..Len(more) : Len(rel) + j \in 1..Len(d) /\ d[Len(rel) + j] = more[j]
  <2>1. ASSUME NEW j \in 1..Len(more) PROVE Len(rel) + j \in 1..Len(d) /\ d[Len(rel) + j] = more[j]
    <3>1. Len(rel) + j - Len(rel) = j /\ ~ (Len(rel) + j <= Len(rel)) /\ Len(rel) + j \in 1..Len(d)
      BY <1>1
    <3> QED BY <1>1, <3>1
  <2> QED BY <1>1, <2>1
<1>6. ASSUME NEW j \in 1..Len(d)
      PROVE  \/ j \in 1..Len(rel) /\ d[j] = rel[j]
             \/ j - Len(rel) \in 1..Len(more) /\ d[j] = more[j - Len(rel)]
  BY <1>1
<1>7. ToSet(d) = ToSet(rel) \cup ToSet(more)
  BY <1>2, <1>5, <1>6
<1>8. IsInjective(d)
  <2>1. ASSUME NEW j \in 1..Len(d), NEW k \in 1..Len(d), d[j] = d[k] PROVE j = k
    <3>1. CASE j \in 1..Len(rel) /\ d[j] = rel[j] /\ k \in 1..Len(rel) /\ d[k] = rel[k]
      BY <1>2, <1>3, <2>1, <3>1 DEF IsInjective
    <3>2. CASE /\ j - Len(rel) \in 1..Len(more) /\ d[j] = more[j - Len(rel)]
               /\ k - Len(rel) \in 1..Len(more) /\ d[k] = more[k - Len(rel)]
      <4>1. j - Len(rel) = k - Len(rel)
        BY <1>2, <1>4, <2>1, <3>2 DEF IsInjective
      <4> QED BY <1>1, <4>1
    <3>3. CASE /\ j \in 1..Len(rel) /\ d[j] = rel[j]
               /\ k - Len(rel) \in 1..Len(more) /\ d[k] = more[k - Len(rel)]
      <4>1. rel[j] \in ToSet(rel) /\ more[k - Len(rel)] \in ToSet(more)
        BY <1>2, <3>3
      <4> QED BY <1>3, <1>4, <2>1, <3>3, <4>1
    <3>4. CASE /\ k \in 1..Len(rel) /\ d[k] = rel[k]
               /\ j - Len(rel) \in 1..Len(more) /\ d[j] = more[j - Len(rel)]
      <4>1. rel[k] \in ToSet(rel) /\ more[j - Len(rel)] \in ToSet(more)
        BY <1>2, <3>4
      <4> QED BY <1>3, <1>4, <2>1, <3>4, <4>1
    <3> QED BY <1>6, <3>1, <3>2, <3>3, <3>4
  <2> QED BY <1>2, <2>1 DEF IsInjective
<1>9. ASSUME NEW j \in 1..Len(d), NEW a \in Parents(B, d[j])
      PROVE  a \in L \/ \E i \in 1..(j - 1) : d[i] = a
  <2>1. CASE j \in 1..Len(rel) /\ d[j] = rel[j]
    <3>1. a \in L \/ \E i \in 1..(j - 1) : rel[i] = a
      BY <1>3, <1>9, <2>1
    <3>2. \A i \in 1..(j - 1) : d[i] = rel[i]
      BY <1>1, <1>5, <2>1
    <3> QED BY <3>1, <3>2
  <2>2. CASE j - Len(rel) \in 1..Len(more) /\ d[j] = more[j - Len(rel)]
    <3>1. a \in M \/ \E i \in 1..(j - Len(rel) - 1) : more[i] = a
      BY <1>4, <1>9, <2>2
    <3>2. ASSUME NEW i \in 1..(j - Len(rel) - 1), more[i] = a
          PROVE  \E k \in 1..(j - 1) : d[k] = a
      <4>1. i \in 1..Len(more) /\ Len(rel) + i \in 1..(j - 1)
        BY <1>1, <2>2
      <4> QED BY <1>5, <3>2, <4>1
    <3>3. ASSUME NEW i \in 1..Len(rel), rel[i] = a
          PROVE  \E k \in 1..(j - 1) : d[k] = a
      <4>1. i \in 1..(j - 1)
        BY <1>1, <2>2
      <4> QED BY <1>5, <3>3, <4>1
    <3> QED BY <1>2, <1>3, <3>1, <3>2, <3>3
  <2> QED BY <1>6, <2>1, <2>2
<1>10. N = L \cup ToSet(d) /\ L \cap ToSet(d) = {}
  BY <1>3, <1>4, <1>7
<1> QED BY <1>1, <1>8, <1>9, <1>10 DEF Entered, d

-----------------------------------------------------------------------------
(***************************************************************************)
(* insertCache.                                                            *)
(***************************************************************************)
\* insert fails on every block of list c.
Drained(B, g, c) == \A i \in 1..Len(c) : InsertResult(B, g, c[i]) = "Fail"

ScanState(n) == [graph   : Graph,
                 cache   : Seq(0..(n - 1)),
                 relays  : Seq(0..(n - 1)),
                 updated : BOOLEAN]

\* What holds between two scans of a cache that had the blocks of W when the
\* graph had those of M: none has got lost, and what has entered the graph
\* since it held L is in relays.  If no block was twice in the cache or in
\* the graph already (clear), that is still so and a scan that does not update
\* finds nothing to insert.
ScanOK(B, n, L, M, W, clear, s) ==
    /\ s \in ScanState(n)
    /\ GraphOK(B, n, s.graph)
    /\ M \subseteq s.graph.ledger
    /\ s.graph.ledger \cup ToSet(s.cache) = M \cup W /\ ToSet(s.cache) \subseteq W
    /\ Entered(B, L, s.relays, s.graph.ledger)
    /\ clear => /\ IsInjective(s.cache) /\ ToSet(s.cache) \cap s.graph.ledger = {}
                /\ ~ s.updated => Drained(B, s.graph, s.cache)

\* One scan keeps it, and removes a block if it updates.
LEMMA ScanKeeps ==
    ASSUME NEW B, NEW n, TableOK(B, n), NEW L, NEW M, NEW W, NEW clear \in BOOLEAN,
           NEW s, ScanOK(B, n, L, M, W, clear, s)
    PROVE  /\ ScanOK(B, n, L, M, W, clear, ScanCache(B, s))
           /\ ScanCache(B, s).updated => Len(ScanCache(B, s).cache) = Len(s.cache) - 1
<1> DEFINE c == s.cache
           g == s.graph
           hits == {i \in DOMAIN s.cache : InsertResult(B, s.graph, s.cache[i]) # "Fail"}
           i == CHOOSE j \in hits : \A k \in hits : j <= k
           r == ScanCache(B, s)
<1>1. /\ s \in ScanState(n) /\ GraphOK(B, n, g) /\ M \subseteq g.ledger
      /\ g.ledger \cup ToSet(c) = M \cup W /\ ToSet(c) \subseteq W /\ Entered(B, L, s.relays, g.ledger)
      /\ clear => IsInjective(c) /\ ToSet(c) \cap g.ledger = {}
  BY DEF ScanOK
<1>2. /\ c \in Seq(0..(n - 1)) /\ s.relays \in Seq(0..(n - 1)) /\ g \in Graph
      /\ DOMAIN c = 1..Len(c) /\ Len(c) \in Nat
  <2>1. c \in Seq(0..(n - 1)) /\ s.relays \in Seq(0..(n - 1)) /\ g \in Graph
    BY <1>1 DEF ScanState
  <2> QED BY <2>1, LenProperties
<1>3. r = IF hits = {} THEN [s EXCEPT !.updated = FALSE]
          ELSE IF InsertResult(B, s.graph, s.cache[i]) = "Existing"
          THEN [s EXCEPT !.cache = RemoveAt(s.cache, i), !.updated = FALSE]
          ELSE InsertCached(B, s, i)
  BY DEF ScanCache
<1>4. CASE hits = {}
  <2>1. /\ r \in ScanState(n) /\ r.graph = g /\ r.cache = c /\ r.relays = s.relays
        /\ r.updated = FALSE
    <3> HIDE DEF hits, i
    <3> QED BY <1>1, <1>3, <1>4 DEF ScanState
  <2>2. Drained(B, g, c)
    BY <1>2, <1>4 DEF Drained
  <2> HIDE DEF r
  <2> QED BY <1>1, <2>1, <2>2 DEF ScanOK, r
<1>5. CASE hits # {}
  <2>1. i \in hits
    <3>1. hits \in SUBSET Nat
      BY <1>2
    <3>2. \E j \in hits : \A k \in hits : j <= k
      <4> HIDE DEF hits
      <4> QED BY <1>5, <3>1, MinExists
    <3> HIDE DEF hits
    <3> QED BY <3>2
  <2> HIDE DEF i, r
  <2>2. i \in 1..Len(c) /\ InsertResult(B, g, c[i]) # "Fail" /\ c[i] \in 0..(n - 1)
    <3>1. i \in DOMAIN c /\ InsertResult(B, g, c[i]) # "Fail"
      BY <2>1
    <3> QED BY <1>2, <3>1, ElementOfSeq
  <2> HIDE DEF hits
  <2>3. /\ RemoveAt(c, i) \in Seq(0..(n - 1)) /\ Len(RemoveAt(c, i)) = Len(c) - 1
        /\ ToSet(c) = ToSet(RemoveAt(c, i)) \cup {c[i]}
        /\ IsInjective(c) => IsInjective(RemoveAt(c, i)) /\ c[i] \notin ToSet(RemoveAt(c, i))
    <3> DEFINE S == 0..(n - 1)
    <3>1. c \in Seq(S)
      BY <1>2
    <3> HIDE DEF S
    <3>2. /\ RemoveAt(c, i) \in Seq(S) /\ Len(RemoveAt(c, i)) = Len(c) - 1
          /\ ToSet(c) = ToSet(RemoveAt(c, i)) \cup {c[i]}
          /\ IsInjective(c) => IsInjective(RemoveAt(c, i)) /\ c[i] \notin ToSet(RemoveAt(c, i))
      BY <2>2, <3>1, RemoveAtFacts, RemoveAtValues
    <3> QED BY <3>2 DEF S
  <2>4. c[i] \in ToSet(c)
    BY <2>3
  <2>5. CASE c[i] \in g.ledger
    <3>1. InsertResult(B, g, c[i]) = "Existing"
      BY <2>5 DEF InsertResult
    <3>2. /\ r \in ScanState(n) /\ r.graph = g /\ r.cache = RemoveAt(c, i)
          /\ r.relays = s.relays /\ r.updated = FALSE
      BY <1>1, <1>3, <1>5, <2>3, <3>1 DEF ScanState
    <3>3. ~ clear
      BY <1>1, <2>4, <2>5
    <3>4. g.ledger \cup ToSet(RemoveAt(c, i)) = M \cup W /\ ToSet(RemoveAt(c, i)) \subseteq W
      BY <1>1, <2>3, <2>5
    <3> QED BY <1>1, <3>2, <3>3, <3>4 DEF ScanOK, r
  <2>6. CASE c[i] \notin g.ledger
    <3>1. InsertResult(B, g, c[i]) = "Success" /\ Parents(B, c[i]) \subseteq g.ledger
      BY <2>2, <2>6 DEF InsertResult, SeenAllAncestors
    <3>2. GraphOK(B, n, Insert(B, g, c[i]))
      BY <1>1, <2>2, InsertKeepsGraph
    <3>3. Insert(B, g, c[i]).ledger = g.ledger \cup {c[i]}
      <4>1. GraphOK(B, n, g) /\ c[i] \in 0..(n - 1)
        BY <1>1, <2>2
      <4> QED BY <3>1, <4>1, InsertLedger
    <3>4. Append(s.relays, c[i]) \in Seq(0..(n - 1))
      BY <1>2, <2>2, AppendValues
    <3>5. Entered(B, L, Append(s.relays, c[i]), g.ledger \cup {c[i]})
      BY <1>1, <1>2, <2>2, <2>6, <3>1, EnteredAppend
    <3>6. r = [graph |-> Insert(B, g, c[i]), cache |-> RemoveAt(c, i),
               relays |-> Append(s.relays, c[i]), updated |-> TRUE]
      BY <1>3, <1>5, <3>1 DEF InsertCached
    <3> HIDE DEF c, g
    <3>7. /\ r.graph = Insert(B, g, c[i]) /\ r.cache = RemoveAt(c, i)
          /\ r.relays = Append(s.relays, c[i]) /\ r.updated = TRUE
      BY <3>6
    <3>8. Insert(B, g, c[i]) \in Graph
      BY <3>2 DEF GraphOK
    <3>9. r \in ScanState(n)
      BY <2>3, <3>4, <3>6, <3>8 DEF ScanState
    <3>10. r.graph.ledger \cup ToSet(r.cache) = M \cup W /\ ToSet(r.cache) \subseteq W
      BY <1>1, <2>3, <3>3, <3>7
    <3>11. clear => IsInjective(r.cache) /\ ToSet(r.cache) \cap r.graph.ledger = {}
      BY <1>1, <2>3, <3>3, <3>7
    <3>12. Len(r.cache) = Len(c) - 1
      BY <2>3, <3>7
    <3>13. Len(r.cache) = Len(s.cache) - 1
      BY <3>12 DEF c
    <3>14. ScanOK(B, n, L, M, W, clear, r)
      BY <1>1, <3>2, <3>3, <3>5, <3>7, <3>9, <3>10, <3>11 DEF ScanOK
    <3> QED BY <3>13, <3>14 DEF r
  <2> QED BY <2>5, <2>6
<1> QED BY <1>4, <1>5

\* The scans of insertCache, one after the other, when they stay in V.
ScansOf(h, B, V, s) ==
    /\ h \in [Nat -> V] /\ h[0] = s
    /\ \A k \in Nat : h[k + 1] = IF h[k].updated THEN ScanCache(B, h[k]) ELSE h[k]
    /\ InsertCache(B, s) = h[Len(s.cache) + 1]

LEMMA ScansExist ==
    ASSUME NEW B, NEW V, NEW s \in V, \A x \in V : ScanCache(B, x) \in V
    PROVE  \E h : ScansOf(h, B, V, s)
<1> DEFINE step == [x \in V |-> IF x.updated THEN ScanCache(B, x) ELSE x]
           Scans(f) == f = [k \in Nat |-> IF k = 0 THEN s
                                          ELSE IF f[k - 1].updated THEN ScanCache(B, f[k - 1])
                                          ELSE f[k - 1]]
           h == CHOOSE f : Scans(f)
<1>1. InsertCache(B, s) = h[Len(s.cache) + 1]
  BY DEF InsertCache
<1>2. PICK f : Iterates(f, V, s, step)
  <2>1. step \in [V -> V]
    OBVIOUS
  <2> HIDE DEF step, Scans
  <2> QED BY <2>1, IterationExists
<1>3. Scans(f)
  <2>1. ASSUME NEW k \in Nat
        PROVE  f[k] = IF k = 0 THEN s
                      ELSE IF f[k - 1].updated THEN ScanCache(B, f[k - 1]) ELSE f[k - 1]
    <3>1. CASE k = 0
      BY <1>2, <3>1 DEF Iterates
    <3>2. CASE k # 0
      <4>1. k - 1 \in Nat /\ k = k - 1 + 1
        BY <3>2
      <4>2. f[k] = step[f[k - 1]] /\ f[k - 1] \in V
        BY <1>2, <4>1 DEF Iterates
      <4> QED BY <3>2, <4>2
    <3> QED BY <3>1, <3>2
  <2> HIDE DEF step
  <2> QED BY <1>2, <2>1 DEF Iterates
<1>4. Scans(h)
  <2> HIDE DEF Scans
  <2> QED BY <1>3
<1>5. \A k \in Nat : h[k] = IF k = 0 THEN s
                            ELSE IF h[k - 1].updated THEN ScanCache(B, h[k - 1]) ELSE h[k - 1]
  <2> HIDE DEF h
  <2> QED BY <1>4
<1>6. DOMAIN h = Nat /\ h = [k \in Nat |-> h[k]]
  <2> HIDE DEF h
  <2> QED BY <1>4
<1> HIDE DEF h, step, Scans
<1>7. h[0] = s
  BY <1>5
<1>8. ASSUME NEW k \in Nat
      PROVE  h[k + 1] = IF h[k].updated THEN ScanCache(B, h[k]) ELSE h[k]
  <2>1. k + 1 \in Nat /\ k + 1 # 0 /\ k + 1 - 1 = k
    OBVIOUS
  <2> QED BY <1>5, <2>1
<1>9. \A k \in Nat : h[k] \in V
  <2> DEFINE P == {k \in Nat : h[k] \in V}
  <2>1. 0 \in P
    BY <1>7
  <2>2. ASSUME NEW k \in P PROVE k + 1 \in P
    BY <1>8
  <2>3. P \in SUBSET Nat
    OBVIOUS
  <2> HIDE DEF P
  <2>4. P = Nat
    BY <2>1, <2>2, <2>3, NatSubset
  <2> QED BY <2>4 DEF P
<1>10. h \in [Nat -> V]
  BY <1>6, <1>9
<1>11. ScansOf(h, B, V, s)
  BY <1>1, <1>7, <1>8, <1>10 DEF ScansOf
<1> QED BY <1>11

\* All of them: the last one does not update.
LEMMA InsertCacheOK ==
    ASSUME NEW B, NEW n, TableOK(B, n), NEW L, NEW M, NEW W, NEW clear \in BOOLEAN,
           NEW s, ScanOK(B, n, L, M, W, clear, s)
    PROVE  /\ ScanOK(B, n, L, M, W, clear, InsertCache(B, s))
           /\ ~ InsertCache(B, s).updated
<1> DEFINE V == {x \in ScanState(n) : ScanOK(B, n, L, M, W, clear, x)}
           N == Len(s.cache)
<1>1. s \in V
  BY DEF ScanOK
<1>2. \A x \in V : ScanCache(B, x) \in V
  <2>1. ASSUME NEW x \in V PROVE ScanCache(B, x) \in V
    <3>1. ScanOK(B, n, L, M, W, clear, x)
      OBVIOUS
    <3>2. ScanOK(B, n, L, M, W, clear, ScanCache(B, x))
      BY <3>1, ScanKeeps
    <3> QED BY <3>2 DEF ScanOK
  <2> QED BY <2>1
<1>3. PICK h : ScansOf(h, B, V, s)
  <2> HIDE DEF V
  <2> QED BY <1>1, <1>2, ScansExist
<1>4. /\ h \in [Nat -> V] /\ h[0] = s
      /\ \A k \in Nat : h[k + 1] = IF h[k].updated THEN ScanCache(B, h[k]) ELSE h[k]
      /\ InsertCache(B, s) = h[N + 1]
  <2> HIDE DEF V
  <2> QED BY <1>3 DEF ScansOf
<1> DEFINE len(k) == Len(h[k].cache)
           Left(k) == len(k) + k <= N
           P == {k \in Nat : h[k] \in V /\ (h[k].updated => Left(k))}
<1> HIDE DEF V
<1>5. \A x \in V : x \in ScanState(n) /\ ScanOK(B, n, L, M, W, clear, x)
  BY DEF V
<1>6. \A x \in V : Len(x.cache) \in Nat
  BY <1>5 DEF ScanState
<1>7. 0 \in P
  <2>1. h[0] = s /\ N \in Nat
    BY <1>1, <1>4, <1>6
  <2> QED BY <1>1, <2>1
<1>8. ASSUME NEW k \in P PROVE k + 1 \in P
  <2>1. k \in Nat /\ h[k] \in V /\ (h[k].updated => Left(k))
    OBVIOUS
  <2>2. h[k + 1] = IF h[k].updated THEN ScanCache(B, h[k]) ELSE h[k]
    BY <1>4, <2>1
  <2>3. CASE h[k].updated
    <3>1. h[k + 1] \in V /\ h[k + 1] = ScanCache(B, h[k])
      BY <1>2, <2>1, <2>2, <2>3
    <3>2. h[k + 1].updated => Len(h[k + 1].cache) = Len(h[k].cache) - 1
      BY <1>5, <2>1, <3>1, ScanKeeps
    <3>3. Left(k)
      BY <2>1, <2>3
    <3>4. ASSUME h[k + 1].updated PROVE Left(k + 1)
      <4>1. len(k) \in Nat /\ N \in Nat
        BY <1>1, <1>6, <2>1
      <4>2. len(k + 1) = len(k) - 1
        BY <3>2, <3>4
      <4> HIDE DEF N, len, P
      <4> QED BY <2>1, <3>3, <4>1, <4>2
    <3> HIDE DEF Left
    <3> QED BY <2>1, <3>1, <3>4
  <2>4. CASE ~ h[k].updated
    BY <2>1, <2>2, <2>4
  <2> QED BY <2>3, <2>4
<1>9. P = Nat
  <2> HIDE DEF P
  <2>1. P \in SUBSET Nat
    BY DEF P
  <2> QED BY <1>7, <1>8, <2>1, NatSubset
<1>10. N \in Nat
  BY <1>1, <1>6
<1>11. h[N + 1] \in V /\ (h[N + 1].updated => Left(N + 1))
  <2>1. N + 1 \in P
    <3> HIDE DEF N, P
    <3> QED BY <1>9, <1>10
  <2> QED BY <2>1
<1>12. ~ Left(N + 1)
  <2>1. len(N + 1) \in Nat
    BY <1>6, <1>11
  <2> HIDE DEF N, len
  <2> QED BY <1>10, <2>1
<1> HIDE DEF Left
<1>13. ~ h[N + 1].updated
  BY <1>11, <1>12
<1> QED BY <1>4, <1>5, <1>11, <1>13

-----------------------------------------------------------------------------
(***************************************************************************)
(* ReceiveBlock.                                                           *)
(***************************************************************************)
\* No block is twice in the cache, or in the graph too, and none could be
\* inserted.
Clear(B, g, c) ==
    IsInjective(c) /\ ToSet(c) \cap g.ledger = {} /\ Drained(B, g, c)

MinerOK(B, n, g, c) == GraphOK(B, n, g) /\ c \in Seq(0..(n - 1))

\* What ReceiveBlock makes of a miner with graph g and cache c: what is in
\* relays has entered the graph, nothing is lost, and a miner that is clear of
\* leftovers stays so unless the block is in its cache already.
Received(B, n, g, c, b, r) ==
    /\ MinerOK(B, n, r.graph, r.cache) /\ r.relays \in Seq(0..(n - 1))
    /\ Entered(B, g.ledger, r.relays, r.graph.ledger)
    /\ r.graph.ledger \cup ToSet(r.cache) = g.ledger \cup ToSet(c) \cup {b}
    /\ ToSet(r.cache) \subseteq ToSet(c) \cup {b}
    /\ Clear(B, g, c) /\ b \notin ToSet(c) => Clear(B, r.graph, r.cache)
    /\ r.graph = g \/ b \in r.graph.ledger \ g.ledger
    /\ Parents(B, b) \subseteq g.ledger => b \in r.graph.ledger

\* The miner when insert has succeeded on b, before the scans.
LEMMA ArrivedOK ==
    ASSUME NEW B, NEW n, TableOK(B, n), NEW g, NEW c, MinerOK(B, n, g, c),
           NEW b \in 0..(n - 1), InsertResult(B, g, b) = "Success"
    PROVE  /\ b \notin g.ledger /\ Parents(B, b) \subseteq g.ledger
           /\ ScanOK(B, n, g.ledger, g.ledger \cup {b}, ToSet(c), Clear(B, g, c) /\ b \notin ToSet(c),
                     [graph |-> Insert(B, g, b), cache |-> c, relays |-> <<b>>, updated |-> TRUE])
<1> DEFINE L == g.ledger
           W == ToSet(c)
           clear == Clear(B, g, c) /\ b \notin ToSet(c)
           s == [graph |-> Insert(B, g, b), cache |-> c, relays |-> <<b>>, updated |-> TRUE]
<1>1. b \notin L /\ Parents(B, b) \subseteq L
  BY DEF InsertResult, SeenAllAncestors
<1>2. GraphOK(B, n, g) /\ c \in Seq(0..(n - 1))
  BY DEF MinerOK
<1>3. GraphOK(B, n, Insert(B, g, b)) /\ Insert(B, g, b).ledger = L \cup {b}
  <2>1. GraphOK(B, n, Insert(B, g, b))
    BY <1>2, InsertKeepsGraph
  <2>2. Insert(B, g, b).ledger = L \cup {b}
    BY <1>2, InsertLedger
  <2> QED BY <2>1, <2>2
<1>4. <<b>> \in Seq(0..(n - 1)) /\ Entered(B, L, <<b>>, L \cup {b})
  BY <1>1, EnteredOne
<1>5. Insert(B, g, b) \in Graph
  BY <1>3 DEF GraphOK
<1>6. s \in ScanState(n) /\ s.graph = Insert(B, g, b) /\ s.cache = c /\ s.relays = <<b>> /\ s.updated
  BY <1>2, <1>4, <1>5 DEF ScanState
<1>7. clear => IsInjective(c) /\ ToSet(c) \cap (L \cup {b}) = {}
  BY DEF Clear
<1> HIDE DEF s, clear
<1>8. ScanOK(B, n, L, L \cup {b}, W, clear, s)
  BY <1>3, <1>4, <1>6, <1>7 DEF ScanOK
<1> QED BY <1>1, <1>8 DEF s, clear

\* Arrive inserts a block whose ancestors the graph has, and drains the cache.
LEMMA ArriveOK ==
    ASSUME NEW B, NEW n, TableOK(B, n), NEW hm, MinerOK(B, n, hm.graph, hm.cache),
           NEW b \in 0..(n - 1), InsertResult(B, hm.graph, b) = "Success"
    PROVE  Received(B, n, hm.graph, hm.cache, b, Arrive(B, hm, b))
<1> DEFINE g == hm.graph
           c == hm.cache
           L == g.ledger
           W == ToSet(c)
           clear == Clear(B, g, c) /\ b \notin ToSet(c)
           s == [graph |-> Insert(B, g, b), cache |-> c, relays |-> <<b>>, updated |-> TRUE]
           r == InsertCache(B, s)
<1>1. /\ b \notin L /\ Parents(B, b) \subseteq L
      /\ ScanOK(B, n, L, L \cup {b}, W, clear, s)
  BY ArrivedOK
<1>2. clear \in BOOLEAN
  OBVIOUS
<1> HIDE DEF g, c, s, clear, L, W
<1>3. ScanOK(B, n, L, L \cup {b}, W, clear, InsertCache(B, s)) /\ ~ InsertCache(B, s).updated
  BY <1>1, <1>2, InsertCacheOK
<1>4. Arrive(B, hm, b) = r
  BY DEF Arrive, s, g, c
<1> HIDE DEF r
<1>5. /\ r \in ScanState(n) /\ GraphOK(B, n, r.graph) /\ L \cup {b} \subseteq r.graph.ledger
      /\ r.graph.ledger \cup ToSet(r.cache) = L \cup {b} \cup W /\ ToSet(r.cache) \subseteq W
      /\ Entered(B, L, r.relays, r.graph.ledger)
      /\ clear => IsInjective(r.cache) /\ ToSet(r.cache) \cap r.graph.ledger = {}
                  /\ Drained(B, r.graph, r.cache)
  BY <1>3 DEF ScanOK, r
<1>6. r.cache \in Seq(0..(n - 1)) /\ r.relays \in Seq(0..(n - 1))
  BY <1>5 DEF ScanState
<1>7. clear => Clear(B, r.graph, r.cache)
  BY <1>5 DEF Clear
<1> QED BY <1>1, <1>4, <1>5, <1>6, <1>7 DEF Received, MinerOK, L, W, clear, g, c

\* ReceiveBlock of any block with edges.
LEMMA ReceiveBlockOK ==
    ASSUME NEW B, NEW n, TableOK(B, n), NEW hm, MinerOK(B, n, hm.graph, hm.cache),
           NEW b \in 0..(n - 1)
    PROVE  Received(B, n, hm.graph, hm.cache, b, ReceiveBlock(B, hm, b))
<1> DEFINE g == hm.graph
           c == hm.cache
           r == ReceiveBlock(B, hm, b)
<1>1. GraphOK(B, n, g) /\ c \in Seq(0..(n - 1)) /\ <<>> \in Seq(0..(n - 1))
  BY DEF MinerOK
<1>2. Entered(B, g.ledger, <<>>, g.ledger)
  BY EnteredNone
<1>3. CASE InsertResult(B, g, b) = "Success"
  <2>1. r = Arrive(B, hm, b)
    BY <1>3 DEF ReceiveBlock
  <2> QED BY <1>3, <2>1, ArriveOK
<1>4. CASE InsertResult(B, g, b) = "Fail"
  <2>1. r = [graph |-> g, cache |-> Append(c, b), relays |-> <<>>]
    BY <1>4 DEF ReceiveBlock, Postpone
  <2>2. r.graph = g /\ r.cache = Append(c, b) /\ r.relays = <<>>
    BY <2>1
  <2>3. b \notin g.ledger /\ ~ (Parents(B, b) \subseteq g.ledger)
    BY <1>4 DEF InsertResult, SeenAllAncestors
  <2>4. /\ Append(c, b) \in Seq(0..(n - 1)) /\ Len(Append(c, b)) = Len(c) + 1
        /\ \A j \in 1..Len(c) : Append(c, b)[j] = c[j]
        /\ Append(c, b)[Len(c) + 1] = b
        /\ ToSet(Append(c, b)) = ToSet(c) \cup {b}
        /\ IsInjective(c) /\ b \notin ToSet(c) => IsInjective(Append(c, b))
    BY <1>1, AppendValues
  <2>5. Drained(B, g, c) => Drained(B, g, Append(c, b))
    <3>1. Len(c) \in Nat
      BY <1>1, LenProperties
    <3>2. \A i \in 1..Len(Append(c, b)) : i \in 1..Len(c) \/ i = Len(c) + 1
      BY <2>4, <3>1
    <3> HIDE DEF g, c
    <3> QED BY <1>4, <2>4, <3>2 DEF Drained
  <2>6. Clear(B, g, c) /\ b \notin ToSet(c) => Clear(B, g, Append(c, b))
    BY <2>3, <2>4, <2>5 DEF Clear
  <2>7. /\ g.ledger \cup ToSet(Append(c, b)) = g.ledger \cup ToSet(c) \cup {b}
        /\ ToSet(Append(c, b)) \subseteq ToSet(c) \cup {b}
    BY <2>4
  <2> HIDE DEF r, g, c
  <2>8. MinerOK(B, n, g, Append(c, b))
    BY <1>1, <2>4 DEF MinerOK
  <2>9. Received(B, n, g, c, b, r)
    BY <1>1, <1>2, <2>2, <2>3, <2>6, <2>7, <2>8 DEF Received
  <2> QED BY <2>9 DEF r, g, c
<1>5. CASE b \in g.ledger
  <2>1. InsertResult(B, g, b) = "Existing"
    BY <1>5 DEF InsertResult
  <2>2. r = [graph |-> g, cache |-> c, relays |-> <<>>]
    BY <2>1 DEF ReceiveBlock
  <2>3. r.graph = g /\ r.cache = c /\ r.relays = <<>>
    BY <2>2
  <2>4. g.ledger \cup ToSet(c) = g.ledger \cup ToSet(c) \cup {b} /\ b \in g.ledger
    BY <1>5
  <2> HIDE DEF r, g, c
  <2>5. MinerOK(B, n, g, c)
    BY <1>1 DEF MinerOK
  <2>6. Received(B, n, g, c, b, r)
    BY <1>1, <1>2, <2>3, <2>4, <2>5 DEF Received
  <2> QED BY <2>6 DEF r, g, c
<1> QED BY <1>3, <1>4, <1>5 DEF InsertResult

-----------------------------------------------------------------------------
(***************************************************************************)
(* The handlers look at blocks with edges only: they do the same on two    *)
(* tables that agree on these.                                             *)
(***************************************************************************)
LEMMA InsertAgrees ==
    ASSUME NEW B, NEW n, TableOK(B, n), NEW C, TableOK(C, n), Agree(B, C, n),
           NEW g, GraphOK(B, n, g), NEW b \in 0..(n - 1)
    PROVE  InsertResult(C, g, b) = InsertResult(B, g, b) /\ Insert(C, g, b) = Insert(B, g, b)
<1>1. InsertResult(C, g, b) = InsertResult(B, g, b)
  BY DEF InsertResult, SeenAllAncestors, Parents, IsGenesis, Agree
<1>2. CASE InsertResult(B, g, b) # "Success"
  BY <1>1, <1>2 DEF Insert
<1>3. CASE InsertResult(B, g, b) = "Success"
  <2>1. GraphOK(C, n, g) /\ Agree(C, B, n)
    BY AgreeKeepsGraph DEF Agree
  <2>2. GraphOK(C, n, Insert(C, g, b)) /\ Insert(C, g, b).ledger = g.ledger \cup {b}
    BY <1>1, <1>3, <2>1, InsertKeepsGraph, InsertLedger
  <2>3. GraphOK(B, n, Insert(B, g, b)) /\ Insert(B, g, b).ledger = g.ledger \cup {b}
    BY <1>3, InsertKeepsGraph, InsertLedger
  <2> PICK h, k : h = Insert(B, g, b) /\ k = Insert(C, g, b)
    OBVIOUS
  <2>4. GraphOK(B, n, h) /\ GraphOK(C, n, k) /\ k.ledger = h.ledger
    BY <2>2, <2>3
  <2>5. GraphOK(B, n, k)
    BY <2>1, <2>4, AgreeKeepsGraph
  <2>6. h = k
    BY <2>4, <2>5, SameLedgerSameGraph
  <2> QED BY <1>1, <2>6
<1> QED BY <1>2, <1>3

\* One scan.
LEMMA ScanAgrees ==
    ASSUME NEW B, NEW n, TableOK(B, n), NEW C, TableOK(C, n), Agree(B, C, n),
           NEW s, s \in ScanState(n), GraphOK(B, n, s.graph)
    PROVE  ScanCache(C, s) = ScanCache(B, s)
<1> DEFINE hits(T) == {i \in DOMAIN s.cache : InsertResult(T, s.graph, s.cache[i]) # "Fail"}
           at(H)   == CHOOSE j \in H : \A k \in H : j <= k
           new(T, i) == IF InsertResult(T, s.graph, s.cache[i]) = "Existing"
                        THEN [s EXCEPT !.cache = RemoveAt(s.cache, i), !.updated = FALSE]
                        ELSE InsertCached(T, s, i)
           end     == [s EXCEPT !.updated = FALSE]
<1>1. \A T : ScanCache(T, s) = IF hits(T) = {} THEN end ELSE new(T, at(hits(T)))
  BY DEF ScanCache
<1>2. /\ s.cache \in Seq(0..(n - 1)) /\ DOMAIN s.cache = 1..Len(s.cache) /\ Len(s.cache) \in Nat
      /\ \A i \in DOMAIN s.cache : s.cache[i] \in 0..(n - 1)
  <2>1. s.cache \in Seq(0..(n - 1))
    BY DEF ScanState
  <2> QED BY <2>1, LenProperties, ElementOfSeq
<1>3. ASSUME NEW i \in DOMAIN s.cache
      PROVE  /\ InsertResult(C, s.graph, s.cache[i]) = InsertResult(B, s.graph, s.cache[i])
             /\ Insert(C, s.graph, s.cache[i]) = Insert(B, s.graph, s.cache[i])
  BY <1>2, InsertAgrees
<1>4. hits(C) = hits(B)
  BY <1>3
<1> PICK H : H = hits(B)
  OBVIOUS
<1>5. H \subseteq DOMAIN s.cache
  OBVIOUS
<1>6. ASSUME H # {} PROVE at(H) \in H
  <2>1. H \in SUBSET Nat
    BY <1>2, <1>5
  <2>2. \E j \in H : \A k \in H : j <= k
    BY <1>6, <2>1, MinExists
  <2> QED BY <2>2
<1>7. ASSUME NEW i \in H PROVE new(C, i) = new(B, i)
  <2>1. i \in DOMAIN s.cache
    BY <1>5
  <2>2. InsertCached(C, s, i) = InsertCached(B, s, i)
    BY <1>3, <2>1 DEF InsertCached
  <2> QED BY <1>3, <2>1, <2>2
<1> HIDE DEF hits, at, new, end
<1>8. ScanCache(C, s) = IF H = {} THEN end ELSE new(C, at(H))
  BY <1>1, <1>4
<1>9. ScanCache(B, s) = IF H = {} THEN end ELSE new(B, at(H))
  BY <1>1
<1> QED BY <1>6, <1>7, <1>8, <1>9

\* All of them.
LEMMA CacheAgrees ==
    ASSUME NEW B, NEW n, TableOK(B, n), NEW C, TableOK(C, n), Agree(B, C, n),
           NEW L, NEW M, NEW W, NEW clear \in BOOLEAN, NEW s, ScanOK(B, n, L, M, W, clear, s)
    PROVE  InsertCache(C, s) = InsertCache(B, s)
<1> DEFINE V == {x \in ScanState(n) : ScanOK(B, n, L, M, W, clear, x)}
           N == Len(s.cache)
<1>1. s \in V
  BY DEF ScanOK
<1>2. ASSUME NEW x \in V PROVE ScanCache(B, x) \in V /\ ScanCache(C, x) = ScanCache(B, x)
  <2>1. x \in ScanState(n) /\ ScanOK(B, n, L, M, W, clear, x)
    OBVIOUS
  <2>2. ScanOK(B, n, L, M, W, clear, ScanCache(B, x))
    BY <2>1, ScanKeeps
  <2>3. ScanCache(B, x) \in V
    BY <2>2 DEF ScanOK
  <2>4. GraphOK(B, n, x.graph)
    BY <2>1 DEF ScanOK
  <2>5. ScanCache(C, x) = ScanCache(B, x)
    BY <2>1, <2>4, ScanAgrees
  <2> QED BY <2>3, <2>5
<1>3. N + 1 \in Nat
  <2>1. s.cache \in Seq(0..(n - 1))
    BY <1>1 DEF ScanState
  <2>2. N \in Nat
    BY <2>1, LenProperties
  <2> HIDE DEF N
  <2> QED BY <2>2
<1> HIDE DEF V
<1>4. \A x \in V : ScanCache(B, x) \in V
  BY <1>2
<1>5. \A x \in V : ScanCache(C, x) \in V
  BY <1>2
<1>6. PICK h : ScansOf(h, B, V, s)
  BY <1>1, <1>4, ScansExist
<1>7. PICK k : ScansOf(k, C, V, s)
  BY <1>1, <1>5, ScansExist
<1> DEFINE P == {i \in Nat : h[i] = k[i]}
<1>8. 0 \in P
  BY <1>6, <1>7 DEF ScansOf
<1>9. ASSUME NEW i \in P PROVE i + 1 \in P
  <2>1. i \in Nat /\ h[i] = k[i] /\ h[i] \in V
    BY <1>6 DEF ScansOf
  <2>2. /\ h[i + 1] = IF h[i].updated THEN ScanCache(B, h[i]) ELSE h[i]
        /\ k[i + 1] = IF k[i].updated THEN ScanCache(C, k[i]) ELSE k[i]
    BY <1>6, <1>7, <2>1 DEF ScansOf
  <2>3. h[i + 1] = k[i + 1]
    BY <1>2, <2>1, <2>2
  <2> QED BY <2>1, <2>3
<1>10. P \in SUBSET Nat
  OBVIOUS
<1> HIDE DEF P
<1>11. P = Nat
  BY <1>8, <1>9, <1>10, NatSubset
<1>12. h[N + 1] = k[N + 1]
  BY <1>3, <1>11 DEF P
<1>13. InsertCache(B, s) = h[N + 1] /\ InsertCache(C, s) = k[N + 1]
  BY <1>6, <1>7 DEF ScansOf
<1> QED BY <1>12, <1>13

\* ReceiveBlock.
LEMMA ReceiveBlockAgrees ==
    ASSUME NEW B, NEW n, TableOK(B, n), NEW C, TableOK(C, n), Agree(B, C, n),
           NEW hm, MinerOK(B, n, hm.graph, hm.cache), NEW b \in 0..(n - 1)
    PROVE  ReceiveBlock(C, hm, b) = ReceiveBlock(B, hm, b)
<1> PICK g, c : g = hm.graph /\ c = hm.cache
  OBVIOUS
<1>1. MinerOK(B, n, g, c) /\ GraphOK(B, n, g)
  BY DEF MinerOK
<1>2. InsertResult(C, g, b) = InsertResult(B, g, b) /\ Insert(C, g, b) = Insert(B, g, b)
  BY <1>1, InsertAgrees
<1>3. ASSUME InsertResult(B, g, b) = "Success" PROVE Arrive(C, hm, b) = Arrive(B, hm, b)
  <2> DEFINE s == [graph |-> Insert(B, g, b), cache |-> c, relays |-> <<b>>, updated |-> TRUE]
             M == g.ledger \cup {b}
             clear == Clear(B, g, c) /\ b \notin ToSet(c)
  <2>1. ScanOK(B, n, g.ledger, M, ToSet(c), clear, s)
    BY <1>1, <1>3, ArrivedOK
  <2>2. clear \in BOOLEAN
    OBVIOUS
  <2>3. Arrive(B, hm, b) = InsertCache(B, s) /\ Arrive(C, hm, b) = InsertCache(C, s)
    BY <1>2 DEF Arrive
  <2> HIDE DEF s, M, clear
  <2>4. InsertCache(C, s) = InsertCache(B, s)
    BY <2>1, <2>2, CacheAgrees
  <2> QED BY <2>3, <2>4
<1> QED BY <1>2, <1>3 DEF ReceiveBlock

-----------------------------------------------------------------------------
(***************************************************************************)
(* The next block gets its edges.                                          *)
(***************************************************************************)
\* A longer range has the sequences of the shorter one.
LEMMA SeqGrows == ASSUME NEW n \in Nat, NEW c \in Seq(0..(n - 1)) PROVE c \in Seq(0..(n + 1 - 1))
<1>1. 0..(n - 1) \subseteq 0..(n + 1 - 1)
  OBVIOUS
<1> QED BY <1>1, SeqMonotonic

\* Blocks with edges keep their parent and references.
LEMMA ParentsStay ==
    ASSUME NEW B, NEW C, NEW n, Agree(B, C, n)
    PROVE  \A b \in 0..(n - 1) : Parents(C, b) = Parents(B, b)
BY DEF Agree, Parents, IsGenesis

\* What has entered a graph has done so in the longer table.
LEMMA EnteredStays ==
    ASSUME NEW B, NEW C, NEW n \in Nat, Agree(B, C, n), NEW L, NEW rel \in Seq(0..(n - 1)), NEW M,
           Entered(B, L, rel, M)
    PROVE  Entered(C, L, rel, M)
<1>1. \A j \in 1..Len(rel) : rel[j] \in 0..(n - 1)
  BY ElementOfSeq
<1>2. \A j \in 1..Len(rel) : Parents(C, rel[j]) = Parents(B, rel[j])
  BY <1>1, ParentsStay
<1> QED BY <1>2 DEF Entered

\* Clear stays clear.
LEMMA ClearStays ==
    ASSUME NEW B, NEW C, NEW n \in Nat, Agree(B, C, n), NEW g, NEW c \in Seq(0..(n - 1)),
           Clear(B, g, c)
    PROVE  Clear(C, g, c)
<1>1. \A j \in 1..Len(c) : c[j] \in 0..(n - 1)
  BY ElementOfSeq
<1>2. \A j \in 1..Len(c) : Parents(C, c[j]) = Parents(B, c[j])
  BY <1>1, ParentsStay
<1>3. \A j \in 1..Len(c) : InsertResult(C, g, c[j]) = InsertResult(B, g, c[j])
  BY <1>2 DEF InsertResult, SeenAllAncestors
<1> QED BY <1>3 DEF Clear, Drained

\* No block waits for the one the miner generates.
LEMMA ClearWithNext ==
    ASSUME NEW C, NEW n \in Nat, TableOK(C, n + 1), NEW g, NEW h, h.ledger = g.ledger \cup {n},
           NEW c \in Seq(0..(n - 1)), Clear(C, g, c)
    PROVE  Clear(C, h, c)
<1>1. \A j \in 1..Len(c) : c[j] \in 0..(n - 1)
  BY ElementOfSeq
<1>2. \A j \in 1..Len(c) : n \notin Parents(C, c[j]) /\ c[j] # n
  <2>1. ASSUME NEW j \in 1..Len(c) PROVE n \notin Parents(C, c[j]) /\ c[j] # n
    <3> DEFINE k == n + 1
    <3>1. TableOK(C, k) /\ c[j] \in 0..(k - 1) /\ c[j] \in 0..(n - 1)
      BY <1>1
    <3> HIDE DEF k
    <3>2. Parents(C, c[j]) \subseteq 0..(c[j] - 1)
      BY <3>1, TableFacts
    <3> QED BY <3>1, <3>2, SMTT(30)
  <2> QED BY <2>1
<1>3. \A j \in 1..Len(c) : InsertResult(C, g, c[j]) = "Fail"
  BY DEF Clear, Drained
<1>4. ASSUME NEW j \in 1..Len(c) PROVE InsertResult(C, h, c[j]) = "Fail"
  BY <1>2, <1>3 DEF InsertResult, SeenAllAncestors
<1>5. n \notin ToSet(c)
  <2>1. ToSet(c) \subseteq 0..(n - 1)
    BY ToSetIs
  <2> QED BY <2>1
<1> QED BY <1>4, <1>5 DEF Clear, Drained

\* A miner stays well formed.
LEMMA MinerStays ==
    ASSUME NEW B, NEW C, NEW n \in Nat, \A h : GraphOK(B, n, h) => GraphOK(C, n + 1, h),
           NEW g, NEW c, MinerOK(B, n, g, c)
    PROVE  MinerOK(C, n + 1, g, c)
BY SeqGrows DEF MinerOK


\* The owner of block n fills it and inserts it in its graph g, and the next
\* block is mined: all miners are as they were, for the longer table, and the
\* owner has its block too.
LEMMA GenerateThenMine ==
    ASSUME NEW B, NEW n, TableOK(B, n), n < MaxBlock, B[n].minerID \in Miners,
           NEW g, GraphOK(B, n, g), Genesis \in g.ledger,
           NEW F, F = FillNewBlock(B, g, n), NEW h, h = Insert(F, g, n),
           NEW m \in Miners, NEW r \in 0..MaxResidual, NEW C, C = MineBlock(F, n + 1, m, r)
    PROVE  /\ TableOK(F, n + 1) /\ Agree(B, F, n)
           /\ TableOK(C, n + 1) /\ Agree(F, C, n + 1) /\ C[n + 1].minerID = m
           /\ C[n].minerID = B[n].minerID /\ \A b \in 0..(n - 1) : C[b].minerID = B[b].minerID
           /\ h \in Graph /\ h.ledger = g.ledger \cup {n}
           /\ \A x, c : MinerOK(B, n, x, c) /\ Clear(B, x, c)
                          => MinerOK(C, n + 1, x, c) /\ Clear(C, x, c)
           /\ \A c : MinerOK(B, n, g, c) /\ Clear(B, g, c)
                       => MinerOK(C, n + 1, h, c) /\ Clear(C, h, c)
<1> DEFINE k == n + 1
           o == B[n].minerID
           q == B[n].residual
<1>1. n \in Nat /\ k \in Nat /\ k <= MaxBlock /\ n <= MaxBlock /\ n \in BlockIds /\ MaxBlock \in Nat
  BY BlockAssumption, TableFacts DEF BlockIds
<1>2. q \in 0..MaxResidual /\ MineBlock(B, n, o, q) = B
  <2>1. B \in [BlockIds -> Block]
    BY DEF TableOK
  <2>2. q \in 0..MaxResidual
    BY <1>1, <2>1 DEF Block
  <2> QED BY <1>1, <2>2, MineKeepsTable
<1>3. F = FillNewBlock(MineBlock(B, n, o, q), g, n)
  BY <1>2
<1>4. /\ TableOK(F, k) /\ Agree(B, F, n) /\ \A x : GraphOK(B, n, x) => GraphOK(F, k, x)
      /\ GraphOK(F, k, h) /\ h.ledger = g.ledger \cup {n} /\ F[n].minerID = o
  <2> HIDE DEF o, q
  <2> QED BY <1>1, <1>2, <1>3, OwnBlockKeepsGraph DEF o
<1>5. TableOK(C, k) /\ Agree(F, C, k) /\ C[k].minerID = m
  <2> HIDE DEF k
  <2> QED BY <1>1, <1>4, MineKeepsTable DEF k
<1>6. C[n].minerID = o /\ \A b \in 0..(n - 1) : C[b].minerID = B[b].minerID
  <2>1. \A b \in 0..(k - 1) : C[b] = F[b]
    BY <1>5 DEF Agree
  <2>2. \A b \in 0..(n - 1) : b \in 0..(k - 1) /\ F[b] = B[b]
    BY <1>1, <1>4 DEF Agree
  <2>3. n \in 0..(k - 1)
    BY <1>1
  <2> HIDE DEF k, o
  <2> QED BY <1>4, <2>1, <2>2, <2>3
<1>7. ASSUME NEW x, GraphOK(F, k, x) PROVE GraphOK(C, k, x)
  <2> HIDE DEF k
  <2> QED BY <1>4, <1>5, <1>7, AgreeKeepsGraph
<1>8. ASSUME NEW x, NEW c, MinerOK(B, n, x, c), Clear(B, x, c)
      PROVE  /\ GraphOK(C, k, x) /\ c \in Seq(0..(k - 1)) /\ c \in Seq(0..(n - 1))
             /\ Clear(F, x, c) /\ Clear(C, x, c)
  <2>1. GraphOK(C, k, x) /\ c \in Seq(0..(n - 1))
    BY <1>4, <1>7, <1>8 DEF MinerOK
  <2>2. c \in Seq(0..(k - 1))
    <3>1. n \in Nat /\ c \in Seq(0..(n - 1))
      BY <1>1, <2>1
    <3> QED BY <3>1, SeqGrows
  <2>3. Clear(F, x, c)
    BY <1>1, <1>4, <1>8, <2>1, ClearStays
  <2> HIDE DEF k
  <2>4. Clear(C, x, c)
    BY <1>1, <1>5, <2>2, <2>3, ClearStays
  <2> QED BY <2>1, <2>2, <2>3, <2>4
<1>9. ASSUME NEW x, NEW c, MinerOK(B, n, x, c), Clear(B, x, c)
      PROVE  MinerOK(C, k, x, c) /\ Clear(C, x, c)
  BY <1>8, <1>9 DEF MinerOK
<1>10. ASSUME NEW c, MinerOK(B, n, g, c), Clear(B, g, c)
       PROVE  MinerOK(C, k, h, c) /\ Clear(C, h, c)
  <2>1. c \in Seq(0..(k - 1)) /\ c \in Seq(0..(n - 1)) /\ Clear(F, g, c)
    BY <1>8, <1>10
  <2>2. Clear(F, h, c)
    BY <1>1, <1>4, <2>1, ClearWithNext
  <2>3. GraphOK(C, k, h)
    BY <1>4, <1>7
  <2> HIDE DEF k
  <2>4. Clear(C, h, c)
    BY <1>1, <1>5, <2>1, <2>2, ClearStays
  <2> QED BY <2>1, <2>3, <2>4 DEF MinerOK
<1>11. h \in Graph
  BY <1>4 DEF GraphOK
<1> QED BY <1>4, <1>5, <1>6, <1>9, <1>10, <1>11
=============================================================================
