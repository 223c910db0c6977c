---------------------------- MODULE WithholdProofs ----------------------------
(***************************************************************************)
(* The invariants of WithholdSimulation, for every number of blocks and    *)
(* miners, every duration and every delay.                                 *)
(***************************************************************************)
EXTENDS WithholdSimulation, GraphProofs

USE DEF Genesis, None

-----------------------------------------------------------------------------
(***************************************************************************)
(* checkBroadCast: the blocks held back are let go from the front.         *)
(***************************************************************************)
Rising(c) == \A i, j \in DOMAIN c : i < j => c[i] < c[j]

\* The first entry of a rising list is the least, and the rest rises too.
LEMMA HeadAndTail ==
    ASSUME NEW n \in Nat, NEW c \in Seq(0..(n - 1)), c # <<>>, Rising(c)
    PROVE  /\ Head(c) \in 0..(n - 1) /\ Tail(c) \in Seq(0..(n - 1)) /\ Len(Tail(c)) = Len(c) - 1
           /\ Rising(Tail(c)) /\ Head(c) \notin ToSet(Tail(c))
           /\ ToSet(c) = {Head(c)} \cup ToSet(Tail(c))
           /\ \A b \in ToSet(Tail(c)) : Head(c) < b
<1> DEFINE d == Tail(c)
<1>1. /\ Len(c) \in Nat /\ Len(c) >= 1 /\ d \in Seq(0..(n - 1)) /\ Len(d) = Len(c) - 1
      /\ \A j \in 1..Len(d) : d[j] = c[j + 1]
      /\ Head(c) = c[1] /\ Head(c) \in 0..(n - 1)
  <2>1. Len(c) \in Nat /\ Len(c) >= 1
    BY EmptySeq, LenProperties
  <2>2. d \in Seq(0..(n - 1)) /\ Len(d) = Len(c) - 1 /\ \A j \in 1..Len(d) : d[j] = c[j + 1]
    BY HeadTailProperties
  <2>3. Head(c) = c[1] /\ Head(c) \in 0..(n - 1)
    BY HeadTailProperties
  <2> QED BY <2>1, <2>2, <2>3
<1> HIDE DEF d
<1>2. /\ ToSet(c) = {c[j] : j \in 1..Len(c)} /\ ToSet(d) = {d[j] : j \in 1..Len(d)}
      /\ DOMAIN c = 1..Len(c) /\ DOMAIN d = 1..Len(d)
      /\ \A j \in 1..Len(c) : c[j] \in 0..(n - 1)
  <2>1. /\ ToSet(c) = {c[j] : j \in 1..Len(c)} /\ DOMAIN c = 1..Len(c)
        /\ \A j \in 1..Len(c) : c[j] \in 0..(n - 1)
    BY ToSetIs, LenProperties, ElementOfSeq
  <2>2. ToSet(d) = {d[j] : j \in 1..Len(d)}
    BY <1>1, ToSetIs
  <2>3. DOMAIN d = 1..Len(d)
    BY <1>1, LenProperties
  <2> QED BY <2>1, <2>2, <2>3
<1>3. \A j \in 1..Len(c) : j = 1 \/ (j - 1 \in 1..Len(d) /\ d[j - 1] = c[j])
  BY <1>1
<1>4. \A j \in 1..Len(d) : j + 1 \in 1..Len(c) /\ 1 < j + 1 /\ 1 \in 1..Len(c)
  BY <1>1
<1>5. Rising(d)
  <2> SUFFICES ASSUME NEW i \in 1..Len(d), NEW j \in 1..Len(d), i < j PROVE d[i] < d[j]
    BY <1>2 DEF Rising
  <2>1. i + 1 < j + 1 /\ i + 1 \in 1..Len(c) /\ j + 1 \in 1..Len(c)
    BY <1>1
  <2> QED BY <1>1, <1>2, <2>1 DEF Rising
<1>6. \A b \in ToSet(d) : Head(c) < b
  <2>1. \A j \in 1..Len(d) : c[1] < c[j + 1]
    BY <1>2, <1>4 DEF Rising
  <2>2. \A j \in 1..Len(d) : Head(c) < d[j]
    BY <1>1, <2>1
  <2> QED BY <1>2, <2>2
<1>7. Head(c) \notin ToSet(d)
  BY <1>1, <1>6
<1>8. ToSet(c) = {Head(c)} \cup ToSet(d)
  BY <1>1, <1>2, <1>3, <1>4
<1> QED BY <1>1, <1>5, <1>6, <1>7, <1>8 DEF d

\* What is held back can be let go in its order: it rises, the real graph has
\* none of it, and its ancestors are real or are held back too.
HoldOK(B, n, real, holding) ==
    /\ GraphOK(B, n, real)
    /\ holding \in Seq(0..(n - 1)) /\ Rising(holding)
    /\ ToSet(holding) \cap real.ledger = {}
    /\ \A b \in ToSet(holding) : Parents(B, b) \subseteq real.ledger \cup ToSet(holding)

AnswerType(n) == [mType     : WMinerType,
                  graph     : Graph,
                  real      : Graph,
                  holding   : Seq(0..(n - 1)),
                  fatal     : BOOLEAN,
                  broadcast : Seq(0..(n - 1)),
                  delayed   : SUBSET (0..(n - 1))]

\* c is a with some of the blocks held back let go.
LetGo(B, n, a, c) ==
    /\ c \in AnswerType(n) /\ HoldOK(B, n, c.real, c.holding)
    /\ c.graph = a.graph /\ c.mType = a.mType /\ c.fatal = a.fatal /\ c.delayed = a.delayed
    /\ c.real.ledger \cup ToSet(c.holding) = a.real.ledger \cup ToSet(a.holding)
    /\ ToSet(c.holding) \subseteq ToSet(a.holding)
    /\ a.real.ledger \subseteq c.real.ledger
    /\ ToSet(c.broadcast) = ToSet(a.broadcast) \cup (ToSet(a.holding) \ ToSet(c.holding))

\* Letting go the first one: its insertion in the real graph succeeds.
LEMMA ReleaseKeeps ==
    ASSUME NEW B, NEW n, TableOK(B, n), NEW a, NEW c, LetGo(B, n, a, c), c.holding # <<>>
    PROVE  /\ LetGo(B, n, a, Release(B, c))
           /\ Len(Release(B, c).holding) = Len(c.holding) - 1
<1> DEFINE b == Head(c.holding)
           w == Tail(c.holding)
           s == Append(c.broadcast, b)
           R == Insert(B, c.real, b)
           d == Release(B, c)
<1>0. n \in Nat /\ c \in AnswerType(n) /\ HoldOK(B, n, c.real, c.holding)
  BY TableFacts DEF LetGo
<1>1. /\ b \in 0..(n - 1) /\ w \in Seq(0..(n - 1)) /\ Len(w) = Len(c.holding) - 1
      /\ Rising(w) /\ b \notin ToSet(w) /\ ToSet(c.holding) = {b} \cup ToSet(w)
      /\ \A x \in ToSet(w) : b < x
  <2> DEFINE q == c.holding
  <2>1. q \in Seq(0..(n - 1)) /\ Rising(q) /\ q # <<>>
    BY <1>0 DEF HoldOK
  <2> HIDE DEF q
  <2>2. /\ Head(q) \in 0..(n - 1) /\ Tail(q) \in Seq(0..(n - 1)) /\ Len(Tail(q)) = Len(q) - 1
        /\ Rising(Tail(q)) /\ Head(q) \notin ToSet(Tail(q)) /\ ToSet(q) = {Head(q)} \cup ToSet(Tail(q))
        /\ \A x \in ToSet(Tail(q)) : Head(q) < x
    BY <1>0, <2>1, HeadAndTail
  <2> QED BY <2>2 DEF q
<1>2. s \in Seq(0..(n - 1)) /\ ToSet(s) = ToSet(c.broadcast) \cup {b}
  <2> DEFINE S == 0..(n - 1)
             q == c.broadcast
  <2>1. q \in Seq(S) /\ b \in S
    BY <1>0, <1>1 DEF AnswerType
  <2> HIDE DEF b, S, q
  <2>2. Append(q, b) \in Seq(S) /\ ToSet(Append(q, b)) = ToSet(q) \cup {b}
    BY <2>1, AppendValues
  <2> QED BY <2>2 DEF S, q
<1> HIDE DEF b, w, s
<1>3. b \notin c.real.ledger /\ Parents(B, b) \subseteq c.real.ledger
  <2>1. b \notin c.real.ledger /\ Parents(B, b) \subseteq c.real.ledger \cup {b} \cup ToSet(w)
    BY <1>0, <1>1 DEF HoldOK
  <2>2. \A x \in Parents(B, b) : x \in 0..(b - 1)
    BY <1>1, TableFacts
  <2>3. \A x \in Parents(B, b) : x # b /\ x \notin ToSet(w)
    BY <1>1, <2>2
  <2> QED BY <2>1, <2>3
<1>4. /\ GraphOK(B, n, R) /\ R.ledger = c.real.ledger \cup {b} /\ R \in Graph
  <2>1. InsertResult(B, c.real, b) = "Success"
    BY <1>3 DEF InsertResult, SeenAllAncestors
  <2>2. GraphOK(B, n, c.real)
    BY <1>0 DEF HoldOK
  <2>3. GraphOK(B, n, R) /\ R.ledger = c.real.ledger \cup {b}
    BY <1>1, <2>1, <2>2, InsertKeepsGraph, InsertLedger
  <2> QED BY <2>3 DEF GraphOK
<1> HIDE DEF R
<1>5. /\ d \in AnswerType(n) /\ d.mType = c.mType /\ d.graph = c.graph /\ d.real = R
      /\ d.holding = w /\ d.fatal = c.fatal /\ d.broadcast = s /\ d.delayed = c.delayed
  <2>1. d = [c EXCEPT !.real = R, !.holding = w, !.broadcast = s]
    BY DEF Release, R, w, s, b
  <2> HIDE DEF d
  <2> QED BY <1>0, <1>1, <1>2, <1>4, <2>1 DEF AnswerType
<1> HIDE DEF d
<1>6. HoldOK(B, n, R, w)
  <2>1. \A x \in ToSet(w) : Parents(B, x) \subseteq R.ledger \cup ToSet(w)
    BY <1>0, <1>1, <1>4 DEF HoldOK
  <2>2. ToSet(w) \cap R.ledger = {}
    BY <1>0, <1>1, <1>4 DEF HoldOK
  <2> QED BY <1>1, <1>4, <2>1, <2>2 DEF HoldOK
<1>7. /\ d.real.ledger \cup ToSet(d.holding) = c.real.ledger \cup ToSet(c.holding)
      /\ ToSet(d.holding) \subseteq ToSet(c.holding) /\ c.real.ledger \subseteq d.real.ledger
      /\ ToSet(d.broadcast) = ToSet(c.broadcast) \cup (ToSet(c.holding) \ ToSet(d.holding))
  BY <1>1, <1>2, <1>4, <1>5
<1>8. LetGo(B, n, a, d)
  BY <1>5, <1>6, <1>7 DEF LetGo
<1> QED BY <1>1, <1>5, <1>8 DEF d

\* checkBroadCast ends when nothing is held back or the real pivot ends in a
\* block of the adversary.
LEMMA CheckBroadCastOK ==
    ASSUME NEW B, NEW n, TableOK(B, n), NEW id,
           NEW a, a \in AnswerType(n), HoldOK(B, n, a.real, a.holding)
    PROVE  /\ LetGo(B, n, a, CheckBroadCast(B, a, id))
           /\ ~ Overtaken(B, CheckBroadCast(B, a, id), id)
<1> DEFINE V == {x \in AnswerType(n) : LetGo(B, n, a, x)}
           step == [x \in V |-> IF Overtaken(B, x, id) THEN Release(B, x) ELSE x]
           Rounds(f) == f = [k \in Nat |-> IF k = 0 THEN a
                                           ELSE IF Overtaken(B, f[k - 1], id) THEN Release(B, f[k - 1])
                                           ELSE f[k - 1]]
           h == CHOOSE f : Rounds(f)
           N == Len(a.holding)
<1>1. CheckBroadCast(B, a, id) = h[N]
  BY DEF CheckBroadCast
<1>2. a \in V
  BY DEF LetGo
<1>3. \A x \in V : Overtaken(B, x, id) => /\ Release(B, x) \in V
                                          /\ Len(Release(B, x).holding) = Len(x.holding) - 1
  <2> SUFFICES ASSUME NEW x \in V, Overtaken(B, x, id)
               PROVE  Release(B, x) \in V /\ Len(Release(B, x).holding) = Len(x.holding) - 1
    OBVIOUS
  <2>1. LetGo(B, n, a, x) /\ x.holding # <<>>
    BY DEF Overtaken
  <2>2. LetGo(B, n, a, Release(B, x)) /\ Len(Release(B, x).holding) = Len(x.holding) - 1
    BY <2>1, ReleaseKeeps
  <2> QED BY <2>2 DEF LetGo
<1>4. Rounds(h)
  <2>1. step \in [V -> V]
    <3> HIDE DEF V
    <3> QED BY <1>3
  <2>2. PICK f : Iterates(f, V, a, step)
    <3> HIDE DEF V, step, Rounds
    <3> QED BY <1>2, <2>1, IterationExists
  <2>3. ASSUME NEW k \in Nat
        PROVE  f[k] = IF k = 0 THEN a
                      ELSE IF Overtaken(B, f[k - 1], id) THEN Release(B, f[k - 1]) ELSE f[k - 1]
    <3>1. CASE k = 0
      BY <2>2, <3>1 DEF Iterates
    <3>2. CASE k # 0
      <4>1. k - 1 \in Nat /\ k = k - 1 + 1
        BY <3>2
      <4>2. f[k] = step[f[k - 1]] /\ f[k - 1] \in V
        BY <2>2, <4>1 DEF Iterates
      <4> HIDE DEF V
      <4> QED BY <3>2, <4>2
    <3> QED BY <3>1, <3>2
  <2>4. Rounds(f)
    <3> HIDE DEF V, step
    <3> QED BY <2>2, <2>3 DEF Iterates
  <2> HIDE DEF Rounds
  <2> QED BY <2>4
<1>5. \A k \in Nat : h[k] = IF k = 0 THEN a
                            ELSE IF Overtaken(B, h[k - 1], id) THEN Release(B, h[k - 1])
                            ELSE h[k - 1]
  <2> HIDE DEF h
  <2> QED BY <1>4
<1> DEFINE len(k) == Len(h[k].holding)
           Left(k) == len(k) + k <= N
           P == {k \in Nat : h[k] \in V /\ (Overtaken(B, h[k], id) => Left(k))}
<1>6. \A x \in V : x \in AnswerType(n) /\ LetGo(B, n, a, x) /\ Len(x.holding) \in Nat
  <2> SUFFICES ASSUME NEW x \in V PROVE x \in AnswerType(n) /\ LetGo(B, n, a, x) /\ Len(x.holding) \in Nat
    OBVIOUS
  <2>1. x.holding \in Seq(0..(n - 1))
    BY DEF AnswerType
  <2> QED BY <2>1, LenProperties
<1> HIDE DEF h, V, step, Rounds
<1>7. 0 \in P
  <2>1. h[0] = a /\ N \in Nat
    BY <1>2, <1>5, <1>6
  <2> QED BY <1>2, <2>1
<1>8. ASSUME NEW k \in P PROVE k + 1 \in P
  <2>1. k \in Nat /\ h[k] \in V /\ (Overtaken(B, h[k], id) => Left(k))
    OBVIOUS
  <2>2. h[k + 1] = IF Overtaken(B, h[k], id) THEN Release(B, h[k]) ELSE h[k]
    <3>1. k + 1 \in Nat /\ k + 1 # 0 /\ k + 1 - 1 = k
      BY <2>1
    <3> QED BY <1>5, <3>1
  <2>3. CASE Overtaken(B, h[k], id)
    <3>1. h[k + 1] \in V /\ h[k + 1] = Release(B, h[k]) /\ len(k + 1) = len(k) - 1
      BY <1>3, <2>1, <2>2, <2>3
    <3>2. Left(k)
      BY <2>1, <2>3
    <3>3. Left(k + 1)
      <4>1. len(k) \in Nat /\ N \in Nat
        BY <1>2, <1>6, <2>1
      <4>2. len(k + 1) = len(k) - 1
        BY <3>1
      <4> HIDE DEF N, len, P
      <4> QED BY <2>1, <3>2, <4>1, <4>2
    <3> HIDE DEF Left
    <3> QED BY <2>1, <3>1, <3>3
  <2>4. CASE ~ Overtaken(B, h[k], id)
    <3>1. k + 1 \in Nat /\ h[k + 1] = h[k]
      BY <2>1, <2>2, <2>4
    <3> HIDE DEF Left
    <3> QED BY <2>1, <2>4, <3>1
  <2> QED BY <2>3, <2>4
<1>9. P = Nat
  <2> HIDE DEF P
  <2>1. P \in SUBSET Nat
    BY DEF P
  <2> QED BY <1>7, <1>8, <2>1, NatSubset
<1>10. N \in Nat
  BY <1>2, <1>6
<1>11. h[N] \in V /\ (Overtaken(B, h[N], id) => Left(N))
  <2>1. N \in P
    BY <1>9, <1>10
  <2> QED BY <2>1
<1>12. Overtaken(B, h[N], id) => ~ Left(N)
  <2> SUFFICES ASSUME Overtaken(B, h[N], id), Left(N) PROVE FALSE
    OBVIOUS
  <2>1. h[N].holding \in Seq(0..(n - 1)) /\ h[N].holding # <<>>
    BY <1>6, <1>11 DEF AnswerType, Overtaken
  <2>2. len(N) \in Nat /\ len(N) # 0
    BY <2>1, EmptySeq, LenProperties
  <2> HIDE DEF N, len
  <2> QED BY <1>10, <2>2
<1> HIDE DEF Left
<1> QED BY <1>1, <1>6, <1>11, <1>12

-----------------------------------------------------------------------------
(***************************************************************************)
(* The handlers of the withholding miner.                                  *)
(***************************************************************************)
HeldBy(w) == ToSet(w.holding)

OwnBlocks(B, n) == {b \in 0..(n - 1) : B[b].minerID = Adversary}

WithholdType(n) == [mType   : WMinerType,
                    graph   : Graph,
                    real    : Graph,
                    holding : Seq(0..(n - 1)),
                    fatal   : BOOLEAN]

\* As many blocks are let go as the real pivot takes.
Ahead(B, real, holding) ==
    holding # <<>> => 0 \in real.ledger /\ B[real.pivotTip].minerID = Adversary

\* The state of the miner when the blocks below n have edges.
WithholdOK(B, n, w) ==
    /\ w \in WithholdType(n) /\ w.fatal = FALSE
    /\ GraphOK(B, n, w.graph) /\ HoldOK(B, n, w.real, w.holding)
    /\ Ahead(B, w.real, w.holding)
    /\ HeldBy(w) \subseteq OwnBlocks(B, n) /\ OwnBlocks(B, n) \subseteq HeldBy(w) \cup w.real.ledger

\* Every graph that is consistent for table B is so for table C.
Keeps(B, n, C, k) == \A h : GraphOK(B, n, h) => GraphOK(C, k, h)

\* What answer a does to miner w: with the blocks of N held back and those of R
\* received, some of those held back are real and broadcast.
Answered(w, a, N, R) ==
    /\ a.mType = w.mType
    /\ a.real.ledger \cup ToSet(a.holding) = w.real.ledger \cup HeldBy(w) \cup N \cup R
    /\ w.real.ledger \cup R \subseteq a.real.ledger
    /\ ToSet(a.holding) \subseteq HeldBy(w) \cup N
    /\ ToSet(a.broadcast) = (HeldBy(w) \cup N) \ ToSet(a.holding)

\* A miner with other graphs and with others held back.
With(w, g, f, c) == [w EXCEPT !.graph = g, !.real = f, !.holding = c]

\* The fields of an answer and of the state in it.
LEMMA AnswerFields ==
    ASSUME NEW n \in Nat, NEW w \in WithholdType(n), NEW g \in Graph, NEW f \in Graph,
           NEW c \in Seq(0..(n - 1)),
           NEW a, a = Answer(With(w, g, f, c))
    PROVE  /\ a \in AnswerType(n) /\ a.mType = w.mType /\ a.graph = g /\ a.real = f
           /\ a.holding = c /\ a.fatal = w.fatal /\ a.broadcast = <<>> /\ a.delayed = {}
<1> DEFINE v == With(w, g, f, c)
<1>0. a = Answer(v)
  OBVIOUS
<1>1. /\ v \in WithholdType(n) /\ v.mType = w.mType /\ v.graph = g /\ v.real = f /\ v.holding = c
      /\ v.fatal = w.fatal
  BY DEF WithholdType, With
<1> HIDE DEF v
<1>2. <<>> \in Seq(0..(n - 1)) /\ {} \in SUBSET (0..(n - 1))
  OBVIOUS
<1>3. /\ a \in AnswerType(n) /\ a.mType = v.mType /\ a.graph = v.graph /\ a.real = v.real
      /\ a.holding = v.holding /\ a.fatal = v.fatal /\ a.broadcast = <<>> /\ a.delayed = {}
  BY <1>0, <1>1, <1>2 DEF Answer, AnswerType, WithholdType
<1> QED BY <1>1, <1>3 DEF v

\* The state in an answer.
LEMMA StateFields ==
    ASSUME NEW n, NEW a \in AnswerType(n)
    PROVE  /\ State(a) \in WithholdType(n) /\ State(a).mType = a.mType /\ State(a).graph = a.graph
           /\ State(a).real = a.real /\ State(a).holding = a.holding /\ State(a).fatal = a.fatal
BY DEF State, AnswerType, WithholdType

\* What can be let go still can when the table grows.
LEMMA HoldStays ==
    ASSUME NEW B, NEW C, NEW n \in Nat, Agree(B, C, n), Keeps(B, n, C, n + 1),
           NEW real, NEW holding, HoldOK(B, n, real, holding)
    PROVE  HoldOK(C, n + 1, real, holding)
<1>1. holding \in Seq(0..(n - 1)) /\ holding \in Seq(0..(n + 1 - 1)) /\ ToSet(holding) \subseteq 0..(n - 1)
  <2>1. holding \in Seq(0..(n - 1))
    BY DEF HoldOK
  <2> QED BY <2>1, SeqGrows, ToSetIs
<1>2. \A b \in ToSet(holding) : Parents(C, b) = Parents(B, b)
  BY <1>1, ParentsStay
<1>3. GraphOK(C, n + 1, real)
  BY DEF HoldOK, Keeps
<1> QED BY <1>1, <1>2, <1>3 DEF HoldOK

\* The miner stays well formed when another one generates a block.
LEMMA WithholdStays ==
    ASSUME NEW B, NEW C, NEW n \in Nat, Agree(B, C, n), Keeps(B, n, C, n + 1),
           C[n].minerID # Adversary, NEW w, WithholdOK(B, n, w)
    PROVE  WithholdOK(C, n + 1, w)
<1> DEFINE k == n + 1
<1>1. HoldOK(C, k, w.real, w.holding) /\ GraphOK(C, k, w.graph)
  BY HoldStays DEF WithholdOK, Keeps
<1>2. w \in WithholdType(k)
  <2>1. w.holding \in Seq(0..(k - 1))
    BY <1>1 DEF HoldOK
  <2> HIDE DEF k
  <2> QED BY <2>1 DEF WithholdOK, WithholdType
<1>3. Ahead(C, w.real, w.holding)
  <2> SUFFICES ASSUME w.holding # <<>> PROVE 0 \in w.real.ledger /\ C[w.real.pivotTip].minerID = Adversary
    BY DEF Ahead
  <2>1. 0 \in w.real.ledger /\ B[w.real.pivotTip].minerID = Adversary /\ GraphOK(B, n, w.real)
    BY DEF WithholdOK, HoldOK, Ahead
  <2>2. w.real.pivotTip \in 0..(n - 1)
    BY <2>1, OwnEdges
  <2> QED BY <2>1, <2>2 DEF Agree
<1>4. OwnBlocks(C, k) = OwnBlocks(B, n)
  <2>1. \A b : b \in 0..(k - 1) <=> b \in 0..(n - 1) \/ b = n
    OBVIOUS
  <2>2. \A b \in 0..(n - 1) : C[b] = B[b]
    BY DEF Agree
  <2> HIDE DEF k
  <2> QED BY <2>1, <2>2 DEF OwnBlocks
<1> HIDE DEF k
<1>5. WithholdOK(C, k, w)
  BY <1>1, <1>2, <1>3, <1>4 DEF WithholdOK
<1> QED BY <1>5 DEF k

\* Table F is B with edges for block n.
Edged(B, n, F) ==
    /\ TableOK(F, n + 1) /\ Agree(B, F, n) /\ Keeps(B, n, F, n + 1)
    /\ F[n].minerID = B[n].minerID

\* The adversary has what its block builds on.
Prepared(w) == /\ 0 \in w.graph.ledger /\ 0 \in w.real.ledger
            /\ w.graph.ledger \subseteq w.real.ledger \cup HeldBy(w)

\* The adversary, which becomes v, has block n too, in the graph it mines on.
AdversaryHas(C, n, w, a, v) ==
    /\ v = State(a) /\ WithholdOK(C, n + 1, v) /\ a \in AnswerType(n + 1)
    /\ v.graph.ledger = w.graph.ledger \cup {n} /\ a.delayed = {}
    /\ Answered(w, a, {n}, {})

\* The adversary generates block n: it enters the graph mined on, is held back,
\* and some of what is held back, the block too perhaps, is let go.
LEMMA WithholdGenerateOK ==
    ASSUME NEW B, NEW F, NEW n, TableOK(B, n), NEW w, WithholdOK(B, n, w),
           Edged(B, n, F), B[n].minerID = Adversary,
           Parents(F, n) \subseteq w.graph.ledger,
           Prepared(w), NEW a, a = WithholdGenerate(F, w, n, Adversary)
    PROVE  AdversaryHas(F, n, w, a, State(a))
<1> DEFINE k == n + 1
           g == Insert(F, w.graph, n)
           c == Append(w.holding, n)
           s == Answer(With(w, g, w.real, c))
<1>0. /\ Agree(B, F, n) /\ Keeps(B, n, F, n + 1) /\ TableOK(F, n + 1) /\ F[n].minerID = Adversary
      /\ w.graph.ledger \subseteq w.real.ledger \cup HeldBy(w) /\ 0 \in w.real.ledger
  BY DEF Edged, Prepared
<1>1. n \in Nat /\ k \in Nat /\ n \in 0..(k - 1)
  BY TableFacts
<1>2. /\ HoldOK(F, k, w.real, w.holding) /\ GraphOK(F, k, w.graph) /\ GraphOK(B, n, w.graph)
      /\ w.holding \in Seq(0..(n - 1)) /\ w.fatal = FALSE
      /\ GraphOK(B, n, w.real)
  <2>1. HoldOK(B, n, w.real, w.holding) /\ GraphOK(B, n, w.graph) /\ w.fatal = FALSE
    BY DEF WithholdOK
  <2>2. HoldOK(F, n + 1, w.real, w.holding)
    BY <1>0, <1>1, <2>1, HoldStays
  <2>3. GraphOK(F, n + 1, w.graph)
    BY <1>0, <2>1 DEF Keeps
  <2>4. w.holding \in Seq(0..(n - 1)) /\ GraphOK(B, n, w.real)
    BY <2>1 DEF HoldOK
  <2> QED BY <2>1, <2>2, <2>3, <2>4
<1>3. GraphOK(F, k, g) /\ g.ledger = w.graph.ledger \cup {n} /\ g \in Graph
  <2>1. n \notin w.graph.ledger
    BY <1>1, <1>2 DEF GraphOK
  <2>2. InsertResult(F, w.graph, n) = "Success"
    BY <2>1 DEF InsertResult, SeenAllAncestors
  <2>4. TableOK(F, k)
    BY <1>0
  <2> HIDE DEF k
  <2>3. GraphOK(F, k, g) /\ g.ledger = w.graph.ledger \cup {n}
    BY <1>1, <1>2, <2>2, <2>4, InsertKeepsGraph, InsertLedger
  <2> QED BY <2>3 DEF GraphOK
<1>4. /\ c \in Seq(0..(k - 1)) /\ ToSet(c) = HeldBy(w) \cup {n} /\ Rising(c)
      /\ HeldBy(w) \subseteq 0..(n - 1) /\ n \notin w.real.ledger
  <2> DEFINE S == 0..(k - 1)
             q == w.holding
  <2>1. q \in Seq(S) /\ n \in S /\ q \in Seq(0..(n - 1)) /\ Rising(q)
    BY <1>1, <1>2 DEF HoldOK
  <2> HIDE DEF S, q
  <2>2. /\ Append(q, n) \in Seq(S) /\ Len(Append(q, n)) = Len(q) + 1
        /\ \A j \in 1..Len(q) : Append(q, n)[j] = q[j]
        /\ Append(q, n)[Len(q) + 1] = n /\ ToSet(Append(q, n)) = ToSet(q) \cup {n}
    BY <2>1, AppendValues
  <2>3. /\ Len(q) \in Nat /\ DOMAIN q = 1..Len(q) /\ DOMAIN Append(q, n) = 1..(Len(q) + 1)
        /\ \A j \in 1..Len(q) : q[j] \in 0..(n - 1)
    BY <2>1, <2>2, LenProperties, ElementOfSeq
  <2>4. Rising(Append(q, n))
    <3> SUFFICES ASSUME NEW i \in 1..(Len(q) + 1), NEW j \in 1..(Len(q) + 1), i < j
                 PROVE  Append(q, n)[i] < Append(q, n)[j]
      BY <2>3 DEF Rising
    <3>1. i \in 1..Len(q) /\ (j \in 1..Len(q) \/ j = Len(q) + 1)
      BY <2>3
    <3>2. CASE j \in 1..Len(q)
      BY <2>1, <2>2, <2>3, <3>1, <3>2 DEF Rising
    <3>3. CASE j = Len(q) + 1
      BY <1>1, <2>2, <2>3, <3>1, <3>3
    <3> QED BY <3>1, <3>2, <3>3
  <2>5. ToSet(q) \subseteq 0..(n - 1)
    BY <2>1, ToSetIs
  <2>6. n \notin w.real.ledger
    BY <1>1, <1>2 DEF GraphOK
  <2> QED BY <2>2, <2>4, <2>5, <2>6 DEF S, q, HeldBy
<1> HIDE DEF g, c
<1>5. w \in WithholdType(k)
  <2>1. w.holding \in Seq(0..(k - 1))
    BY <1>2 DEF HoldOK
  <2> HIDE DEF k
  <2> QED BY <2>1 DEF WithholdOK, WithholdType
<1>6. w.real \in Graph /\ With(w, g, w.real, c) = [w EXCEPT !.graph = g, !.holding = c]
  BY <1>5 DEF WithholdType, With
<1>7. a = CheckBroadCast(F, s, Adversary)
  BY <1>6 DEF WithholdGenerate, g, c
<1>8. /\ s \in AnswerType(k) /\ s.mType = w.mType /\ s.graph = g /\ s.real = w.real
      /\ s.holding = c /\ s.fatal = w.fatal /\ s.broadcast = <<>> /\ s.delayed = {}
  <2>1. s = Answer(With(w, g, w.real, c))
    OBVIOUS
  <2>2. k \in Nat /\ w \in WithholdType(k) /\ g \in Graph /\ w.real \in Graph /\ c \in Seq(0..(k - 1))
    BY <1>1, <1>3, <1>4, <1>5, <1>6
  <2> HIDE DEF k, s
  <2> QED BY <2>1, <2>2, AnswerFields
<1> HIDE DEF s
<1>9. HoldOK(F, k, s.real, s.holding)
  <2>1. \A b \in ToSet(c) : Parents(F, b) \subseteq w.real.ledger \cup ToSet(c)
    BY <1>0, <1>2, <1>4 DEF HoldOK, HeldBy
  <2>2. ToSet(c) \cap w.real.ledger = {}
    BY <1>2, <1>4 DEF HoldOK, HeldBy
  <2>3. GraphOK(F, k, w.real)
    BY <1>2 DEF HoldOK
  <2> HIDE DEF k
  <2> QED BY <1>4, <1>8, <2>1, <2>2, <2>3 DEF HoldOK
<1>10. LetGo(F, k, s, a) /\ ~ Overtaken(F, a, Adversary)
  <2>1. TableOK(F, k)
    BY <1>0
  <2> HIDE DEF k
  <2> QED BY <1>7, <1>8, <1>9, <2>1, CheckBroadCastOK
<1>11. ToSet(<<>>) = {}
  BY DEF ToSet
<1>12. Answered(w, a, {n}, {}) /\ a \in AnswerType(k) /\ a.graph = g /\ a.delayed = {}
  <2> HIDE DEF k
  <2> QED BY <1>4, <1>8, <1>10, <1>11 DEF LetGo, Answered
<1>13. WithholdOK(F, k, State(a))
  <2> DEFINE v == State(a)
  <2>1. /\ v \in WithholdType(k) /\ v.mType = a.mType /\ v.graph = a.graph
        /\ v.real = a.real /\ v.holding = a.holding /\ v.fatal = a.fatal
    BY <1>12, StateFields
  <2> HIDE DEF v
  <2>2. HoldOK(F, k, a.real, a.holding) /\ a.fatal = FALSE
    BY <1>2, <1>8, <1>10 DEF LetGo
  <2>3. Ahead(F, a.real, a.holding)
    BY <1>0, <1>10, <1>12 DEF Overtaken, Ahead, Answered
  <2>4. OwnBlocks(F, k) = OwnBlocks(B, n) \cup {n}
    <3>1. \A b : b \in 0..(k - 1) <=> b \in 0..(n - 1) \/ b = n
      BY <1>1
    <3>2. \A b \in 0..(n - 1) : F[b] = B[b]
      BY <1>0 DEF Agree
    <3> HIDE DEF k
    <3> QED BY <1>0, <3>1, <3>2 DEF OwnBlocks
  <2>5. /\ ToSet(a.holding) \subseteq HeldBy(w) \cup {n}
        /\ HeldBy(w) \cup w.real.ledger \cup {n} = ToSet(a.holding) \cup a.real.ledger
    BY <1>12 DEF Answered
  <2>6. HeldBy(w) \subseteq OwnBlocks(B, n) /\ OwnBlocks(B, n) \subseteq HeldBy(w) \cup w.real.ledger
    BY DEF WithholdOK
  <2>7. HeldBy(v) = ToSet(a.holding)
    BY <2>1 DEF HeldBy
  <2>8. HeldBy(v) \subseteq OwnBlocks(F, k) /\ OwnBlocks(F, k) \subseteq HeldBy(v) \cup v.real.ledger
    BY <2>1, <2>4, <2>5, <2>6, <2>7
  <2> HIDE DEF k
  <2> QED BY <1>3, <1>12, <2>1, <2>2, <2>3, <2>8 DEF WithholdOK, v
<1>14. State(a).graph = a.graph
  BY DEF State
<1> QED BY <1>3, <1>12, <1>13, <1>14 DEF AdversaryHas

\* Whether the adversary inserts b in the graph it mines on at once.
AtOnce(B, w, b) == B[b].minerID = NoMiner \/ w.mType = "selfish" \/ HalfDiameter = 0

\* What an answer to block b does to the graph mined on: it gets the block now
\* or later, if the miner has not had it before.
GraphAnswer(B, w, a, b) ==
    \/ a.delayed = {} /\ a.graph.ledger = w.graph.ledger \cup {b}
    \/ a.delayed = {} /\ a.graph = w.graph /\ b \in w.real.ledger
    \/ a.delayed = {b} /\ a.graph = w.graph /\ b \notin w.real.ledger /\ ~ AtOnce(B, w, b)

\* The adversary receives a block whose ancestors it has received: the program
\* is not ended, and some of what is held back is let go.
LEMMA WithholdReceiveOK ==
    ASSUME NEW B, NEW n, TableOK(B, n), NEW w, WithholdOK(B, n, w),
           NEW b \in 0..(n - 1), B[b].minerID # Adversary, B[b].minerID = NoMiner => b = 0,
           Parents(B, b) \subseteq w.real.ledger,
           AtOnce(B, w, b) => Parents(B, b) \subseteq w.graph.ledger,
           NEW a, a = WithholdReceive(B, w, b, Adversary)
    PROVE  /\ WithholdOK(B, n, State(a)) /\ a \in AnswerType(n)
           /\ GraphAnswer(B, w, a, b) /\ Answered(w, a, {}, {b})
<1> DEFINE R == Insert(B, w.real, b)
           G == Insert(B, w.graph, b)
<1>1. /\ n \in Nat /\ w \in WithholdType(n) /\ w.fatal = FALSE /\ w.real \in Graph /\ w.graph \in Graph
      /\ HoldOK(B, n, w.real, w.holding) /\ GraphOK(B, n, w.graph) /\ GraphOK(B, n, w.real)
      /\ w.holding \in Seq(0..(n - 1)) /\ Ahead(B, w.real, w.holding)
      /\ HeldBy(w) \subseteq OwnBlocks(B, n) /\ OwnBlocks(B, n) \subseteq HeldBy(w) \cup w.real.ledger
  BY TableFacts DEF WithholdOK, HoldOK, GraphOK
<1>2. b \notin HeldBy(w)
  BY <1>1 DEF OwnBlocks
<1>3. /\ GraphOK(B, n, R) /\ R \in Graph /\ R.ledger = w.real.ledger \cup {b}
      /\ b \in w.real.ledger => R = w.real
  <2>1. b \notin w.real.ledger => InsertResult(B, w.real, b) = "Success"
    BY DEF InsertResult, SeenAllAncestors
  <2>2. b \in w.real.ledger => InsertResult(B, w.real, b) # "Success" /\ R = w.real
    BY DEF InsertResult, Insert
  <2>3. GraphOK(B, n, R) /\ R.ledger = w.real.ledger \cup {b}
    BY <1>1, <2>1, <2>2, InsertKeepsGraph, InsertLedger
  <2> QED BY <2>2, <2>3 DEF GraphOK
<1>4. /\ GraphOK(B, n, G) /\ G \in Graph
      /\ AtOnce(B, w, b) => G.ledger = w.graph.ledger \cup {b}
  <2>1. b \notin w.graph.ledger /\ AtOnce(B, w, b) => InsertResult(B, w.graph, b) = "Success"
    BY DEF InsertResult, SeenAllAncestors
  <2>2. b \in w.graph.ledger => InsertResult(B, w.graph, b) # "Success"
    BY DEF InsertResult
  <2>3. GraphOK(B, n, G) /\ (AtOnce(B, w, b) => G.ledger = w.graph.ledger \cup {b})
    BY <1>1, <2>1, <2>2, InsertKeepsGraph, InsertLedger
  <2> QED BY <2>3 DEF GraphOK
<1> HIDE DEF R, G
<1>5. HoldOK(B, n, R, w.holding)
  <2>1. ToSet(w.holding) \cap R.ledger = {}
    BY <1>1, <1>2, <1>3 DEF HoldOK, HeldBy
  <2>2. \A x \in ToSet(w.holding) : Parents(B, x) \subseteq R.ledger \cup ToSet(w.holding)
    BY <1>1, <1>3 DEF HoldOK
  <2> QED BY <1>1, <1>3, <2>1, <2>2 DEF HoldOK
<1>6. ToSet(<<>>) = {}
  BY DEF ToSet
<1>7. ASSUME a \in AnswerType(n), a.fatal = FALSE, GraphOK(B, n, a.graph), HoldOK(B, n, a.real, a.holding),
             Ahead(B, a.real, a.holding), Answered(w, a, {}, {b})
      PROVE  WithholdOK(B, n, State(a))
  <2> DEFINE v == State(a)
  <2>1. /\ v \in WithholdType(n) /\ v.graph = a.graph
        /\ v.real = a.real /\ v.holding = a.holding /\ v.fatal = a.fatal
    BY <1>7, StateFields
  <2> HIDE DEF v
  <2>2. HeldBy(v) \subseteq OwnBlocks(B, n) /\ OwnBlocks(B, n) \subseteq HeldBy(v) \cup v.real.ledger
    BY <1>1, <1>7, <2>1 DEF Answered, HeldBy
  <2>3. WithholdOK(B, n, v)
    BY <1>7, <2>1, <2>2 DEF WithholdOK
  <2> QED BY <2>3 DEF v
<1>8. CASE B[b].minerID = NoMiner
  <2>1. a = Answer(With(w, G, R, w.holding))
    <3>1. a = Answer([w EXCEPT !.real = R, !.graph = G])
      BY <1>8 DEF WithholdReceive, R, G
    <3>2. [w EXCEPT !.real = R, !.graph = G] = With(w, G, R, w.holding)
      BY <1>1 DEF With, WithholdType
    <3> QED BY <3>1, <3>2
  <2>2. /\ a \in AnswerType(n) /\ a.mType = w.mType /\ a.graph = G /\ a.real = R
        /\ a.holding = w.holding /\ a.fatal = w.fatal /\ a.broadcast = <<>> /\ a.delayed = {}
    BY <1>1, <1>3, <1>4, <2>1, AnswerFields
  <2>3. Ahead(B, R, w.holding)
    BY <1>1, <1>3, <1>8 DEF Ahead
  <2>4. Answered(w, a, {}, {b}) /\ GraphAnswer(B, w, a, b)
    BY <1>3, <1>4, <1>6, <1>8, <2>2 DEF Answered, GraphAnswer, HeldBy, AtOnce
  <2> QED BY <1>1, <1>4, <1>5, <1>7, <2>2, <2>3, <2>4
<1>9. CASE B[b].minerID # NoMiner /\ b \in w.real.ledger
  <2>1. a = Answer(With(w, w.graph, w.real, w.holding))
    <3>1. InsertResult(B, w.real, b) = "Existing"
      BY <1>9 DEF InsertResult
    <3>2. a = Answer(w)
      BY <1>9, <3>1 DEF WithholdReceive
    <3>3. w = With(w, w.graph, w.real, w.holding)
      BY <1>1 DEF With, WithholdType
    <3> QED BY <3>2, <3>3
  <2>2. /\ a \in AnswerType(n) /\ a.mType = w.mType /\ a.graph = w.graph /\ a.real = w.real
        /\ a.holding = w.holding /\ a.fatal = w.fatal /\ a.broadcast = <<>> /\ a.delayed = {}
    BY <1>1, <2>1, AnswerFields
  <2>3. Answered(w, a, {}, {b}) /\ GraphAnswer(B, w, a, b)
    BY <1>6, <1>9, <2>2 DEF Answered, GraphAnswer, HeldBy
  <2> QED BY <1>1, <1>7, <2>2, <2>3
<1>10. CASE B[b].minerID # NoMiner /\ b \notin w.real.ledger
  <2> DEFINE s0 == Answer(With(w, w.graph, R, w.holding))
             s  == GraphInsert(B, s0, b)
  <2>1. a = CheckBroadCast(B, s, Adversary)
    <3>1. InsertResult(B, w.real, b) = "Success"
      BY <1>10 DEF InsertResult, SeenAllAncestors
    <3>2. a = CheckBroadCast(B, GraphInsert(B, Answer([w EXCEPT !.real = R]), b), Adversary)
      BY <1>10, <3>1 DEF WithholdReceive, R
    <3>3. [w EXCEPT !.real = R] = With(w, w.graph, R, w.holding)
      BY <1>1 DEF With, WithholdType
    <3> QED BY <3>2, <3>3
  <2>2. /\ s0 \in AnswerType(n) /\ s0.mType = w.mType /\ s0.graph = w.graph /\ s0.real = R
        /\ s0.holding = w.holding /\ s0.fatal = w.fatal /\ s0.broadcast = <<>> /\ s0.delayed = {}
    <3>1. s0 = Answer(With(w, w.graph, R, w.holding))
      OBVIOUS
    <3> HIDE DEF s0
    <3> QED BY <1>1, <1>3, <3>1, AnswerFields
  <2> HIDE DEF s0
  <2>3. /\ s \in AnswerType(n) /\ s.mType = w.mType /\ s.real = R /\ s.holding = w.holding
        /\ s.fatal = w.fatal /\ s.broadcast = <<>> /\ GraphAnswer(B, w, s, b) /\ GraphOK(B, n, s.graph)
    <3>1. CASE w.mType = "selfish" \/ HalfDiameter = 0
      <4>1. s = [s0 EXCEPT !.graph = G]
        BY <2>2, <3>1 DEF GraphInsert, G
      <4> HIDE DEF s
      <4>2. /\ s \in AnswerType(n) /\ s.mType = w.mType /\ s.real = R /\ s.holding = w.holding
            /\ s.fatal = w.fatal /\ s.broadcast = <<>> /\ s.delayed = {} /\ s.graph = G
        BY <1>4, <2>2, <4>1 DEF AnswerType
      <4> QED BY <1>4, <3>1, <4>2 DEF GraphAnswer, AtOnce
    <3>2. CASE ~ (w.mType = "selfish" \/ HalfDiameter = 0)
      <4>1. s = [s0 EXCEPT !.delayed = {b}]
        BY <2>2, <3>2 DEF GraphInsert
      <4>2. {b} \in SUBSET (0..(n - 1))
        OBVIOUS
      <4> HIDE DEF s
      <4>3. /\ s \in AnswerType(n) /\ s.mType = w.mType /\ s.real = R /\ s.holding = w.holding
            /\ s.fatal = w.fatal /\ s.broadcast = <<>> /\ s.delayed = {b} /\ s.graph = w.graph
        BY <2>2, <4>1, <4>2 DEF AnswerType
      <4> QED BY <1>1, <1>10, <3>2, <4>3 DEF GraphAnswer, AtOnce
    <3> QED BY <3>1, <3>2
  <2> HIDE DEF s
  <2>4. HoldOK(B, n, s.real, s.holding)
    BY <1>5, <2>3
  <2>5. LetGo(B, n, s, a) /\ ~ Overtaken(B, a, Adversary)
    BY <2>1, <2>3, <2>4, CheckBroadCastOK
  <2>6. /\ a.graph = s.graph /\ a.delayed = s.delayed /\ a.fatal = FALSE /\ a \in AnswerType(n)
        /\ HoldOK(B, n, a.real, a.holding)
    BY <1>1, <2>3, <2>5 DEF LetGo
  <2>7. Answered(w, a, {}, {b})
    BY <1>3, <1>6, <2>3, <2>5 DEF LetGo, Answered, HeldBy
  <2>8. GraphAnswer(B, w, a, b) /\ GraphOK(B, n, a.graph)
    BY <2>3, <2>6 DEF GraphAnswer
  <2>9. Ahead(B, a.real, a.holding)
    <3> SUFFICES ASSUME a.holding # <<>> PROVE 0 \in a.real.ledger
      BY <2>5 DEF Overtaken, Ahead
    <3>1. w.holding # <<>>
      <4> SUFFICES ASSUME w.holding = <<>> PROVE FALSE
        OBVIOUS
      <4>1. ToSet(a.holding) = {}
        BY <1>6, <2>7 DEF Answered, HeldBy
      <4>2. PICK c \in Seq(0..(n - 1)) : c = a.holding
        BY <2>6 DEF AnswerType
      <4>3. Len(c) \in Nat /\ Len(c) # 0 /\ ToSet(c) = {c[i] : i \in 1..Len(c)}
        BY <4>2, EmptySeq, LenProperties, ToSetIs
      <4>4. 1 \in 1..Len(c)
        BY <4>3
      <4>5. c[1] \in ToSet(c)
        BY <4>3, <4>4
      <4> QED BY <4>1, <4>2, <4>5
    <3> QED BY <1>1, <2>7, <3>1 DEF Ahead, Answered
  <2> QED BY <1>7, <2>6, <2>7, <2>8, <2>9
<1> QED BY <1>8, <1>9, <1>10

\* A delayed block whose ancestors are in the graph mined on enters it.
LEMMA DelayedInsertOK ==
    ASSUME NEW B, NEW n, TableOK(B, n), NEW w, WithholdOK(B, n, w),
           NEW b \in 0..(n - 1), Parents(B, b) \subseteq w.graph.ledger,
           NEW v, v = DelayedInsert(B, w, b)
    PROVE  /\ WithholdOK(B, n, v) /\ v.mType = w.mType /\ v.real = w.real /\ v.holding = w.holding
           /\ v.graph.ledger = w.graph.ledger \cup {b}
<1> DEFINE G == Insert(B, w.graph, b)
<1>1. w \in WithholdType(n) /\ GraphOK(B, n, w.graph)
  BY DEF WithholdOK
<1>2. GraphOK(B, n, G) /\ G.ledger = w.graph.ledger \cup {b} /\ G \in Graph
  <2>1. b \notin w.graph.ledger => InsertResult(B, w.graph, b) = "Success"
    BY DEF InsertResult, SeenAllAncestors
  <2>2. b \in w.graph.ledger => InsertResult(B, w.graph, b) # "Success"
    BY DEF InsertResult
  <2>3. GraphOK(B, n, G) /\ G.ledger = w.graph.ledger \cup {b}
    BY <1>1, <2>1, <2>2, InsertKeepsGraph, InsertLedger
  <2> QED BY <2>3 DEF GraphOK
<1> HIDE DEF G
<1>3. v = [w EXCEPT !.graph = G]
  BY DEF DelayedInsert, G
<1>4. /\ v \in WithholdType(n) /\ v.mType = w.mType /\ v.real = w.real /\ v.holding = w.holding
      /\ v.fatal = w.fatal /\ v.graph = G
  BY <1>1, <1>2, <1>3 DEF WithholdType
<1>5. WithholdOK(B, n, v)
  BY <1>2, <1>4 DEF WithholdOK, HeldBy
<1> QED BY <1>2, <1>4, <1>5

-----------------------------------------------------------------------------
(***************************************************************************)
(* The next block gets its edges, whoever gives them.                      *)
(***************************************************************************)
Counts(B, n) == \A b \in 0..(n - 1) : B[b].ancestorNum = Cardinality(B[b].past)

\* The table when the blocks below n have edges.
BlocksOK(B, n) ==
    /\ TableOK(B, n) /\ PastOK(B, n) /\ Counts(B, n) /\ n <= MaxBlock
    /\ B[0].minerID = NoMiner /\ \A b \in 1..n : B[b].minerID \in Miners

\* Block n of table B, which is mined, gets edges in F; the next one is mined
\* in C.
LEMMA NextBlock ==
    ASSUME NEW B, NEW n, BlocksOK(B, n), n < MaxBlock,
           NEW p \in 0..(n - 1), NEW refs \in SUBSET (0..(n - 1)), NEW anc \in Nat,
           anc = Cardinality(PastOf(B, p, refs)),
           NEW F, F = LinkBlock(B, n, p, refs, anc),
           NEW m \in Miners, NEW r \in 0..MaxResidual, NEW C, C = MineBlock(F, n + 1, m, r)
    PROVE  /\ TableOK(F, n + 1) /\ Agree(B, F, n) /\ Keeps(B, n, F, n + 1)
           /\ F[n].minerID = B[n].minerID /\ Parents(F, n) = refs \cup {p}
           /\ BlocksOK(C, n + 1) /\ Agree(F, C, n + 1) /\ Agree(B, C, n)
           /\ Keeps(F, n + 1, C, n + 1) /\ Keeps(B, n, C, n + 1)
           /\ C[n].minerID = B[n].minerID /\ Parents(C, n) = refs \cup {p}
<1> DEFINE k == n + 1
           o == B[n].minerID
           q == B[n].residual
<1>1. /\ n \in Nat /\ k \in Nat /\ k <= MaxBlock /\ n <= MaxBlock /\ n \in BlockIds /\ MaxBlock \in Nat
      /\ TableOK(B, n) /\ PastOK(B, n) /\ Counts(B, n) /\ n >= 1 /\ o \in Miners
      /\ \A b \in 1..n : B[b].minerID \in Miners
  BY BlockAssumption, TableFacts DEF BlockIds, BlocksOK
<1>2. q \in 0..MaxResidual /\ MineBlock(B, n, o, q) = B
  <2>1. B \in [BlockIds -> Block]
    BY <1>1 DEF TableOK
  <2>2. q \in 0..MaxResidual
    BY <1>1, <2>1 DEF Block
  <2> QED BY <1>1, <2>2, MineKeepsTable
<1>3. F = LinkBlock(MineBlock(B, n, o, q), n, p, refs, anc)
  BY <1>2
<1> HIDE DEF o, q
<1>4. /\ TableOK(F, k) /\ Agree(B, F, n) /\ Filled(F, n, o, p, refs) /\ Keeps(B, n, F, k)
  <2>1. \A g : GraphOK(B, n, g) => GraphOK(F, k, g)
    BY <1>1, <1>2, <1>3, NewBlockKeepsGraph
  <2>2. TableOK(F, k) /\ Agree(B, F, n) /\ Filled(F, n, o, p, refs)
    BY <1>1, <1>2, <1>3, NewBlockKeepsGraph
  <2> HIDE DEF k
  <2> QED BY <2>1, <2>2 DEF Keeps
<1>5. F[n].minerID = o /\ F[n].parent = p /\ F[n].references = refs /\ Parents(F, n) = refs \cup {p}
  <2>1. F[n].minerID = o /\ F[n].parent = p /\ F[n].references = refs
    BY <1>4 DEF Filled
  <2>2. p # -1
    BY <1>1
  <2> QED BY <2>1, <2>2 DEF Parents, IsGenesis
<1>6. F[n].past = PastOf(B, p, refs) /\ F[n].ancestorNum = anc
  <2>1. B \in [BlockIds -> Block]
    BY <1>1 DEF TableOK
  <2> DEFINE P == PastOf(B, p, refs)
             H == B[p].height + 1
             K == B[p].chain \cup {n}
             X == [B[n] EXCEPT !.parent = p, !.references = refs, !.height = H,
                               !.ancestorNum = anc, !.chain = K, !.past = P]
  <2>2. F = [B EXCEPT ![n] = X]
    BY DEF LinkBlock
  <2>3. B[n] \in Block
    BY <1>1, <2>1
  <2>4. X.past = P /\ X.ancestorNum = anc
    <3> DEFINE x == B[n]
    <3> HIDE DEF P, H, K, x
    <3> QED BY <2>3 DEF Block, x
  <2> HIDE DEF X
  <2> QED BY <1>1, <2>1, <2>2, <2>4
<1>7. F[n].past = PastOf(F, F[n].parent, F[n].references)
  <2>1. \A x \in {p} \cup refs : F[x] = B[x]
    BY <1>4 DEF Agree
  <2>2. PastOf(F, p, refs) = PastOf(B, p, refs)
    BY <2>1 DEF PastOf
  <2> QED BY <1>5, <1>6, <2>2
<1>8. \A b \in 0..(k - 1) : b \in 0..(n - 1) \/ b = n
  BY <1>1
<1>9. \A b \in 1..(k - 1) : b \in 1..(n - 1) \/ b = n
  BY <1>1
<1>10. TableOK(C, k) /\ Agree(F, C, k) /\ C[k].minerID = m
  <2> HIDE DEF k
  <2> QED BY <1>1, <1>4, MineKeepsTable DEF k
<1>11. Keeps(F, k, C, k)
  <2> HIDE DEF k
  <2> QED BY <1>4, <1>10, AgreeKeepsGraph DEF Keeps
<1>12. Keeps(B, n, C, k)
  <2> HIDE DEF k
  <2> QED BY <1>4, <1>11 DEF Keeps
<1>13. C[n] = F[n] /\ n \in 0..(k - 1) /\ \A b \in 0..(n - 1) : C[b] = B[b]
  <2>1. n \in 0..(k - 1) /\ \A b \in 0..(n - 1) : b \in 0..(k - 1)
    BY <1>1
  <2> HIDE DEF k
  <2> QED BY <1>4, <1>10, <2>1 DEF Agree
<1>14. Agree(B, C, n)
  BY <1>13 DEF Agree
<1>15. PastOK(C, k)
  <2>1. PastOK(F, n)
    BY <1>1, <1>4, PastStays
  <2>2. F[0].past = {} /\ \A b \in 1..(n - 1) : F[b].past = PastOf(F, F[b].parent, F[b].references)
    BY <2>1 DEF PastOK
  <2> HIDE DEF k
  <2>3. \A b \in 1..(k - 1) : F[b].past = PastOf(F, F[b].parent, F[b].references)
    BY <1>7, <1>9, <2>2
  <2>4. PastOK(F, k)
    BY <2>2, <2>3 DEF PastOK
  <2> QED BY <1>4, <1>10, <2>4, PastStays
<1>16. Counts(C, k)
  <2> HIDE DEF k
  <2>1. C[n].ancestorNum = Cardinality(C[n].past)
    BY <1>6, <1>13
  <2>2. \A b \in 0..(n - 1) : C[b].ancestorNum = Cardinality(C[b].past)
    BY <1>1, <1>13 DEF Counts
  <2> QED BY <1>8, <2>1, <2>2 DEF Counts
<1>17. C[0].minerID = NoMiner /\ \A b \in 1..k : C[b].minerID \in Miners
  <2>1. 0 \in 0..(n - 1) /\ B[0].minerID = NoMiner
    BY <1>1 DEF BlocksOK
  <2>2. \A b \in 1..k : b = k \/ b = n \/ (b \in 0..(n - 1) /\ b \in 1..n)
    BY <1>1
  <2> HIDE DEF k
  <2> QED BY <1>1, <1>5, <1>10, <1>13, <2>1, <2>2
<1>18. Parents(C, n) = refs \cup {p}
  BY <1>5, <1>13 DEF Parents, IsGenesis
<1> HIDE DEF k
<1>19. BlocksOK(C, k)
  BY <1>1, <1>10, <1>15, <1>16, <1>17 DEF BlocksOK
<1> QED BY <1>4, <1>5, <1>10, <1>11, <1>12, <1>13, <1>14, <1>18, <1>19 DEF k, o

\* The edges fillNewBlock takes from a graph.
LEMMA FillEdges ==
    ASSUME NEW B, NEW n, BlocksOK(B, n), NEW g, GraphOK(B, n, g), 0 \in g.ledger
    PROVE  /\ g.pivotTip \in 0..(n - 1) /\ g.tips \ {g.pivotTip} \in SUBSET (0..(n - 1))
           /\ g.totalWeight \in Nat
           /\ g.totalWeight = Cardinality(PastOf(B, g.pivotTip, g.tips \ {g.pivotTip}))
           /\ (g.tips \ {g.pivotTip}) \cup {g.pivotTip} \subseteq g.ledger
<1>1. TableOK(B, n) /\ PastOK(B, n)
  BY DEF BlocksOK
<1>2. PastOf(B, g.pivotTip, g.tips \ {g.pivotTip}) = g.ledger
  BY <1>1, TipsCoverLedger
<1>3. g.totalWeight = Cardinality(g.ledger)
  BY DEF GraphOK, Consistent, WeightsExact
<1> QED BY <1>2, <1>3, OwnEdges

\* A selfish miner's block has one ancestor more than its parent.
LEMMA SelfishEdges ==
    ASSUME NEW B, NEW n, BlocksOK(B, n), NEW p \in 0..(n - 1)
    PROVE  /\ B[p].ancestorNum + 1 \in Nat
           /\ B[p].ancestorNum + 1 = Cardinality(PastOf(B, p, {}))
<1>1. TableOK(B, n) /\ PastOK(B, n) /\ n \in Nat /\ B[p].ancestorNum = Cardinality(B[p].past)
  BY TableFacts DEF BlocksOK, Counts
<1>2. PastOf(B, p, {}) = B[p].past \cup {p}
  BY DEF PastOf
<1>3. B[p].past \subseteq 0..(p - 1)
  BY <1>1, PastFacts
<1>4. IsFiniteSet(B[p].past) /\ p \notin B[p].past
  <2>1. IsFiniteSet(0..(p - 1)) /\ p \notin 0..(p - 1)
    BY <1>1, FS_Interval
  <2> QED BY <1>3, <2>1, FS_Subset
<1>5. PICK S : S = B[p].past
  OBVIOUS
<1>6. Cardinality(S \cup {p}) = Cardinality(S) + 1 /\ Cardinality(S) \in Nat
  BY <1>4, <1>5, FS_AddElement, FS_CardinalityType
<1>7. PastOf(B, p, {}) = S \cup {p}
  BY <1>2, <1>5
<1>8. PICK k \in Nat : k = Cardinality(S)
  BY <1>6
<1>9. B[p].ancestorNum = k /\ Cardinality(S \cup {p}) = k + 1
  BY <1>1, <1>5, <1>6, <1>8
<1> QED BY <1>7, <1>8, <1>9

-----------------------------------------------------------------------------
(***************************************************************************)
(* The invariant, of the table B with n blocks that have edges, the queue  *)
(* q, the honest miners ms and the adversary w.                            *)
(***************************************************************************)
IsGenBlock(n, e) ==
    /\ e = GenBlock(e.timestamp, n) /\ e.timestamp \in Nat \ {0}
    /\ e.timestamp <= Duration => n < MaxBlock
IsBroadcast(n, e) ==
    /\ e = Broadcast(e.timestamp, e.block) /\ e.block \in 0..(n - 1)
    /\ e.timestamp \in Nat /\ (e.block = 0 => e.timestamp = 0)
IsSendBlock(B, n, e) ==
    /\ e = SendBlock(e.timestamp, e.block, e.receiver)
    /\ e.block \in 0..(n - 1) /\ e.receiver \in Miners \ {B[e.block].minerID}
    /\ e.timestamp \in Nat /\ (e.block = 0 => e.timestamp = 0)
IsDelayInsert(B, n, e) ==
    /\ e = DelayInsert(e.timestamp, e.block)
    /\ e.block \in 0..(n - 1) /\ B[e.block].minerID \in HonestMiners
    /\ e.timestamp \in Nat

Kinds(B, n, e) == IsGenBlock(n, e) \/ IsBroadcast(n, e) \/ IsSendBlock(B, n, e) \/ IsDelayInsert(B, n, e)

Events(B, n, q) ==
    /\ \A e \in q : Kinds(B, n, e)
    /\ \A e, f \in q : e.type = "GenBlock" /\ f.type = "GenBlock" => e = f

HonestType == [graph : Graph, cache : Seq(BlockIds)]

HonestOK(B, n, ms) ==
    /\ ms \in [HonestMiners -> HonestType]
    /\ \A m \in HonestMiners : MinerOK(B, n, ms[m].graph, ms[m].cache)

\* What is held back is in no event and with no honest miner, and the blocks of
\* honest miners do not build on it.
Secret(B, n, q, ms, held) ==
    /\ \A b \in held : /\ \A m \in HonestMiners : b \notin ms[m].graph.ledger
                                                  /\ b \notin ToSet(ms[m].cache)
                       /\ \A e \in q : e.block # b
    /\ \A b \in 0..(n - 1) : B[b].minerID \in HonestMiners => Parents(B, b) \cap held = {}

\* The delay of the blocks of honest miners on their way to the adversary.
InDelay == IF Adversary \in Attackers THEN AttackerIn ELSE HonestDelay

\* The event brings the adversary the block of an honest miner, and when that
\* block was generated.
Towards(B, e) == /\ B[e.block].minerID \in HonestMiners
                 /\ \/ e.type = "Broadcast" \/ e.type = "DelayInsert"
                    \/ e.type = "SendBlock" /\ e.receiver = Adversary

Lag(e) == IF e.type = "Broadcast" THEN 0
          ELSE IF e.type = "SendBlock" THEN InDelay ELSE InDelay + HalfDiameter

Birth(e) == e.timestamp - Lag(e)

\* The blocks of honest miners come to the adversary in a line: one event for
\* each, and those generated before come before.
Line(B, q) ==
    /\ \A e, f \in q : Towards(B, e) /\ Towards(B, f) =>
          (e.block < f.block => Birth(e) < Birth(f)) /\ (e.block = f.block => e = f)
    /\ \A e, f \in q : Towards(B, e) /\ f.type = "GenBlock" => Birth(e) < f.timestamp

Coming(B, n, q, known) ==
    \A b \in 0..(n - 1) : B[b].minerID \in HonestMiners =>
        b \in known \/ \E e \in q : e.block = b /\ Towards(B, e) /\ e.type # "DelayInsert"

DelayedIn(q) == {e.block : e \in {f \in q : f.type = "DelayInsert"}}

Mining(q, w) == /\ w.graph.ledger = (w.real.ledger \cup HeldBy(w)) \ DelayedIn(q)
                /\ DelayedIn(q) \subseteq w.real.ledger

HasGenesis(m, ms, w) == IF m = Adversary THEN 0 \in w.real.ledger ELSE 0 \in ms[m].graph.ledger

\* Genesis is on its way to miner m.
Waits(q, m) == \E e \in q : e.block = 0 /\ (e.type = "Broadcast" \/ (e.type = "SendBlock" /\ e.receiver = m))

Started(q, ms, w) == \A m \in Miners : HasGenesis(m, ms, w) \/ Waits(q, m)

Still(B, n, q, ms, w) ==
    /\ BlocksOK(B, n) /\ HonestOK(B, n, ms) /\ WithholdOK(B, n, w) /\ Events(B, n, q)
    /\ w.mType = "selfish" \/ HalfDiameter = 0 => DelayedIn(q) = {}
    /\ Secret(B, n, q, ms, HeldBy(w))
    /\ n > 1 => 0 \in w.real.ledger

\* What the adversary has let go of is with every honest miner or comes to him.
Public(B, n, q, ms, held) ==
    \A b \in OwnBlocks(B, n) \ held : \A m \in HonestMiners : Reached(q, ms[m], b, m)

Running(B, n, q, ms, w) ==
    /\ Line(B, q) /\ Coming(B, n, q, w.real.ledger) /\ Mining(q, w) /\ Started(q, ms, w)
    /\ Public(B, n, q, ms, HeldBy(w))

IInv == /\ timestamp \in Nat /\ running \in BOOLEAN /\ mined \in Nat
        /\ Still(blocks, mined - 1, queue, miners, wm)
        /\ running => Running(blocks, mined - 1, queue, miners, wm)

-----------------------------------------------------------------------------
(***************************************************************************)
(* Events.                                                                 *)
(***************************************************************************)
\* The fields of the four kinds of event.
LEMMA EventFields ==
    ASSUME NEW t, NEW b, NEW m
    PROVE  /\ GenBlock(t, b).type = "GenBlock" /\ GenBlock(t, b).timestamp = t /\ GenBlock(t, b).block = b
           /\ Broadcast(t, b).type = "Broadcast" /\ Broadcast(t, b).timestamp = t
           /\ Broadcast(t, b).block = b
           /\ SendBlock(t, b, m).type = "SendBlock" /\ SendBlock(t, b, m).timestamp = t
           /\ SendBlock(t, b, m).block = b /\ SendBlock(t, b, m).receiver = m
           /\ DelayInsert(t, b).type = "DelayInsert" /\ DelayInsert(t, b).timestamp = t
           /\ DelayInsert(t, b).block = b
BY DEF GenBlock, Broadcast, SendBlock, DelayInsert

\* The type of an event tells its kind.
LEMMA EventKinds ==
    ASSUME NEW B, NEW n \in Nat, NEW e, Kinds(B, n, e)
    PROVE  /\ IsGenBlock(n, e) <=> e.type = "GenBlock"
           /\ IsBroadcast(n, e) <=> e.type = "Broadcast"
           /\ IsSendBlock(B, n, e) <=> e.type = "SendBlock"
           /\ IsDelayInsert(B, n, e) <=> e.type = "DelayInsert"
           /\ e.timestamp \in Nat /\ e.block \in 0..n
           /\ e.type # "GenBlock" => e.block \in 0..(n - 1)
<1>1. IsGenBlock(n, e) => e.type = "GenBlock" /\ e.block = n /\ e.timestamp \in Nat
  BY EventFields DEF IsGenBlock
<1>2. IsBroadcast(n, e) => e.type = "Broadcast" /\ e.block \in 0..(n - 1) /\ e.timestamp \in Nat
  BY EventFields DEF IsBroadcast
<1>3. IsSendBlock(B, n, e) => e.type = "SendBlock" /\ e.block \in 0..(n - 1) /\ e.timestamp \in Nat
  BY EventFields DEF IsSendBlock
<1>4. IsDelayInsert(B, n, e) => e.type = "DelayInsert" /\ e.block \in 0..(n - 1) /\ e.timestamp \in Nat
  BY EventFields DEF IsDelayInsert
<1>5. 0..(n - 1) \subseteq 0..n /\ n \in 0..n
  OBVIOUS
<1> QED BY <1>1, <1>2, <1>3, <1>4, <1>5 DEF Kinds

\* The delays, and how they enter the times of the line.
LEMMA Delays ==
    ASSUME NEW B, NEW n, BlocksOK(B, n), NEW b \in 0..(n - 1), NEW m \in Miners
    PROVE  /\ GetDelay(B, m, b) \in Nat /\ (b = 0 => GetDelay(B, m, b) = 0)
           /\ B[b].minerID \in HonestMiners => GetDelay(B, Adversary, b) = InDelay
           /\ InDelay \in Nat /\ HalfDiameter \in Nat
<1> DEFINE x == B[b].minerID
<1>1. HonestDelay \in Nat /\ AttackerIn \in Nat /\ AttackerOut \in Nat /\ HalfDiameter \in Nat
  BY NetworkAssumption, WithholdAssumption
<1>2. /\ NoMiner \notin Attackers /\ (b = 0 => x = NoMiner) /\ NoMiner \notin HonestMiners
      /\ x \in HonestMiners => x \notin Attackers /\ x # NoMiner
  BY BlockAssumption, AdversaryAssumption DEF BlocksOK, HonestMiners
<1>3. ASSUME NEW y PROVE GetDelay(B, y, b) = CASE x = NoMiner -> 0
                                 [] x \in Attackers -> AttackerOut
                                 [] x \notin Attackers \cup {NoMiner} /\ y \in Attackers -> AttackerIn
                                 [] OTHER -> HonestDelay
  BY DEF GetDelay
<1> HIDE DEF x
<1>4. GetDelay(B, m, b) \in {0, AttackerOut, AttackerIn, HonestDelay}
  BY <1>3
<1>5. x = NoMiner => GetDelay(B, m, b) = 0
  BY <1>2, <1>3
<1>6. x \in HonestMiners => GetDelay(B, Adversary, b) = InDelay
  BY <1>2, <1>3 DEF InDelay
<1> QED BY <1>1, <1>2, <1>4, <1>5, <1>6 DEF InDelay, x

\* The times of the line are numbers.
LEMMA Births ==
    ASSUME NEW B, NEW n, BlocksOK(B, n), NEW e, Kinds(B, n, e)
    PROVE  /\ Lag(e) \in Nat /\ Birth(e) \in Int
           /\ e.type = "Broadcast" => Birth(e) = e.timestamp
           /\ e.type = "SendBlock" => Birth(e) = e.timestamp - InDelay
           /\ e.type = "DelayInsert" => Birth(e) = e.timestamp - (InDelay + HalfDiameter)
<1>1. n \in Nat /\ 0 \in 0..(n - 1)
  BY TableFacts DEF BlocksOK
<1>2. e.timestamp \in Nat
  BY <1>1, EventKinds
<1>3. InDelay \in Nat /\ HalfDiameter \in Nat
  BY <1>1, Delays, AdversaryAssumption
<1> QED BY <1>2, <1>3 DEF Birth, Lag

\* An event on the line that moves on keeps its place.
LEMMA LineMoves ==
    ASSUME NEW B, NEW q, Line(B, q), NEW e \in q, NEW N,
           \A f \in N : f.type # "GenBlock",
           \A f \in N : Towards(B, f) => Towards(B, e) /\ f.block = e.block /\ Birth(f) = Birth(e),
           \A f, g \in N : Towards(B, f) /\ Towards(B, g) => f = g
    PROVE  Line(B, (q \ {e}) \cup N)
<1> DEFINE p == (q \ {e}) \cup N
<1>1. \A f \in p : f \in q \/ f \in N
  OBVIOUS
<1>2. ASSUME NEW f \in p, NEW g \in p, Towards(B, f), Towards(B, g)
      PROVE  (f.block < g.block => Birth(f) < Birth(g)) /\ (f.block = g.block => f = g)
  <2>1. CASE f \in q \ {e} /\ g \in q \ {e}
    BY <1>2, <2>1 DEF Line
  <2>2. CASE f \in q \ {e} /\ g \in N
    <3>1. Towards(B, e) /\ g.block = e.block /\ Birth(g) = Birth(e)
      BY <1>2, <2>2
    <3>2. (f.block < e.block => Birth(f) < Birth(e)) /\ (f.block = e.block => f = e)
      BY <1>2, <2>2, <3>1 DEF Line
    <3> QED BY <2>2, <3>1, <3>2
  <2>3. CASE f \in N /\ g \in q \ {e}
    <3>1. Towards(B, e) /\ f.block = e.block /\ Birth(f) = Birth(e)
      BY <1>2, <2>3
    <3>2. (e.block < g.block => Birth(e) < Birth(g)) /\ (e.block = g.block => e = g)
      BY <1>2, <2>3, <3>1 DEF Line
    <3> QED BY <2>3, <3>1, <3>2
  <2>4. CASE f \in N /\ g \in N
    <3>1. f = g /\ Towards(B, e) /\ f.block = e.block /\ Birth(f) = Birth(e)
      BY <1>2, <2>4
    <3>2. e.block < e.block => Birth(e) < Birth(e)
      BY <3>1 DEF Line
    <3> QED BY <3>1, <3>2
  <2> QED BY <2>1, <2>2, <2>3, <2>4
<1>3. ASSUME NEW f \in p, NEW g \in p, Towards(B, f), g.type = "GenBlock"
      PROVE  Birth(f) < g.timestamp
  <2>1. g \in q
    BY <1>3
  <2>2. CASE f \in q
    BY <1>3, <2>1, <2>2 DEF Line
  <2>3. CASE f \in N
    <3>1. Towards(B, e) /\ Birth(f) = Birth(e)
      BY <1>3, <2>3
    <3> QED BY <1>3, <2>1, <3>1 DEF Line
  <2> QED BY <2>2, <2>3
<1> HIDE DEF p
<1>4. Line(B, p)
  BY <1>2, <1>3 DEF Line
<1> QED BY <1>4 DEF p

\* A block of an honest miner joins the end of the line, and the next block is
\* to be generated later.
LEMMA LineGrows ==
    ASSUME NEW B, NEW n, BlocksOK(B, n), NEW C, Agree(B, C, n), NEW q, Events(B, n, q), Line(B, q),
           NEW e \in q, e.type = "GenBlock", NEW N,
           \A f \in N : Towards(C, f) => f = Broadcast(e.timestamp, n),
           \A f \in N : f.type = "GenBlock" => f.timestamp \in Nat /\ e.timestamp < f.timestamp
    PROVE  Line(C, (q \ {e}) \cup N)
<1> DEFINE p == (q \ {e}) \cup N
           t == e.timestamp
<1>1. n \in Nat /\ t \in Nat
  BY TableFacts, EventKinds DEF BlocksOK, Events
<1>2. ASSUME NEW f \in q \ {e}
      PROVE  f.type # "GenBlock" /\ f.block \in 0..(n - 1) /\ (Towards(C, f) <=> Towards(B, f)) /\ Birth(f) \in Int
  <2>1. Kinds(B, n, f) /\ f.type # "GenBlock"
    BY DEF Events
  <2>2. f.block \in 0..(n - 1) /\ Birth(f) \in Int
    BY <1>1, <2>1, EventKinds, Births
  <2> QED BY <2>1, <2>2 DEF Towards, Agree
<1>3. ASSUME NEW f \in N, Towards(C, f) PROVE f.block = n /\ f.type = "Broadcast" /\ Birth(f) = t
  <2>1. f.type = "Broadcast" /\ f.timestamp = t /\ f.block = n
    BY <1>3, EventFields
  <2> QED BY <1>1, <2>1 DEF Birth, Lag
<1>4. ASSUME NEW f \in q \ {e}, Towards(C, f) PROVE Birth(f) < t
  BY <1>2, <1>4 DEF Line
<1>5. ASSUME NEW f \in p, NEW g \in p, Towards(C, f), Towards(C, g)
      PROVE  (f.block < g.block => Birth(f) < Birth(g)) /\ (f.block = g.block => f = g)
  <2>1. CASE f \in q \ {e} /\ g \in q \ {e}
    BY <1>2, <1>5, <2>1 DEF Line
  <2>2. CASE f \in q \ {e} /\ g \in N
    <3>1. f.block \in 0..(n - 1) /\ g.block = n /\ Birth(f) < t /\ Birth(g) = t
      BY <1>2, <1>3, <1>4, <1>5, <2>2
    <3> QED BY <1>1, <3>1
  <2>3. CASE f \in N /\ g \in q \ {e}
    <3>1. g.block \in 0..(n - 1) /\ f.block = n
      BY <1>2, <1>3, <1>5, <2>3
    <3> QED BY <1>1, <3>1
  <2>4. CASE f \in N /\ g \in N
    <3>1. f = g /\ f.block = n
      BY <1>3, <1>5, <2>4
    <3> QED BY <1>1, <3>1
  <2> QED BY <2>1, <2>2, <2>3, <2>4
<1>6. ASSUME NEW f \in p, NEW g \in p, Towards(C, f), g.type = "GenBlock"
      PROVE  Birth(f) < g.timestamp
  <2>1. g \in N /\ g.timestamp \in Nat /\ t < g.timestamp
    BY <1>2, <1>6
  <2>2. Birth(f) \in Int /\ Birth(f) <= t
    BY <1>1, <1>2, <1>3, <1>4, <1>6
  <2> QED BY <1>1, <2>1, <2>2
<1> HIDE DEF p
<1>7. Line(C, p)
  BY <1>5, <1>6 DEF Line
<1> QED BY <1>7 DEF p

\* When the next block is generated everyone has genesis.
LEMMA GenesisKnown ==
    ASSUME NEW B, NEW n, NEW q, NEW ms, NEW w, Still(B, n, q, ms, w), Running(B, n, q, ms, w),
           NEW e \in Earliest(q), e.type = "GenBlock", NEW m \in Miners
    PROVE  HasGenesis(m, ms, w)
<1>1. n \in Nat /\ e \in q /\ Kinds(B, n, e)
  BY TableFacts DEF Still, BlocksOK, Events, Earliest
<1>2. e.timestamp \in Nat /\ e.timestamp # 0
  BY <1>1, EventKinds DEF IsGenBlock
<1>3. ASSUME Waits(q, m) PROVE FALSE
  <2>1. PICK f \in q : f.block = 0 /\ (f.type = "Broadcast" \/ f.type = "SendBlock")
    BY <1>3 DEF Waits
  <2>2. IsBroadcast(n, f) \/ IsSendBlock(B, n, f)
    BY <1>1, <2>1, EventKinds DEF Still, Events
  <2>3. f.timestamp = 0
    BY <2>1, <2>2 DEF IsBroadcast, IsSendBlock
  <2>4. e.timestamp <= f.timestamp
    BY <2>1 DEF Earliest
  <2> QED BY <1>2, <2>3, <2>4
<1> QED BY <1>3 DEF Running, Started

-----------------------------------------------------------------------------
(***************************************************************************)
(* The steps.                                                              *)
(***************************************************************************)
\* Who the miners of the blocks are, and what the events carry.
LEMMA StillFacts ==
    ASSUME NEW B, NEW n, NEW q, NEW ms, NEW w, Still(B, n, q, ms, w)
    PROVE  /\ n \in Nat /\ n >= 1 /\ B[0].minerID = NoMiner
           /\ \A b \in 0..(n - 1) : b = 0 \/ B[b].minerID \in HonestMiners \/ B[b].minerID = Adversary
           /\ \A b \in 1..n : B[b].minerID \in HonestMiners \/ B[b].minerID = Adversary
           /\ Adversary \in Miners /\ Adversary \notin HonestMiners
           /\ NoMiner \notin HonestMiners /\ NoMiner # Adversary
           /\ \A m \in Miners : m = Adversary \/ m \in HonestMiners
           /\ \A f \in q : Kinds(B, n, f)
           /\ HeldBy(w) \subseteq OwnBlocks(B, n) /\ HeldBy(w) \subseteq 0..(n - 1)
           /\ w.real.ledger \subseteq 0..(n - 1)
           /\ \A b \in DelayedIn(q) : b \in 0..(n - 1) /\ B[b].minerID \in HonestMiners
<1>1. n \in Nat /\ n >= 1 /\ B[0].minerID = NoMiner /\ \A b \in 1..n : B[b].minerID \in Miners
  BY TableFacts DEF Still, BlocksOK
<1>2. Adversary \in Miners /\ NoMiner \notin Miners
  BY AdversaryAssumption, BlockAssumption
<1>3. \A b \in 0..(n - 1) : b = 0 \/ b \in 1..n
  BY <1>1
<1>4. \A f \in q : Kinds(B, n, f)
  BY DEF Still, Events
<1>5. HeldBy(w) \subseteq OwnBlocks(B, n) /\ w.real.ledger \subseteq 0..(n - 1)
  BY DEF Still, WithholdOK, HoldOK, GraphOK
<1>6. ASSUME NEW b \in DelayedIn(q) PROVE b \in 0..(n - 1) /\ B[b].minerID \in HonestMiners
  <2>1. PICK f \in q : f.type = "DelayInsert" /\ f.block = b
    BY DEF DelayedIn
  <2>2. IsDelayInsert(B, n, f)
    BY <1>1, <1>4, <2>1, EventKinds
  <2> QED BY <2>1, <2>2 DEF IsDelayInsert
<1> QED BY <1>1, <1>2, <1>3, <1>4, <1>5, <1>6 DEF HonestMiners, OwnBlocks

\* An event leaves the queue.
LEMMA StillFewer ==
    ASSUME NEW B, NEW n, NEW q, NEW ms, NEW w, Still(B, n, q, ms, w), NEW e
    PROVE  Still(B, n, q \ {e}, ms, w)
<1> DEFINE p == q \ {e}
<1>1. \A f \in p : f \in q
  OBVIOUS
<1> HIDE DEF p
<1>2. Events(B, n, p)
  BY <1>1 DEF Still, Events
<1>3. DelayedIn(p) \subseteq DelayedIn(q)
  BY <1>1 DEF DelayedIn
<1>4. Secret(B, n, p, ms, HeldBy(w))
  BY <1>1 DEF Still, Secret
<1>5. Still(B, n, p, ms, w)
  BY <1>2, <1>3, <1>4 DEF Still
<1> QED BY <1>5 DEF p

\* An event is followed by others about a block that is not held back.
LEMMA EventsMove ==
    ASSUME NEW B, NEW n, NEW q, Events(B, n, q), NEW e, NEW N,
           \A f \in N : Kinds(B, n, f) /\ f.type # "GenBlock"
    PROVE  Events(B, n, (q \ {e}) \cup N)
BY DEF Events

\* BroadcastEvent.Run.
LEMMA BroadcastKeeps ==
    ASSUME NEW B, NEW n, NEW q, NEW ms, NEW w, Still(B, n, q, ms, w), Running(B, n, q, ms, w),
           NEW e \in q, e.type = "Broadcast",
           NEW p, p = Enqueue(q \ {e}, RunBroadcast(B, e.timestamp, e.block), e.timestamp)
    PROVE  Still(B, n, p, ms, w) /\ Running(B, n, p, ms, w)
<1> DEFINE b == e.block
           t == e.timestamp
           N == {f \in RunBroadcast(B, t, b) : f.timestamp >= t}
<1>1. p = (q \ {e}) \cup N
  BY DEF Enqueue
<1>2. n \in Nat /\ Kinds(B, n, e) /\ b \in 0..(n - 1) /\ t \in Nat /\ (b = 0 => t = 0) /\ BlocksOK(B, n)
  <2>1. n \in Nat /\ Kinds(B, n, e) /\ BlocksOK(B, n)
    BY StillFacts DEF Still
  <2>2. IsBroadcast(n, e)
    BY <2>1, EventKinds
  <2> QED BY <2>1, <2>2 DEF IsBroadcast
<1>3. ASSUME NEW m \in Miners \ {B[b].minerID}, NEW f, f = SendBlock(t + GetDelay(B, m, b), b, m)
      PROVE  /\ f \in N /\ f.type = "SendBlock" /\ f.block = b /\ f.receiver = m /\ IsSendBlock(B, n, f)
             /\ f.timestamp = t + GetDelay(B, m, b)
  <2>1. GetDelay(B, m, b) \in Nat /\ (b = 0 => GetDelay(B, m, b) = 0)
    BY <1>2, Delays
  <2> DEFINE d == GetDelay(B, m, b)
  <2> HIDE DEF b, t, d
  <2>2. f.type = "SendBlock" /\ f.block = b /\ f.receiver = m /\ f.timestamp = t + d
    BY <1>3, EventFields DEF d
  <2>3. t + d \in Nat /\ t + d >= t /\ (b = 0 => t + d = 0)
    BY <1>2, <2>1 DEF d
  <2>4. f \in RunBroadcast(B, t, b)
    BY <1>3 DEF RunBroadcast
  <2>5. IsSendBlock(B, n, f)
    BY <1>2, <1>3, <2>2, <2>3 DEF IsSendBlock, d
  <2> QED BY <2>2, <2>3, <2>4, <2>5 DEF d
<1>4. ASSUME NEW f \in N
      PROVE  /\ IsSendBlock(B, n, f) /\ f.type = "SendBlock" /\ f.block = b
             /\ f.receiver \in Miners \ {B[b].minerID}
             /\ f = SendBlock(t + GetDelay(B, f.receiver, b), b, f.receiver)
             /\ f.timestamp = t + GetDelay(B, f.receiver, b)
  <2>1. PICK m \in Miners \ {B[b].minerID} : f = SendBlock(t + GetDelay(B, m, b), b, m)
    BY DEF RunBroadcast
  <2> HIDE DEF b, t, N
  <2> QED BY <1>3, <2>1
<1> HIDE DEF b, t, N
<1>5. Events(B, n, p)
  <2>1. \A f \in N : Kinds(B, n, f) /\ f.type # "GenBlock"
    BY <1>4 DEF Kinds
  <2>2. Events(B, n, (q \ {e}) \cup N)
    BY <2>1, EventsMove DEF Still
  <2> QED BY <1>1, <2>2
<1>6. DelayedIn(p) = DelayedIn(q)
  <2>1. \A f : f.type = "DelayInsert" => (f \in p <=> f \in q)
    BY <1>1, <1>4
  <2> QED BY <2>1 DEF DelayedIn
<1>7. Secret(B, n, p, ms, HeldBy(w))
  <2>1. \A f \in p : f \in q \/ f.block = b
    BY <1>1, <1>4
  <2>2. Secret(B, n, q, ms, HeldBy(w))
    BY DEF Still
  <2> QED BY <2>1, <2>2 DEF Secret, b
<1>8. Still(B, n, p, ms, w)
  BY <1>5, <1>6, <1>7 DEF Still
<1>9. ASSUME NEW f \in N, Towards(B, f)
      PROVE  /\ Towards(B, e) /\ Birth(f) = Birth(e)
             /\ f = SendBlock(t + GetDelay(B, Adversary, b), b, Adversary)
  <2>1. f.receiver = Adversary /\ B[b].minerID \in HonestMiners
    BY <1>4, <1>9 DEF Towards
  <2>2. GetDelay(B, Adversary, b) = InDelay /\ InDelay \in Nat
    BY <1>2, <2>1, Delays, AdversaryAssumption
  <2>3. Birth(f) = f.timestamp - InDelay /\ Birth(e) = t
    <3>1. Kinds(B, n, f)
      BY <1>4 DEF Kinds
    <3> QED BY <1>2, <1>4, <3>1, Births DEF t
  <2>4. f.timestamp = t + InDelay
    BY <1>4, <2>1, <2>2
  <2>5. Towards(B, e)
    BY <2>1 DEF Towards, b
  <2> QED BY <1>2, <1>4, <2>1, <2>2, <2>3, <2>4, <2>5
<1>10. Line(B, p)
  <2>1. Line(B, q)
    BY DEF Running
  <2>2. \A f \in N : f.type # "GenBlock"
    BY <1>4
  <2>3. \A f \in N : Towards(B, f) => Towards(B, e) /\ f.block = e.block /\ Birth(f) = Birth(e)
    BY <1>4, <1>9 DEF b
  <2>4. \A f, g \in N : Towards(B, f) /\ Towards(B, g) => f = g
    BY <1>9
  <2>5. Line(B, (q \ {e}) \cup N)
    BY <2>1, <2>2, <2>3, <2>4, LineMoves
  <2> QED BY <1>1, <2>5
<1>11. Coming(B, n, p, w.real.ledger)
  <2> SUFFICES ASSUME NEW x \in 0..(n - 1), B[x].minerID \in HonestMiners, x \notin w.real.ledger
               PROVE  \E f \in p : f.block = x /\ Towards(B, f) /\ f.type # "DelayInsert"
    BY DEF Coming
  <2>1. PICK f \in q : f.block = x /\ Towards(B, f) /\ f.type # "DelayInsert"
    BY DEF Running, Coming
  <2>2. CASE f # e
    BY <1>1, <2>1, <2>2
  <2>3. CASE f = e
    <3>1. Adversary \in Miners \ {B[b].minerID} /\ x = b
      BY <2>1, <2>3, StillFacts DEF b
    <3>2. PICK g : g = SendBlock(t + GetDelay(B, Adversary, b), b, Adversary)
      OBVIOUS
    <3>3. g \in N /\ g.type = "SendBlock" /\ g.block = b /\ g.receiver = Adversary
      BY <1>3, <3>1, <3>2
    <3>4. Towards(B, g)
      BY <3>1, <3>3 DEF Towards
    <3> QED BY <1>1, <3>1, <3>3, <3>4
  <2> QED BY <2>2, <2>3
<1>12. Mining(p, w)
  BY <1>6 DEF Running, Mining
<1>13. Started(p, ms, w)
  <2> SUFFICES ASSUME NEW m \in Miners, ~ HasGenesis(m, ms, w) PROVE Waits(p, m)
    BY DEF Started
  <2>1. PICK f \in q : f.block = 0 /\ (f.type = "Broadcast" \/ (f.type = "SendBlock" /\ f.receiver = m))
    BY DEF Running, Started, Waits
  <2>2. CASE f # e
    BY <1>1, <2>1, <2>2 DEF Waits
  <2>3. CASE f = e
    <3>1. b = 0 /\ m # NoMiner /\ B[0].minerID = NoMiner
      BY <2>1, <2>3, StillFacts, BlockAssumption DEF b
    <3>2. m \in Miners \ {B[b].minerID}
      BY <3>1
    <3>3. PICK g : g = SendBlock(t + GetDelay(B, m, b), b, m)
      OBVIOUS
    <3>4. g \in N /\ g.type = "SendBlock" /\ g.block = b /\ g.receiver = m
      BY <1>3, <3>2, <3>3
    <3> QED BY <1>1, <3>1, <3>4 DEF Waits
  <2> QED BY <2>2, <2>3
<1>14. Public(B, n, p, ms, HeldBy(w))
  <2> SUFFICES ASSUME NEW x \in OwnBlocks(B, n) \ HeldBy(w), NEW m \in HonestMiners,
                      x \notin ms[m].graph.ledger \cup ToSet(ms[m].cache)
               PROVE  OnItsWay(p, x, m)
    BY DEF Public, Reached
  <2>1. PICK f \in q : f.block = x /\ (f.type = "Broadcast" \/ (f.type = "SendBlock" /\ f.receiver = m))
    BY DEF Running, Public, Reached, OnItsWay
  <2>2. CASE f # e
    BY <1>1, <2>1, <2>2 DEF OnItsWay
  <2>3. CASE f = e
    <3>1. x = b /\ B[x].minerID = Adversary
      BY <2>1, <2>3 DEF b, OwnBlocks
    <3>2. m \in Miners \ {B[b].minerID}
      BY <3>1 DEF HonestMiners
    <3>3. PICK g : g = SendBlock(t + GetDelay(B, m, b), b, m)
      OBVIOUS
    <3>4. g \in N /\ g.type = "SendBlock" /\ g.block = b /\ g.receiver = m
      BY <1>3, <3>2, <3>3
    <3> QED BY <1>1, <3>1, <3>4 DEF OnItsWay
  <2> QED BY <2>2, <2>3
<1> QED BY <1>8, <1>10, <1>11, <1>12, <1>13, <1>14 DEF Running

\* SendBlockEvent.Run, for an honest miner.
LEMMA HonestSendKeeps ==
    ASSUME NEW B, NEW n, NEW q, NEW ms, NEW w, Still(B, n, q, ms, w), Running(B, n, q, ms, w),
           NEW e \in q, e.type = "SendBlock", e.receiver # Adversary,
           NEW r, r = ReceiveBlock(B, ms[e.receiver], e.block),
           NEW ks, ks = [ms EXCEPT ![e.receiver] = [graph |-> r.graph, cache |-> r.cache]]
    PROVE  Still(B, n, q \ {e}, ks, w) /\ Running(B, n, q \ {e}, ks, w)
<1> DEFINE b == e.block
           m == e.receiver
           p == q \ {e}
<1>1. /\ n \in Nat /\ Kinds(B, n, e) /\ TableOK(B, n) /\ b \in 0..(n - 1) /\ m \in HonestMiners
      /\ 0..(n - 1) \subseteq BlockIds /\ Parents(B, 0) \subseteq {}
  <2>1. n \in Nat /\ Kinds(B, n, e) /\ TableOK(B, n)
    BY StillFacts DEF Still, BlocksOK
  <2>2. IsSendBlock(B, n, e)
    BY <2>1, EventKinds
  <2>3. 0..(n - 1) \subseteq BlockIds /\ Parents(B, 0) \subseteq 0..(0 - 1)
    BY <2>1, TableFacts
  <2> QED BY <2>1, <2>2, <2>3 DEF IsSendBlock, HonestMiners
<1>2. /\ ms \in [HonestMiners -> HonestType] /\ \A x \in HonestMiners : MinerOK(B, n, ms[x].graph, ms[x].cache)
      /\ Secret(B, n, q, ms, HeldBy(w)) /\ b \notin HeldBy(w)
  BY DEF Still, HonestOK, Secret
<1> HIDE DEF b, m
<1>3. PICK hm : hm = ms[m]
  OBVIOUS
<1>4. Received(B, n, hm.graph, hm.cache, b, r)
  <2>1. MinerOK(B, n, hm.graph, hm.cache) /\ r = ReceiveBlock(B, hm, b)
    BY <1>1, <1>2, <1>3 DEF m, b
  <2> QED BY <1>1, <2>1, ReceiveBlockOK
<1>5. /\ MinerOK(B, n, r.graph, r.cache) /\ hm.graph.ledger \subseteq r.graph.ledger
      /\ r.graph.ledger \cup ToSet(r.cache) = hm.graph.ledger \cup ToSet(hm.cache) \cup {b}
      /\ b = 0 => 0 \in r.graph.ledger
  BY <1>1, <1>4 DEF Received, Entered
<1>6. r.graph \in Graph /\ r.cache \in Seq(BlockIds)
  <2>1. r.cache \in Seq(0..(n - 1)) /\ r.graph \in Graph
    BY <1>5 DEF MinerOK, GraphOK
  <2> QED BY <1>1, <2>1, SeqMonotonic
<1>7. /\ ks \in [HonestMiners -> HonestType] /\ ks[m].graph = r.graph /\ ks[m].cache = r.cache
      /\ \A x \in HonestMiners : x # m => ks[x] = ms[x]
  <2>1. ks = [ms EXCEPT ![m] = [graph |-> r.graph, cache |-> r.cache]]
    BY DEF m
  <2>2. PICK z \in HonestType : z = [graph |-> r.graph, cache |-> r.cache]
    BY <1>6 DEF HonestType
  <2>3. z.graph = r.graph /\ z.cache = r.cache
    BY <2>2
  <2>4. ks = [ms EXCEPT ![m] = z]
    BY <2>1, <2>2
  <2>5. ms \in [HonestMiners -> HonestType]
    BY <1>2
  <2>6. ks \in [HonestMiners -> HonestType] /\ ks[m] = z /\ \A x \in HonestMiners : x # m => ks[x] = ms[x]
    BY <1>1, <2>4, <2>5
  <2> QED BY <2>3, <2>6
<1>8. HonestOK(B, n, ks)
  <2>1. ASSUME NEW x \in HonestMiners PROVE MinerOK(B, n, ks[x].graph, ks[x].cache)
    <3>1. CASE x = m
      BY <1>5, <1>7, <3>1
    <3>2. CASE x # m
      BY <1>2, <1>7, <3>2
    <3> QED BY <3>1, <3>2
  <2> QED BY <1>7, <2>1 DEF HonestOK
<1>9. Secret(B, n, p, ks, HeldBy(w))
  <2>1. ASSUME NEW x \in HeldBy(w), NEW y \in HonestMiners
        PROVE  x \notin ks[y].graph.ledger /\ x \notin ToSet(ks[y].cache)
    <3>1. x \notin ms[y].graph.ledger /\ x \notin ToSet(ms[y].cache) /\ x # b
      BY <1>2 DEF Secret
    <3>2. CASE y = m
      BY <1>3, <1>5, <1>7, <3>1, <3>2, SMTT(30)
    <3>3. CASE y # m
      BY <1>7, <3>1, <3>3
    <3> QED BY <3>2, <3>3
  <2>2. \A f \in p : f \in q
    OBVIOUS
  <2> HIDE DEF p
  <2> QED BY <1>2, <2>1, <2>2 DEF Secret
<1>10. Still(B, n, p, ms, w)
  BY StillFewer
<1> HIDE DEF p
<1>11. Still(B, n, p, ks, w)
  BY <1>8, <1>9, <1>10 DEF Still
<1>12. /\ \A f \in p : f \in q
       /\ \A f \in q : f.type = "DelayInsert" => f \in p
       /\ \A f \in q : Towards(B, f) => f \in p
       /\ \A f \in q : f \in p \/ f = e
  BY DEF p, Towards
<1>13. Line(B, p)
  BY <1>12 DEF Running, Line
<1>14. Coming(B, n, p, w.real.ledger)
  BY <1>12 DEF Running, Coming
<1>15. Mining(p, w)
  <2>1. DelayedIn(p) = DelayedIn(q)
    BY <1>12 DEF DelayedIn
  <2> QED BY <2>1 DEF Running, Mining
<1>16. Started(p, ks, w)
  <2> SUFFICES ASSUME NEW x \in Miners, ~ HasGenesis(x, ks, w) PROVE Waits(p, x)
    BY DEF Started
  <2>1. ~ HasGenesis(x, ms, w)
    <3>1. CASE x = Adversary
      BY <3>1 DEF HasGenesis
    <3>2. CASE x # Adversary
      <4>1. x \in HonestMiners /\ 0 \notin ks[x].graph.ledger
        BY <3>2 DEF HonestMiners, HasGenesis
      <4>2. 0 \notin ms[x].graph.ledger
        BY <1>3, <1>5, <1>7, <4>1
      <4> QED BY <3>2, <4>2 DEF HasGenesis
    <3> QED BY <3>1, <3>2
  <2>2. PICK f \in q : f.block = 0 /\ (f.type = "Broadcast" \/ (f.type = "SendBlock" /\ f.receiver = x))
    BY <2>1 DEF Running, Started, Waits
  <2>3. f # e
    <3> SUFFICES ASSUME f = e PROVE FALSE
      OBVIOUS
    <3>1. b = 0 /\ x = m
      BY <2>2 DEF b, m
    <3>2. 0 \in ks[x].graph.ledger
      BY <1>5, <1>7, <3>1
    <3> QED BY <3>1, <3>2 DEF HasGenesis, m
  <2> QED BY <1>12, <2>2, <2>3 DEF Waits
<1>17. Public(B, n, p, ks, HeldBy(w))
  <2> SUFFICES ASSUME NEW x \in OwnBlocks(B, n) \ HeldBy(w), NEW y \in HonestMiners,
                      x \notin ks[y].graph.ledger \cup ToSet(ks[y].cache)
               PROVE  OnItsWay(p, x, y)
    BY DEF Public, Reached
  <2>1. x \notin ms[y].graph.ledger \cup ToSet(ms[y].cache) /\ (y = m => x # b)
    <3>1. CASE y = m
      BY <1>3, <1>5, <1>7, <3>1
    <3>2. CASE y # m
      BY <1>7, <3>2
    <3> QED BY <3>1, <3>2
  <2>2. PICK f \in q : f.block = x /\ (f.type = "Broadcast" \/ (f.type = "SendBlock" /\ f.receiver = y))
    BY <2>1 DEF Running, Public, Reached, OnItsWay
  <2>3. f # e
    BY <2>1, <2>2 DEF b, m
  <2> QED BY <1>12, <2>2, <2>3 DEF OnItsWay
<1>18. Running(B, n, p, ks, w)
  BY <1>13, <1>14, <1>15, <1>16, <1>17 DEF Running
<1> QED BY <1>11, <1>18 DEF p

\* What comes to the adversary finds the blocks it refers to: they were
\* generated before, or are the adversary's own and not held back.
LEMMA ParentsKnown ==
    ASSUME NEW B, NEW n, NEW q, NEW ms, NEW w, Still(B, n, q, ms, w), Running(B, n, q, ms, w),
           NEW e \in Earliest(q), Towards(B, e), e.type \in {"SendBlock", "DelayInsert"}
    PROVE  /\ Parents(B, e.block) \subseteq w.real.ledger
           /\ e.type = "DelayInsert" => Parents(B, e.block) \cap DelayedIn(q) = {}
<1> DEFINE b == e.block
           t == e.timestamp
<1>1. /\ n \in Nat /\ TableOK(B, n) /\ BlocksOK(B, n) /\ e \in q /\ Kinds(B, n, e) /\ b \in 0..(n - 1)
      /\ B[b].minerID \in HonestMiners /\ b # 0 /\ t \in Nat
      /\ InDelay \in Nat /\ HalfDiameter \in Nat
  <2>1. n \in Nat /\ TableOK(B, n) /\ BlocksOK(B, n) /\ e \in q
    BY StillFacts DEF Still, BlocksOK, Earliest
  <2>2. Kinds(B, n, e)
    BY <2>1, StillFacts
  <2>3. b \in 0..(n - 1) /\ t \in Nat
    BY <2>1, <2>2, EventKinds
  <2>4. B[b].minerID \in HonestMiners /\ b # 0
    BY StillFacts DEF Towards
  <2>5. InDelay \in Nat /\ HalfDiameter \in Nat
    BY <2>1, <2>3, Delays, AdversaryAssumption
  <2> QED BY <2>1, <2>2, <2>3, <2>4, <2>5
<1>2. Birth(e) = t - InDelay \/ Birth(e) = t - (InDelay + HalfDiameter)
  BY <1>1, Births
<1>3. ASSUME NEW f \in q, Towards(B, f), f.block < b
      PROVE  Birth(f) < Birth(e) /\ t <= f.timestamp /\ Kinds(B, n, f) /\ f.timestamp \in Nat
  <2>1. Birth(f) < Birth(e)
    BY <1>1, <1>3 DEF Running, Line
  <2>2. t <= f.timestamp
    BY DEF Earliest
  <2>3. Kinds(B, n, f)
    BY StillFacts
  <2> QED BY <1>1, <2>1, <2>2, <2>3, EventKinds
<1>4. ASSUME NEW f \in q, Towards(B, f), f.block < b, f.type # "DelayInsert" PROVE FALSE
  <2>1. Birth(f) = f.timestamp \/ Birth(f) = f.timestamp - InDelay
    BY <1>1, <1>3, <1>4, Births DEF Towards
  <2>2. Birth(f) < Birth(e) /\ t <= f.timestamp /\ f.timestamp \in Nat
    BY <1>3, <1>4
  <2> HIDE DEF t
  <2> QED BY <1>1, <1>2, <2>1, <2>2
<1>5. \A x \in Parents(B, b) : x \in 0..(n - 1) /\ x < b
  <2>1. Parents(B, b) \subseteq 0..(b - 1)
    BY <1>1, TableFacts
  <2> QED BY <1>1, <2>1
<1>6. Parents(B, b) \cap HeldBy(w) = {}
  BY <1>1 DEF Still, Secret
<1>7. ASSUME NEW x \in Parents(B, b) PROVE x \in w.real.ledger
  <2>1. x = 0 \/ B[x].minerID \in HonestMiners \/ B[x].minerID = Adversary
    BY <1>5, StillFacts
  <2>2. CASE x = 0
    <3>1. n > 1
      BY <1>1
    <3> QED BY <2>2, <3>1 DEF Still
  <2>3. CASE B[x].minerID \in HonestMiners
    <3> SUFFICES ASSUME x \notin w.real.ledger PROVE FALSE
      OBVIOUS
    <3>1. PICK f \in q : f.block = x /\ Towards(B, f) /\ f.type # "DelayInsert"
      BY <1>5, <2>3 DEF Running, Coming
    <3> QED BY <1>4, <1>5, <3>1
  <2>4. CASE B[x].minerID = Adversary
    BY <1>5, <1>6, <2>4 DEF Still, WithholdOK, OwnBlocks
  <2> QED BY <2>1, <2>2, <2>3, <2>4
<1>8. ASSUME e.type = "DelayInsert", NEW x \in Parents(B, b), x \in DelayedIn(q) PROVE FALSE
  <2>1. PICK f \in q : f.type = "DelayInsert" /\ f.block = x
    BY <1>8 DEF DelayedIn
  <2>2. Towards(B, f)
    BY <1>8, <2>1, StillFacts DEF Towards
  <2>3. Birth(f) < Birth(e) /\ t <= f.timestamp /\ f.timestamp \in Nat /\ Kinds(B, n, f)
    BY <1>3, <1>5, <2>1, <2>2
  <2>4. Birth(f) = f.timestamp - (InDelay + HalfDiameter) /\ Birth(e) = t - (InDelay + HalfDiameter)
    BY <1>1, <1>8, <2>1, <2>3, Births
  <2> HIDE DEF t
  <2> QED BY <1>1, <2>3, <2>4
<1> QED BY <1>7, <1>8

\* The events of an answer of the adversary at time t.
FromAnswer(t, a, f) ==
    \/ /\ f = DelayInsert(t + HalfDiameter, f.block) /\ f.type = "DelayInsert"
       /\ f.timestamp = t + HalfDiameter /\ f.block \in a.delayed
    \/ /\ f = Broadcast(t, f.block) /\ f.type = "Broadcast"
       /\ f.timestamp = t /\ f.block \in ToSet(a.broadcast)

LEMMA AnswerFacts ==
    ASSUME NEW t \in Nat, NEW a
    PROVE  /\ \A f \in AnswerEvents(t, a) : FromAnswer(t, a, f) /\ f.timestamp >= t
           /\ DelayedIn(AnswerEvents(t, a)) = a.delayed
           /\ \A b \in ToSet(a.broadcast) : \A m : OnItsWay(AnswerEvents(t, a), b, m)
<1>1. HalfDiameter \in Nat
  BY WithholdAssumption
<1>2. ASSUME NEW f \in AnswerEvents(t, a) PROVE FromAnswer(t, a, f) /\ f.timestamp >= t
  <2>1. CASE \E b \in a.delayed : f = DelayInsert(t + HalfDiameter, b)
    <3>1. PICK b \in a.delayed : f = DelayInsert(t + HalfDiameter, b)
      BY <2>1
    <3>2. f.type = "DelayInsert" /\ f.timestamp = t + HalfDiameter /\ f.block = b
      BY <3>1, EventFields
    <3>3. t + HalfDiameter >= t
      BY <1>1
    <3> QED BY <3>1, <3>2, <3>3 DEF FromAnswer
  <2>2. CASE \E b \in ToSet(a.broadcast) : f = Broadcast(t, b)
    <3>1. PICK b \in ToSet(a.broadcast) : f = Broadcast(t, b)
      BY <2>2
    <3>2. f.type = "Broadcast" /\ f.timestamp = t /\ f.block = b
      BY <3>1, EventFields
    <3> QED BY <3>1, <3>2 DEF FromAnswer
  <2> QED BY <2>1, <2>2 DEF AnswerEvents, NetworkBroadcast
<1>3. ASSUME NEW b \in a.delayed PROVE b \in DelayedIn(AnswerEvents(t, a))
  <2>1. PICK f : f = DelayInsert(t + HalfDiameter, b)
    OBVIOUS
  <2>2. f.type = "DelayInsert" /\ f.block = b
    BY <2>1, EventFields
  <2>3. f \in AnswerEvents(t, a)
    BY <2>1 DEF AnswerEvents
  <2> QED BY <2>2, <2>3 DEF DelayedIn
<1>4. ASSUME NEW b \in DelayedIn(AnswerEvents(t, a)) PROVE b \in a.delayed
  <2>1. PICK f \in AnswerEvents(t, a) : f.type = "DelayInsert" /\ f.block = b
    BY DEF DelayedIn
  <2> QED BY <1>2, <2>1 DEF FromAnswer
<1>5. ASSUME NEW b \in ToSet(a.broadcast), NEW m PROVE OnItsWay(AnswerEvents(t, a), b, m)
  <2>1. PICK f : f = Broadcast(t, b)
    OBVIOUS
  <2>2. f.type = "Broadcast" /\ f.block = b
    BY <2>1, EventFields
  <2>3. f \in AnswerEvents(t, a)
    BY <2>1 DEF AnswerEvents, NetworkBroadcast
  <2> QED BY <2>2, <2>3 DEF OnItsWay
<1> QED BY <1>2, <1>3, <1>4, <1>5

\* What is delayed when the events of N follow event e.
LEMMA DelayedMoves ==
    ASSUME NEW q, NEW e, NEW N, e.type # "DelayInsert"
    PROVE  DelayedIn((q \ {e}) \cup N) = DelayedIn(q) \cup DelayedIn(N)
BY DEF DelayedIn

\* SendBlockEvent.Run, for the adversary: its program is not ended.
LEMMA AdversarySendKeeps ==
    ASSUME NEW B, NEW n, NEW q, NEW ms, NEW w, Still(B, n, q, ms, w), Running(B, n, q, ms, w),
           NEW e \in Earliest(q), e.type = "SendBlock", e.receiver = Adversary,
           NEW a, a = WithholdReceive(B, w, e.block, Adversary),
           NEW p, p = Enqueue(q \ {e}, AnswerEvents(e.timestamp, a), e.timestamp),
           NEW v, v = State(a)
    PROVE  Still(B, n, p, ms, v) /\ Running(B, n, p, ms, v)
<1> DEFINE b == e.block
           t == e.timestamp
           N == AnswerEvents(t, a)
           H == HeldBy(w)
           R == w.real.ledger
<1>1. /\ n \in Nat /\ TableOK(B, n) /\ BlocksOK(B, n) /\ WithholdOK(B, n, w) /\ e \in q
      /\ Kinds(B, n, e) /\ b \in 0..(n - 1) /\ t \in Nat /\ B[b].minerID # Adversary
      /\ b = 0 \/ B[b].minerID \in HonestMiners
      /\ H \subseteq OwnBlocks(B, n) /\ b \notin H
      /\ InDelay \in Nat /\ HalfDiameter \in Nat
  <2>1. n \in Nat /\ TableOK(B, n) /\ BlocksOK(B, n) /\ e \in q /\ WithholdOK(B, n, w)
    BY StillFacts DEF Still, BlocksOK, Earliest
  <2>2. Kinds(B, n, e) /\ IsSendBlock(B, n, e)
    BY <2>1, StillFacts, EventKinds
  <2>3. b \in 0..(n - 1) /\ t \in Nat /\ B[b].minerID # Adversary
    BY <2>2 DEF IsSendBlock
  <2>4. b = 0 \/ B[b].minerID \in HonestMiners
    BY <2>3, StillFacts
  <2>5. H \subseteq OwnBlocks(B, n) /\ b \notin H
    BY <2>1 DEF Still, Secret, WithholdOK
  <2>6. InDelay \in Nat /\ HalfDiameter \in Nat
    BY <2>1, <2>3, Delays, AdversaryAssumption
  <2> QED BY <2>1, <2>2, <2>3, <2>4, <2>5, <2>6
<1>2. /\ \A f \in q : Kinds(B, n, f)
      /\ \A x \in DelayedIn(q) : B[x].minerID \in HonestMiners
      /\ B[0].minerID = NoMiner /\ NoMiner \notin HonestMiners /\ NoMiner # Adversary
      /\ Adversary \notin HonestMiners
  BY StillFacts
<1>3. B[b].minerID \in HonestMiners => Towards(B, e)
  BY DEF Towards
<1>4. Parents(B, b) \subseteq R
  <2>1. CASE b = 0
    <3>1. Parents(B, 0) \subseteq 0..(0 - 1)
      BY <1>1, TableFacts
    <3> QED BY <2>1, <3>1
  <2>2. CASE B[b].minerID \in HonestMiners
    BY <1>3, <2>2, ParentsKnown
  <2> QED BY <1>1, <2>1, <2>2
<1>5. AtOnce(B, w, b) => Parents(B, b) \subseteq w.graph.ledger
  <2> SUFFICES ASSUME AtOnce(B, w, b) PROVE Parents(B, b) \subseteq w.graph.ledger
    OBVIOUS
  <2>1. CASE B[b].minerID = NoMiner
    <3>1. Parents(B, 0) \subseteq 0..(0 - 1) /\ b = 0
      BY <1>1, <1>2, <2>1, TableFacts
    <3> QED BY <3>1
  <2>2. CASE w.mType = "selfish" \/ HalfDiameter = 0
    <3>1. DelayedIn(q) = {}
      BY <2>2 DEF Still
    <3> QED BY <1>4, <3>1 DEF Running, Mining
  <2> QED BY <2>1, <2>2 DEF AtOnce
<1>6. /\ WithholdOK(B, n, v) /\ a \in AnswerType(n)
      /\ GraphAnswer(B, w, a, b) /\ Answered(w, a, {}, {b})
  <2>1. B[b].minerID = NoMiner => b = 0
    BY <1>1, <1>2
  <2> QED BY <1>1, <1>4, <1>5, <2>1, WithholdReceiveOK
<1>7. /\ v.mType = w.mType /\ v.graph = a.graph /\ v.real = a.real /\ HeldBy(v) = ToSet(a.holding)
      /\ v.real.ledger \cup HeldBy(v) = R \cup H \cup {b}
      /\ R \cup {b} \subseteq v.real.ledger /\ HeldBy(v) \subseteq H
      /\ ToSet(a.broadcast) = H \ HeldBy(v)
  <2>1. v.mType = a.mType /\ v.graph = a.graph /\ v.real = a.real /\ v.holding = a.holding
    BY <1>6, StateFields
  <2>2. HeldBy(v) = ToSet(a.holding)
    BY <2>1 DEF HeldBy
  <2> QED BY <1>6, <2>1, <2>2 DEF Answered
<1>8. \A f \in N : FromAnswer(t, a, f) /\ f.timestamp >= t
  BY <1>1, AnswerFacts
<1>9. p = (q \ {e}) \cup N
  BY <1>8 DEF Enqueue
<1>10. a.delayed \in {{}, {b}} /\ (b \in a.delayed => ~ AtOnce(B, w, b) /\ b \notin R)
  BY <1>6 DEF GraphAnswer
<1>11. B[b].minerID \in HonestMiners \/ b \notin a.delayed
  BY <1>1, <1>2, <1>10 DEF AtOnce
<1> HIDE DEF b, t, N, H, R
<1>12. ASSUME NEW f \in N
       PROVE  /\ Kinds(B, n, f) /\ f.type # "GenBlock" /\ f.block \notin HeldBy(v)
              /\ Towards(B, f) => f = DelayInsert(t + HalfDiameter, b)
  <2>1. CASE /\ f = DelayInsert(t + HalfDiameter, f.block) /\ f.type = "DelayInsert"
             /\ f.timestamp = t + HalfDiameter /\ f.block \in a.delayed
    <3>1. f.block = b /\ B[b].minerID \in HonestMiners
      BY <1>10, <1>11, <2>1
    <3>2. t + HalfDiameter \in Nat
      BY <1>1
    <3>3. IsDelayInsert(B, n, f)
      BY <1>1, <2>1, <3>1, <3>2 DEF IsDelayInsert
    <3> QED BY <1>1, <1>7, <2>1, <3>1, <3>3 DEF Kinds
  <2>2. CASE /\ f = Broadcast(t, f.block) /\ f.type = "Broadcast"
             /\ f.timestamp = t /\ f.block \in ToSet(a.broadcast)
    <3>1. f.block \in H /\ f.block \notin HeldBy(v) /\ f.block \in 0..(n - 1) /\ B[f.block].minerID = Adversary
      BY <1>1, <1>7, <2>2 DEF OwnBlocks
    <3>2. IsBroadcast(n, f)
      BY <1>1, <1>2, <2>2, <3>1 DEF IsBroadcast
    <3> QED BY <1>2, <2>2, <3>1, <3>2 DEF Kinds, Towards
  <2> QED BY <1>8, <2>1, <2>2 DEF FromAnswer
<1>13. Events(B, n, p)
  <2>1. Events(B, n, q)
    BY DEF Still
  <2>2. \A f \in N : Kinds(B, n, f) /\ f.type # "GenBlock"
    BY <1>12
  <2>3. Events(B, n, (q \ {e}) \cup N)
    BY <2>1, <2>2, EventsMove
  <2> QED BY <1>9, <2>3
<1>14. DelayedIn(p) = DelayedIn(q) \cup a.delayed
  <2>1. DelayedIn(N) = a.delayed
    BY <1>1, AnswerFacts DEF N
  <2>2. DelayedIn((q \ {e}) \cup N) = DelayedIn(q) \cup DelayedIn(N)
    BY DelayedMoves
  <2> QED BY <1>9, <2>1, <2>2
<1>15. v.mType = "selfish" \/ HalfDiameter = 0 => DelayedIn(p) = {}
  BY <1>7, <1>10, <1>14 DEF Still, AtOnce
<1>16. Secret(B, n, p, ms, HeldBy(v))
  <2>1. Secret(B, n, q, ms, H)
    BY DEF Still, H
  <2>2. \A x \in HeldBy(v) : x \in H
    BY <1>7
  <2>3. \A f \in p : f \in q \/ f.block \notin HeldBy(v)
    BY <1>9, <1>12
  <2>4. \A x \in HeldBy(v) : \A f \in p : f.block # x
    BY <2>1, <2>2, <2>3 DEF Secret
  <2>5. \A x \in HeldBy(v) : \A m \in HonestMiners : x \notin ms[m].graph.ledger /\ x \notin ToSet(ms[m].cache)
    BY <2>1, <2>2 DEF Secret
  <2>6. \A x \in 0..(n - 1) : B[x].minerID \in HonestMiners => Parents(B, x) \cap HeldBy(v) = {}
    BY <2>1, <2>2 DEF Secret
  <2> QED BY <2>4, <2>5, <2>6 DEF Secret
<1>17. Still(B, n, p, ms, v)
  <2>1. BlocksOK(B, n) /\ HonestOK(B, n, ms) /\ (n > 1 => 0 \in v.real.ledger)
    BY <1>7 DEF Still, R
  <2> QED BY <1>6, <1>13, <1>15, <1>16, <2>1 DEF Still
<1>18. Line(B, p)
  <2>1. Line(B, q) /\ e \in q
    BY <1>1 DEF Running
  <2>2. \A f \in N : f.type # "GenBlock"
    BY <1>12
  <2>3. ASSUME NEW f \in N, Towards(B, f)
        PROVE  Towards(B, e) /\ f.block = e.block /\ Birth(f) = Birth(e) /\ f = DelayInsert(t + HalfDiameter, b)
    <3>1. f = DelayInsert(t + HalfDiameter, b) /\ Kinds(B, n, f)
      BY <1>12, <2>3
    <3>2. f.type = "DelayInsert" /\ f.timestamp = t + HalfDiameter /\ f.block = b
      BY <3>1, EventFields
    <3>3. Towards(B, e)
      BY <1>3, <2>3, <3>2 DEF Towards
    <3>4. Birth(f) = f.timestamp - (InDelay + HalfDiameter) /\ Birth(e) = t - InDelay
      BY <1>1, <3>1, <3>2, Births DEF t
    <3>5. Birth(f) = Birth(e)
      <4>1. t \in Nat /\ InDelay \in Nat /\ HalfDiameter \in Nat
        BY <1>1
      <4>2. f.timestamp = t + HalfDiameter
        BY <3>2
      <4>3. f.timestamp - (InDelay + HalfDiameter) = t - InDelay
        BY <4>1, <4>2
      <4> QED BY <3>4, <4>3
    <3> QED BY <3>1, <3>2, <3>3, <3>5 DEF b
  <2>4. \A f \in N : Towards(B, f) => Towards(B, e) /\ f.block = e.block /\ Birth(f) = Birth(e)
    BY <2>3
  <2>5. \A f, g \in N : Towards(B, f) /\ Towards(B, g) => f = g
    BY <2>3
  <2>6. Line(B, (q \ {e}) \cup N)
    BY <2>1, <2>2, <2>4, <2>5, LineMoves
  <2> QED BY <1>9, <2>6
<1>19. Coming(B, n, p, v.real.ledger)
  <2> SUFFICES ASSUME NEW x \in 0..(n - 1), B[x].minerID \in HonestMiners, x \notin v.real.ledger
               PROVE  \E f \in p : f.block = x /\ Towards(B, f) /\ f.type # "DelayInsert"
    BY DEF Coming
  <2>1. x \notin w.real.ledger /\ x # b
    BY <1>7 DEF R
  <2>2. PICK f \in q : f.block = x /\ Towards(B, f) /\ f.type # "DelayInsert"
    BY <2>1 DEF Running, Coming
  <2>3. f # e
    BY <2>1, <2>2 DEF b
  <2> QED BY <1>9, <2>2, <2>3
<1>20. Mining(p, v)
  <2>1. w.graph.ledger = (R \cup H) \ DelayedIn(q) /\ DelayedIn(q) \subseteq R
    BY DEF Running, Mining, R, H
  <2>2. b \notin DelayedIn(q)
    <3> SUFFICES ASSUME b \in DelayedIn(q) PROVE FALSE
      OBVIOUS
    <3>1. PICK f \in q : f.type = "DelayInsert" /\ f.block = b
      BY DEF DelayedIn
    <3>2. B[b].minerID \in HonestMiners
      BY <1>2
    <3>3. Towards(B, f) /\ Towards(B, e) /\ f.block = e.block
      BY <1>3, <3>1, <3>2 DEF Towards, b
    <3>4. f = e
      BY <1>1, <3>3 DEF Running, Line
    <3> QED BY <3>1, <3>4
  <2>3. CASE a.delayed = {} /\ v.graph.ledger = w.graph.ledger \cup {b}
    <3>1. DelayedIn(p) = DelayedIn(q)
      BY <1>14, <2>3
    <3>2. v.graph.ledger = (R \cup H \cup {b}) \ DelayedIn(q)
      BY <2>1, <2>2, <2>3
    <3>3. v.graph.ledger = (v.real.ledger \cup HeldBy(v)) \ DelayedIn(p)
      BY <1>7, <3>1, <3>2
    <3>4. DelayedIn(p) \subseteq v.real.ledger
      BY <1>7, <2>1, <3>1
    <3> QED BY <3>3, <3>4 DEF Mining
  <2>4. CASE a.delayed = {} /\ v.graph = w.graph /\ b \in R
    <3>1. DelayedIn(p) = DelayedIn(q)
      BY <1>14, <2>4
    <3>2. v.graph.ledger = (R \cup H \cup {b}) \ DelayedIn(q)
      BY <2>1, <2>2, <2>4
    <3>3. v.graph.ledger = (v.real.ledger \cup HeldBy(v)) \ DelayedIn(p)
      BY <1>7, <3>1, <3>2
    <3>4. DelayedIn(p) \subseteq v.real.ledger
      BY <1>7, <2>1, <3>1
    <3> QED BY <3>3, <3>4 DEF Mining
  <2>5. CASE a.delayed = {b} /\ v.graph = w.graph /\ b \notin R
    <3>1. DelayedIn(p) = DelayedIn(q) \cup {b}
      BY <1>14, <2>5
    <3>2. v.graph.ledger = (R \cup H \cup {b}) \ (DelayedIn(q) \cup {b})
      BY <1>1, <2>1, <2>5
    <3>3. v.graph.ledger = (v.real.ledger \cup HeldBy(v)) \ DelayedIn(p)
      BY <1>7, <3>1, <3>2
    <3>4. DelayedIn(p) \subseteq v.real.ledger
      BY <1>7, <2>1, <3>1
    <3> QED BY <3>3, <3>4 DEF Mining
  <2> QED BY <1>6, <1>7, <2>3, <2>4, <2>5 DEF GraphAnswer, R
<1>21. Started(p, ms, v)
  <2> SUFFICES ASSUME NEW m \in Miners, ~ HasGenesis(m, ms, v) PROVE Waits(p, m)
    BY DEF Started
  <2>1. ~ HasGenesis(m, ms, w) /\ (m = Adversary => b # 0)
    BY <1>7 DEF HasGenesis, R
  <2>2. PICK f \in q : f.block = 0 /\ (f.type = "Broadcast" \/ (f.type = "SendBlock" /\ f.receiver = m))
    BY <2>1 DEF Running, Started, Waits
  <2>3. f # e
    BY <2>1, <2>2 DEF b
  <2> QED BY <1>9, <2>2, <2>3 DEF Waits
<1>22. Public(B, n, p, ms, HeldBy(v))
  <2> SUFFICES ASSUME NEW x \in OwnBlocks(B, n) \ HeldBy(v), NEW m \in HonestMiners,
                      x \notin ms[m].graph.ledger \cup ToSet(ms[m].cache)
               PROVE  OnItsWay(p, x, m)
    BY DEF Public, Reached
  <2>1. CASE x \in H
    <3>1. x \in ToSet(a.broadcast)
      BY <1>7, <2>1
    <3>2. OnItsWay(N, x, m)
      BY <1>1, <3>1, AnswerFacts DEF N
    <3> QED BY <1>9, <3>2 DEF OnItsWay
  <2>2. CASE x \notin H
    <3>1. x # b
      BY <1>1 DEF OwnBlocks
    <3>2. PICK f \in q : f.block = x /\ (f.type = "Broadcast" \/ (f.type = "SendBlock" /\ f.receiver = m))
      BY <2>2 DEF Running, Public, Reached, OnItsWay, H
    <3>3. f # e
      BY <3>1, <3>2 DEF b
    <3> QED BY <1>9, <3>2, <3>3 DEF OnItsWay
  <2> QED BY <2>1, <2>2
<1> QED BY <1>17, <1>18, <1>19, <1>20, <1>21, <1>22 DEF Running

\* DelayInsertEvent.Run.
LEMMA DelayKeeps ==
    ASSUME NEW B, NEW n, NEW q, NEW ms, NEW w, Still(B, n, q, ms, w), Running(B, n, q, ms, w),
           NEW e \in Earliest(q), e.type = "DelayInsert",
           NEW v, v = DelayedInsert(B, w, e.block)
    PROVE  Still(B, n, q \ {e}, ms, v) /\ Running(B, n, q \ {e}, ms, v)
<1> DEFINE b == e.block
           p == q \ {e}
<1>1. /\ TableOK(B, n) /\ WithholdOK(B, n, w) /\ e \in q /\ b \in 0..(n - 1)
      /\ B[b].minerID \in HonestMiners /\ Towards(B, e)
  <2>1. TableOK(B, n) /\ WithholdOK(B, n, w) /\ e \in q /\ Kinds(B, n, e) /\ n \in Nat
    BY StillFacts DEF Still, BlocksOK, Earliest
  <2>2. IsDelayInsert(B, n, e)
    BY <2>1, EventKinds
  <2> QED BY <2>1, <2>2 DEF IsDelayInsert, Towards
<1>2. w.graph.ledger = (w.real.ledger \cup HeldBy(w)) \ DelayedIn(q) /\ DelayedIn(q) \subseteq w.real.ledger
  BY DEF Running, Mining
<1>3. Parents(B, b) \subseteq w.graph.ledger
  BY <1>1, <1>2, ParentsKnown
<1>4. /\ WithholdOK(B, n, v) /\ v.mType = w.mType /\ v.real = w.real /\ v.holding = w.holding
      /\ v.graph.ledger = w.graph.ledger \cup {b} /\ HeldBy(v) = HeldBy(w)
  <2>1. /\ WithholdOK(B, n, v) /\ v.mType = w.mType /\ v.real = w.real /\ v.holding = w.holding
        /\ v.graph.ledger = w.graph.ledger \cup {b}
    BY <1>1, <1>3, DelayedInsertOK
  <2> QED BY <2>1 DEF HeldBy
<1>5. Still(B, n, p, ms, w)
  BY StillFewer
<1>6. /\ \A f \in p : f \in q /\ f # e
      /\ \A f \in q : f.type # "DelayInsert" => f \in p
      /\ \A f \in q : f \in p \/ f = e
  OBVIOUS
<1>7. DelayedIn(p) = DelayedIn(q) \ {b} /\ b \in DelayedIn(q)
  <2>1. ASSUME NEW f \in q, f.type = "DelayInsert", f.block = b PROVE f = e
    <3>1. Towards(B, f)
      BY <1>1, <2>1 DEF Towards
    <3> QED BY <1>1, <2>1, <3>1 DEF Running, Line
  <2> HIDE DEF p
  <2> QED BY <1>1, <1>6, <2>1 DEF DelayedIn
<1> HIDE DEF p
<1>8. Still(B, n, p, ms, v)
  BY <1>4, <1>5 DEF Still
<1>9. Line(B, p)
  BY <1>6 DEF Running, Line
<1>10. Coming(B, n, p, v.real.ledger)
  BY <1>4, <1>6 DEF Running, Coming
<1>11. Mining(p, v)
  BY <1>2, <1>4, <1>7 DEF Mining
<1>12. Started(p, ms, v)
  BY <1>4, <1>6 DEF Running, Started, HasGenesis, Waits
<1>13. Public(B, n, p, ms, HeldBy(v))
  BY <1>4, <1>6 DEF Running, Public, Reached, OnItsWay
<1> QED BY <1>8, <1>9, <1>10, <1>11, <1>12, <1>13 DEF Running, p

\* The event of the block that is mined next.
LEMMA NextEvent ==
    ASSUME NEW n \in Nat, n < MaxBlock, NEW t \in Nat, t <= Duration,
           NEW stamp \in NextStamps(t, n + 1),
           NEW f, f = GenBlock(stamp, n + 1)
    PROVE  /\ IsGenBlock(n + 1, f) /\ f.type = "GenBlock" /\ f.block = n + 1
           /\ f.timestamp \in Nat /\ t < f.timestamp
<1>1. MaxBlock \in Nat /\ Duration \in Nat /\ MaxGap \in Nat
  BY BlockAssumption, OracleAssumption
<1>2. stamp \in Nat \ {0} /\ t < stamp /\ (stamp <= Duration => n + 1 < MaxBlock)
  <2>1. CASE n + 1 < MaxBlock
    <3>1. stamp \in (t + 1)..(t + MaxGap)
      BY <2>1 DEF NextStamps
    <3> QED BY <1>1, <2>1, <3>1
  <2>2. CASE ~ (n + 1 < MaxBlock)
    <3>1. stamp = Duration + 1
      BY <2>2 DEF NextStamps
    <3> QED BY <1>1, <3>1
  <2> QED BY <2>1, <2>2
<1>3. f.type = "GenBlock" /\ f.block = n + 1 /\ f.timestamp = stamp
  BY EventFields
<1> QED BY <1>2, <1>3 DEF IsGenBlock

\* What a generated block brings about besides: event e gives way to the
\* events of N, in the table C.
Successors(C, n, t, N) ==
    /\ \A f \in N : /\ Kinds(C, n + 1, f) /\ f.type # "DelayInsert"
                    /\ Towards(C, f) => f = Broadcast(t, n)
                    /\ f.type = "GenBlock" => f.timestamp \in Nat /\ t < f.timestamp
    /\ \A f, g \in N : f.type = "GenBlock" /\ g.type = "GenBlock" => f = g

OldOrNew(n, q, N, p) == \A f \in p : f \in N \/ (f \in q /\ f.block \in 0..(n - 1))

LEMMA QueueGrows ==
    ASSUME NEW B, NEW n, NEW q, NEW ms, NEW w, Still(B, n, q, ms, w), Running(B, n, q, ms, w),
           NEW C, Agree(B, C, n), NEW e \in q, e.type = "GenBlock",
           NEW N, Successors(C, n, e.timestamp, N),
           NEW p, p = (q \ {e}) \cup N
    PROVE  /\ Events(C, n + 1, p) /\ Line(C, p) /\ DelayedIn(p) = DelayedIn(q)
           /\ Coming(C, n, p, w.real.ledger) /\ OldOrNew(n, q, N, p)
<1>1. n \in Nat /\ BlocksOK(B, n) /\ Events(B, n, q) /\ Line(B, q) /\ \A f \in q : Kinds(B, n, f)
  BY StillFacts DEF Still, Running
<1>2. \A f \in q \ {e} : f.type # "GenBlock" /\ f.block \in 0..(n - 1)
  <2>1. \A f \in q \ {e} : f.type # "GenBlock"
    BY <1>1 DEF Events
  <2> QED BY <1>1, <2>1, EventKinds
<1>3. \A b \in 0..(n - 1) : b \in 0..(n + 1 - 1) /\ C[b] = B[b]
  BY <1>1 DEF Agree
<1>4. ASSUME NEW f \in q \ {e} PROVE Kinds(C, n + 1, f)
  <2>1. Kinds(B, n, f) /\ f.type # "GenBlock" /\ f.block \in 0..(n - 1)
    BY <1>1, <1>2
  <2> DEFINE k == n + 1
             b == f.block
  <2>2. ~ IsGenBlock(n, f) /\ b \in 0..(k - 1) /\ C[b] = B[b]
    BY <1>1, <1>3, <2>1, EventKinds
  <2> HIDE DEF k, b
  <2>3. IsBroadcast(n, f) => IsBroadcast(k, f)
    BY <2>2 DEF IsBroadcast, b
  <2>4. IsSendBlock(B, n, f) => IsSendBlock(C, k, f)
    BY <2>2 DEF IsSendBlock, b
  <2>5. IsDelayInsert(B, n, f) => IsDelayInsert(C, k, f)
    BY <2>2 DEF IsDelayInsert, b
  <2>6. Kinds(C, k, f)
    BY <2>1, <2>2, <2>3, <2>4, <2>5 DEF Kinds
  <2> QED BY <2>6 DEF k
<1>5. Events(C, n + 1, p)
  <2>1. \A f \in p : Kinds(C, n + 1, f)
    BY <1>4 DEF Successors
  <2>2. \A f \in p : f.type = "GenBlock" => f \in N
    BY <1>2
  <2> QED BY <2>1, <2>2 DEF Events, Successors
<1>6. Line(C, p)
  <2>1. \A f \in N : Towards(C, f) => f = Broadcast(e.timestamp, n)
    BY DEF Successors
  <2>2. \A f \in N : f.type = "GenBlock" => f.timestamp \in Nat /\ e.timestamp < f.timestamp
    BY DEF Successors
  <2>3. Line(C, (q \ {e}) \cup N)
    BY <1>1, <2>1, <2>2, LineGrows
  <2> QED BY <2>3
<1>7. DelayedIn(p) = DelayedIn(q)
  <2>1. \A f : f.type = "DelayInsert" => (f \in p <=> f \in q)
    BY DEF Successors
  <2> QED BY <2>1 DEF DelayedIn
<1>8. Coming(C, n, p, w.real.ledger)
  <2> SUFFICES ASSUME NEW x \in 0..(n - 1), C[x].minerID \in HonestMiners, x \notin w.real.ledger
               PROVE  \E f \in p : f.block = x /\ Towards(C, f) /\ f.type # "DelayInsert"
    BY DEF Coming
  <2>1. B[x].minerID \in HonestMiners
    BY <1>3
  <2>2. PICK f \in q : f.block = x /\ Towards(B, f) /\ f.type # "DelayInsert"
    BY <2>1 DEF Running, Coming
  <2>3. f # e /\ Towards(C, f)
    BY <1>3, <2>2 DEF Towards
  <2> QED BY <2>2, <2>3
<1>9. OldOrNew(n, q, N, p)
  BY <1>2 DEF OldOrNew
<1> QED BY <1>5, <1>6, <1>7, <1>8, <1>9

\* The honest miners in the longer table.
LEMMA HonestStays ==
    ASSUME NEW B, NEW n \in Nat, NEW C, Keeps(B, n, C, n + 1), NEW ms, HonestOK(B, n, ms)
    PROVE  HonestOK(C, n + 1, ms)
<1>1. ASSUME NEW m \in HonestMiners PROVE MinerOK(C, n + 1, ms[m].graph, ms[m].cache)
  <2>1. GraphOK(B, n, ms[m].graph) /\ ms[m].cache \in Seq(0..(n - 1))
    BY DEF HonestOK, MinerOK
  <2>2. GraphOK(C, n + 1, ms[m].graph)
    BY <2>1 DEF Keeps
  <2>3. ms[m].cache \in Seq(0..(n + 1 - 1))
    BY <2>1, SeqGrows
  <2> QED BY <2>2, <2>3 DEF MinerOK
<1> QED BY <1>1 DEF HonestOK

\* What an honest miner knows holds no block that is held back, and neither
\* does what it builds on.
LEMMA HonestBlockIsApart ==
    ASSUME NEW B, NEW n \in Nat, NEW q, NEW ms, NEW held, Secret(B, n, q, ms, held),
           NEW m \in HonestMiners, NEW C, Agree(B, C, n), Parents(C, n) \subseteq ms[m].graph.ledger,
           NEW b \in 0..n, C[b].minerID \in HonestMiners
    PROVE  Parents(C, b) \cap held = {}
<1>1. CASE b = n
  BY <1>1 DEF Secret
<1>2. CASE b # n
  <2>1. b \in 0..(n - 1)
    BY <1>2
  <2>2. Parents(C, b) = Parents(B, b) /\ C[b] = B[b]
    BY <2>1, ParentsStay DEF Agree
  <2> QED BY <2>1, <2>2 DEF Secret
<1> QED BY <1>1, <1>2

\* Table C is B with edges for block n and the next block mined.
Grown(B, n, C) ==
    /\ BlocksOK(C, n + 1) /\ Agree(B, C, n) /\ Keeps(B, n, C, n + 1)
    /\ C[n].minerID = B[n].minerID

\* Honest miner m has block n too, in its graph.
HonestHas(C, n, ms, m, ks) ==
    /\ ks \in [HonestMiners -> HonestType]
    /\ GraphOK(C, n + 1, ks[m].graph) /\ ks[m].graph.ledger = ms[m].graph.ledger \cup {n}
    /\ ks[m].cache = ms[m].cache
    /\ \A x \in HonestMiners : x # m => ks[x] = ms[x]

\* GenerateBlock of HonestMiner, and mineNextBlock.
LEMMA HonestGenerates ==
    ASSUME NEW B, NEW n, BlocksOK(B, n), n < MaxBlock, NEW ms, HonestOK(B, n, ms),
           NEW m \in HonestMiners, 0 \in ms[m].graph.ledger,
           NEW F, F = FillNewBlock(B, ms[m].graph, n),
           NEW ks, ks = [ms EXCEPT ![m] = GenerateBlock(F, ms[m], n)],
           NEW x \in Miners, NEW r \in 0..MaxResidual, NEW C, C = MineBlock(F, n + 1, x, r)
    PROVE  /\ Grown(B, n, C) /\ HonestHas(C, n, ms, m, ks)
           /\ Parents(C, n) \subseteq ms[m].graph.ledger
<1>1. PICK hm : hm = ms[m]
  OBVIOUS
<1>2. PICK g : g = hm.graph
  OBVIOUS
<1>3. n \in Nat /\ GraphOK(B, n, g) /\ 0 \in g.ledger /\ hm \in HonestType /\ F = FillNewBlock(B, g, n)
  BY <1>1, <1>2, TableFacts DEF HonestOK, MinerOK, BlocksOK
<1>4. PICK y, refs, anc : y = g.pivotTip /\ refs = g.tips \ {y} /\ anc = g.totalWeight
  OBVIOUS
<1>5. /\ y \in 0..(n - 1) /\ refs \in SUBSET (0..(n - 1)) /\ anc \in Nat
      /\ anc = Cardinality(PastOf(B, y, refs)) /\ refs \cup {y} \subseteq g.ledger
  BY <1>3, <1>4, FillEdges
<1>6. F = LinkBlock(B, n, y, refs, anc)
  BY <1>3, <1>4 DEF FillNewBlock
<1>7. /\ TableOK(F, n + 1) /\ Keeps(B, n, F, n + 1) /\ Parents(F, n) = refs \cup {y}
      /\ BlocksOK(C, n + 1) /\ Agree(B, C, n) /\ Keeps(F, n + 1, C, n + 1) /\ Keeps(B, n, C, n + 1)
      /\ C[n].minerID = B[n].minerID /\ Parents(C, n) = refs \cup {y}
  BY <1>5, <1>6, NextBlock
<1>8. PICK h : h = Insert(F, g, n)
  OBVIOUS
<1>9. GraphOK(F, n + 1, h) /\ h \in Graph /\ h.ledger = g.ledger \cup {n}
  <2> DEFINE k == n + 1
  <2>1. n \in 0..(k - 1) /\ n \notin g.ledger
    BY <1>3 DEF GraphOK
  <2>2. GraphOK(F, k, g) /\ TableOK(F, k)
    BY <1>3, <1>7 DEF Keeps
  <2>3. InsertResult(F, g, n) = "Success"
    BY <1>5, <1>7, <2>1 DEF InsertResult, SeenAllAncestors
  <2> HIDE DEF k
  <2>4. GraphOK(F, k, Insert(F, g, n)) /\ Insert(F, g, n).ledger = g.ledger \cup {n}
    BY <2>1, <2>2, <2>3, InsertKeepsGraph, InsertLedger
  <2>5. GraphOK(F, k, h) /\ h.ledger = g.ledger \cup {n}
    BY <1>8, <2>4
  <2> QED BY <2>5 DEF GraphOK, k
<1>10. GraphOK(C, n + 1, h)
  BY <1>7, <1>9 DEF Keeps
<1>11. PICK z \in HonestType : z = GenerateBlock(F, hm, n) /\ z.graph = h /\ z.cache = hm.cache
  <2>1. GenerateBlock(F, hm, n) = [hm EXCEPT !.graph = h]
    BY <1>2, <1>8 DEF GenerateBlock
  <2> QED BY <1>3, <1>9, <2>1 DEF HonestType
<1>12. ks \in [HonestMiners -> HonestType] /\ ks[m] = z /\ \A c \in HonestMiners : c # m => ks[c] = ms[c]
  <2>1. ks = [ms EXCEPT ![m] = z]
    BY <1>1, <1>11
  <2>2. ms \in [HonestMiners -> HonestType]
    BY DEF HonestOK
  <2> QED BY <2>1, <2>2
<1>13. HonestHas(C, n, ms, m, ks)
  BY <1>1, <1>2, <1>9, <1>10, <1>11, <1>12 DEF HonestHas
<1>14. Grown(B, n, C)
  BY <1>7 DEF Grown
<1> QED BY <1>1, <1>2, <1>5, <1>7, <1>13, <1>14

\* GenBlockEvent.Run, for an honest miner.
LEMMA HonestGenKeeps ==
    ASSUME NEW B, NEW n, NEW q, NEW ms, NEW w, Still(B, n, q, ms, w), Running(B, n, q, ms, w),
           NEW e \in Earliest(q), e.type = "GenBlock", e.timestamp <= Duration,
           NEW m \in HonestMiners, m = B[n].minerID, NEW C, Grown(B, n, C),
           NEW ks, HonestHas(C, n, ms, m, ks), Parents(C, n) \subseteq ms[m].graph.ledger,
           NEW f, f = Broadcast(e.timestamp, n),
           NEW stamp \in NextStamps(e.timestamp, n + 1), NEW d, d = GenBlock(stamp, n + 1),
           NEW p, p = (q \ {e}) \cup {f, d}
    PROVE  Still(C, n + 1, p, ks, w) /\ Running(C, n + 1, p, ks, w)
<1> DEFINE t == e.timestamp
           k == n + 1
           N == {f, d}
           H == HeldBy(w)
<1>1. /\ n \in Nat /\ n >= 1 /\ e \in q /\ t \in Nat /\ n < MaxBlock
      /\ m # Adversary /\ HonestOK(B, n, ms) /\ WithholdOK(B, n, w)
      /\ Secret(B, n, q, ms, H)
  <2>1. n \in Nat /\ n >= 1 /\ e \in q /\ Kinds(B, n, e)
    BY StillFacts DEF Earliest
  <2>2. IsGenBlock(n, e)
    BY <2>1, EventKinds
  <2>3. HonestOK(B, n, ms) /\ WithholdOK(B, n, w) /\ Secret(B, n, q, ms, H)
    BY DEF Still
  <2> QED BY <2>1, <2>2, <2>3 DEF IsGenBlock, HonestMiners
<1>2. /\ BlocksOK(C, n + 1) /\ Agree(B, C, n) /\ Keeps(B, n, C, n + 1)
      /\ C[n].minerID = m
  BY DEF Grown
<1>3. \A y \in Miners : HasGenesis(y, ms, w)
  BY GenesisKnown
<1>4. /\ f.type = "Broadcast" /\ f.timestamp = t /\ f.block = n
      /\ d.type = "GenBlock" /\ d.block = n + 1 /\ d.timestamp \in Nat /\ t < d.timestamp
      /\ IsGenBlock(n + 1, d) /\ IsBroadcast(n + 1, f)
  <2>1. f.type = "Broadcast" /\ f.timestamp = t /\ f.block = n
    BY EventFields
  <2>2. /\ d.type = "GenBlock" /\ d.block = n + 1 /\ d.timestamp \in Nat /\ t < d.timestamp
        /\ IsGenBlock(n + 1, d)
    BY <1>1, NextEvent
  <2>3. n \in 0..(n + 1 - 1) /\ n # 0
    BY <1>1
  <2>4. IsBroadcast(n + 1, f)
    BY <1>1, <2>1, <2>3 DEF IsBroadcast
  <2> QED BY <2>1, <2>2, <2>4
<1>5. Successors(C, n, t, N)
  <2>1. ~ Towards(C, d) /\ d.type # "DelayInsert" /\ f.type # "DelayInsert" /\ f.type # "GenBlock"
    BY <1>4 DEF Towards
  <2>2. Kinds(C, n + 1, d) /\ Kinds(C, n + 1, f)
    BY <1>4 DEF Kinds
  <2> QED BY <1>4, <2>1, <2>2 DEF Successors
<1> HIDE DEF t, N
<1>6. /\ Events(C, n + 1, p) /\ Line(C, p) /\ DelayedIn(p) = DelayedIn(q)
      /\ Coming(C, n, p, w.real.ledger) /\ OldOrNew(n, q, N, p)
  <2>1. p = (q \ {e}) \cup N
    BY DEF N
  <2>2. Successors(C, n, e.timestamp, N)
    BY <1>5 DEF t
  <2> QED BY <1>1, <1>2, <2>1, <2>2, QueueGrows
<1>7. HonestOK(C, n + 1, ks)
  <2>1. HonestOK(C, n + 1, ms)
    BY <1>1, <1>2, HonestStays
  <2>2. ASSUME NEW y \in HonestMiners PROVE MinerOK(C, n + 1, ks[y].graph, ks[y].cache)
    <3>1. CASE y = m
      BY <2>1, <3>1 DEF HonestOK, MinerOK, HonestHas
    <3>2. CASE y # m
      <4>1. ks[y] = ms[y]
        BY <3>2 DEF HonestHas
      <4> QED BY <2>1, <4>1 DEF HonestOK
    <3> QED BY <3>1, <3>2
  <2>3. ks \in [HonestMiners -> HonestType]
    BY DEF HonestHas
  <2> QED BY <2>2, <2>3 DEF HonestOK
<1>8. WithholdOK(C, n + 1, w)
  BY <1>1, <1>2, WithholdStays
<1>9. H \subseteq 0..(n - 1) /\ n \notin H /\ n + 1 \notin H
  <2>1. H \subseteq 0..(n - 1)
    BY StillFacts
  <2> HIDE DEF H
  <2> QED BY <1>1, <2>1
<1>10. Secret(C, n + 1, p, ks, H)
  <2>1. ASSUME NEW b \in H, NEW y \in HonestMiners
        PROVE  b \notin ks[y].graph.ledger /\ b \notin ToSet(ks[y].cache)
    <3>1. b \notin ms[y].graph.ledger /\ b \notin ToSet(ms[y].cache) /\ b # n
      BY <1>1, <1>9 DEF Secret
    <3> QED BY <3>1 DEF HonestHas
  <2>2. ASSUME NEW b \in H, NEW c \in p PROVE c.block # b
    <3>1. CASE c \in N
      <4>1. c.block = n \/ c.block = n + 1
        BY <1>4, <3>1 DEF N
      <4> QED BY <1>9, <4>1
    <3>2. CASE c \in q
      BY <1>1, <3>2 DEF Secret
    <3> QED BY <1>6, <3>1, <3>2 DEF OldOrNew
  <2> HIDE DEF H
  <2>3. \A b \in 0..n : C[b].minerID \in HonestMiners => Parents(C, b) \cap H = {}
    BY <1>1, <1>2, HonestBlockIsApart
  <2>4. \A b \in 0..(k - 1) : b \in 0..n
    BY <1>1
  <2> HIDE DEF k
  <2>5. Secret(C, k, p, ks, H)
    BY <2>1, <2>2, <2>3, <2>4 DEF Secret
  <2> QED BY <2>5 DEF k
<1>11. 0 \in w.real.ledger
  BY <1>3, AdversaryAssumption DEF HasGenesis
<1>12. w.mType = "selfish" \/ HalfDiameter = 0 => DelayedIn(p) = {}
  BY <1>6 DEF Still
<1> DEFINE P == Still(C, n + 1, p, ks, w)
<1>13. P
  BY <1>2, <1>6, <1>7, <1>8, <1>10, <1>11, <1>12 DEF Still
<1>14. Coming(C, n + 1, p, w.real.ledger)
  <2>1. f \in p /\ Towards(C, f)
    BY <1>1, <1>2, <1>4 DEF Towards
  <2>2. \A b \in 0..(k - 1) : b \in 0..(n - 1) \/ b = n
    BY <1>1
  <2> HIDE DEF k
  <2>3. Coming(C, k, p, w.real.ledger)
    BY <1>4, <1>6, <2>1, <2>2 DEF Coming
  <2> QED BY <2>3 DEF k
<1>15. Mining(p, w)
  BY <1>6 DEF Running, Mining
<1>16. Started(p, ks, w)
  <2> SUFFICES ASSUME NEW y \in Miners PROVE HasGenesis(y, ks, w)
    BY DEF Started
  <2>1. HasGenesis(y, ms, w)
    BY <1>3
  <2>2. y # Adversary => y \in HonestMiners
    BY DEF HonestMiners
  <2> QED BY <2>1, <2>2 DEF HasGenesis, HonestHas
<1>17. Public(C, n + 1, p, ks, H)
  <2> SUFFICES ASSUME NEW x \in OwnBlocks(C, n + 1) \ H, NEW y \in HonestMiners,
                      x \notin ks[y].graph.ledger \cup ToSet(ks[y].cache)
               PROVE  OnItsWay(p, x, y)
    BY DEF Public, Reached
  <2>1. x \in OwnBlocks(B, n) \ H
    <3>1. x \in 0..n /\ x # n /\ C[x].minerID = Adversary
      BY <1>1, <1>2 DEF OwnBlocks
    <3>2. x \in 0..(n - 1)
      BY <1>1, <3>1
    <3> QED BY <1>2, <3>1, <3>2 DEF Agree, OwnBlocks
  <2>2. x \notin ms[y].graph.ledger \cup ToSet(ms[y].cache)
    <3>1. CASE y = m
      BY <3>1 DEF HonestHas
    <3>2. CASE y # m
      <4>1. ks[y] = ms[y]
        BY <3>2 DEF HonestHas
      <4> QED BY <4>1
    <3> QED BY <3>1, <3>2
  <2>3. PICK c \in q : c.block = x /\ (c.type = "Broadcast" \/ (c.type = "SendBlock" /\ c.receiver = y))
    BY <2>1, <2>2 DEF Running, Public, Reached, OnItsWay, H
  <2>4. c \in p
    BY <2>3
  <2> QED BY <2>3, <2>4 DEF OnItsWay
<1>18. Running(C, n + 1, p, ks, w)
  BY <1>6, <1>14, <1>15, <1>16, <1>17 DEF Running
<1> QED BY <1>13, <1>18

\* The adversary in a table with other miners for the blocks to come.
LEMMA WithholdAgrees ==
    ASSUME NEW F, NEW C, NEW k \in Nat, Agree(F, C, k), Keeps(F, k, C, k),
           NEW v, WithholdOK(F, k, v)
    PROVE  WithholdOK(C, k, v)
<1>1. /\ v \in WithholdType(k) /\ GraphOK(F, k, v.graph) /\ HoldOK(F, k, v.real, v.holding)
      /\ Ahead(F, v.real, v.holding) /\ HeldBy(v) \subseteq OwnBlocks(F, k)
      /\ OwnBlocks(F, k) \subseteq HeldBy(v) \cup v.real.ledger /\ v.fatal = FALSE
  BY DEF WithholdOK
<1>2. GraphOK(C, k, v.graph) /\ GraphOK(C, k, v.real) /\ GraphOK(F, k, v.real)
  BY <1>1 DEF HoldOK, Keeps
<1>3. \A b \in 0..(k - 1) : C[b] = F[b] /\ Parents(C, b) = Parents(F, b)
  BY ParentsStay DEF Agree
<1>4. HoldOK(C, k, v.real, v.holding)
  <2>1. v.holding \in Seq(0..(k - 1))
    BY <1>1 DEF HoldOK
  <2>2. ToSet(v.holding) \subseteq 0..(k - 1)
    BY <2>1, ToSetIs
  <2> QED BY <1>1, <1>2, <1>3, <2>2 DEF HoldOK
<1>5. Ahead(C, v.real, v.holding)
  <2> SUFFICES ASSUME v.holding # <<>> PROVE 0 \in v.real.ledger /\ C[v.real.pivotTip].minerID = Adversary
    BY DEF Ahead
  <2>1. 0 \in v.real.ledger /\ F[v.real.pivotTip].minerID = Adversary
    BY <1>1 DEF Ahead
  <2>2. v.real.pivotTip \in 0..(k - 1)
    BY <1>2, <2>1, OwnEdges
  <2> QED BY <1>3, <2>1, <2>2
<1>6. OwnBlocks(C, k) = OwnBlocks(F, k)
  BY <1>3 DEF OwnBlocks
<1> QED BY <1>1, <1>2, <1>4, <1>5, <1>6 DEF WithholdOK

\* The queue q after event e has brought about answer a and event d.
After(q, e, a, d) == (q \ {e}) \cup (AnswerEvents(e.timestamp, a) \cup {d})

\* GenerateBlock of WithholdMiner, and mineNextBlock.
LEMMA AdversaryGenerates ==
    ASSUME NEW B, NEW n, BlocksOK(B, n), n < MaxBlock, B[n].minerID = Adversary,
           NEW w, WithholdOK(B, n, w), Prepared(w),
           NEW F, F = WithholdFill(B, w, n),
           NEW a, a = WithholdGenerate(F, w, n, Adversary),
           NEW x \in Miners, NEW r \in 0..MaxResidual, NEW C, C = MineBlock(F, n + 1, x, r)
    PROVE  Grown(B, n, C) /\ AdversaryHas(C, n, w, a, State(a))
<1>1. /\ n \in Nat /\ TableOK(B, n) /\ GraphOK(B, n, w.graph)
      /\ 0 \in w.graph.ledger /\ 0 \in w.real.ledger
      /\ w.graph.ledger \subseteq w.real.ledger \cup HeldBy(w)
  BY TableFacts DEF BlocksOK, WithholdOK, Prepared
<1>2. PICK y, refs, anc : /\ y \in 0..(n - 1) /\ refs \in SUBSET (0..(n - 1)) /\ anc \in Nat
                          /\ anc = Cardinality(PastOf(B, y, refs))
                          /\ refs \cup {y} \subseteq w.graph.ledger
                          /\ F = LinkBlock(B, n, y, refs, anc)
  <2> DEFINE g == w.graph
             y == g.pivotTip
             others == g.tips \ {y}
             total == g.totalWeight
             next == B[y].ancestorNum + 1
  <2>1. /\ y \in 0..(n - 1) /\ others \in SUBSET (0..(n - 1)) /\ total \in Nat
        /\ total = Cardinality(PastOf(B, y, others)) /\ others \cup {y} \subseteq g.ledger
    BY <1>1, FillEdges
  <2>2. next \in Nat /\ next = Cardinality(PastOf(B, y, {}))
    BY <2>1, SelfishEdges
  <2>3. F = IF w.mType = "selfish" THEN LinkBlock(B, n, y, {}, next) ELSE LinkBlock(B, n, y, others, total)
    BY DEF WithholdFill, FillNewBlock
  <2>4. {} \in SUBSET (0..(n - 1)) /\ {} \cup {y} \subseteq g.ledger
    BY <2>1
  <2> HIDE DEF g, y, others, total, next
  <2>5. CASE w.mType = "selfish"
    <3>1. F = LinkBlock(B, n, y, {}, next)
      BY <2>3, <2>5
    <3> QED BY <2>1, <2>2, <2>4, <3>1 DEF g
  <2>6. CASE w.mType # "selfish"
    <3>1. F = LinkBlock(B, n, y, others, total)
      BY <2>3, <2>6
    <3> QED BY <2>1, <3>1 DEF g
  <2> QED BY <2>5, <2>6
<1>3. /\ TableOK(F, n + 1) /\ Agree(B, F, n) /\ Keeps(B, n, F, n + 1)
      /\ F[n].minerID = B[n].minerID /\ Parents(F, n) = refs \cup {y}
      /\ BlocksOK(C, n + 1) /\ Agree(F, C, n + 1) /\ Agree(B, C, n)
      /\ Keeps(F, n + 1, C, n + 1) /\ Keeps(B, n, C, n + 1)
      /\ C[n].minerID = B[n].minerID
  BY <1>2, NextBlock
<1>4. AdversaryHas(F, n, w, a, State(a))
  <2>1. Parents(F, n) \subseteq w.graph.ledger /\ Edged(B, n, F)
    BY <1>2, <1>3 DEF Edged
  <2> QED BY <1>1, <2>1, WithholdGenerateOK
<1>5. WithholdOK(C, n + 1, State(a))
  <2> DEFINE k == n + 1
             v == State(a)
  <2>1. k \in Nat /\ Agree(F, C, k) /\ Keeps(F, k, C, k) /\ WithholdOK(F, k, v)
    BY <1>1, <1>3, <1>4 DEF AdversaryHas
  <2> HIDE DEF k, v
  <2>2. WithholdOK(C, k, v)
    BY <2>1, WithholdAgrees
  <2> QED BY <2>2 DEF k, v
<1>6. Grown(B, n, C)
  BY <1>3 DEF Grown
<1> QED BY <1>4, <1>5, <1>6 DEF AdversaryHas

\* GenBlockEvent.Run, for the adversary.
LEMMA AdversaryGenKeeps ==
    ASSUME NEW B, NEW n, NEW q, NEW ms, NEW w, Still(B, n, q, ms, w), Running(B, n, q, ms, w),
           NEW e \in Earliest(q), e.type = "GenBlock", e.timestamp <= Duration,
           B[n].minerID = Adversary, NEW C, Grown(B, n, C),
           NEW a, NEW v, AdversaryHas(C, n, w, a, v),
           NEW stamp \in NextStamps(e.timestamp, n + 1), NEW d, d = GenBlock(stamp, n + 1),
           NEW p, p = After(q, e, a, d)
    PROVE  Still(C, n + 1, p, ms, v) /\ Running(C, n + 1, p, ms, v)
<1> DEFINE t == e.timestamp
           k == n + 1
           M == AnswerEvents(t, a)
           N == M \cup {d}
           H == HeldBy(w)
           K == HeldBy(v)
           R == w.real.ledger
<1>0. /\ v = State(a) /\ WithholdOK(C, n + 1, v) /\ a \in AnswerType(n + 1)
      /\ v.graph.ledger = w.graph.ledger \cup {n} /\ a.delayed = {}
      /\ Answered(w, a, {n}, {})
  BY DEF AdversaryHas
<1>1. /\ n \in Nat /\ n >= 1 /\ e \in q /\ t \in Nat /\ n < MaxBlock
      /\ HonestOK(B, n, ms) /\ WithholdOK(B, n, w) /\ Secret(B, n, q, ms, H)
      /\ H \subseteq OwnBlocks(B, n) /\ H \subseteq 0..(n - 1) /\ R \subseteq 0..(n - 1)
      /\ Adversary \notin HonestMiners /\ NoMiner # Adversary /\ B[0].minerID = NoMiner
      /\ \A b \in DelayedIn(q) : b \in 0..(n - 1)
  <2>1. /\ n \in Nat /\ n >= 1 /\ e \in q /\ Kinds(B, n, e)
        /\ H \subseteq OwnBlocks(B, n) /\ H \subseteq 0..(n - 1) /\ R \subseteq 0..(n - 1)
        /\ Adversary \notin HonestMiners /\ NoMiner # Adversary /\ B[0].minerID = NoMiner
        /\ \A b \in DelayedIn(q) : b \in 0..(n - 1)
    BY StillFacts DEF Earliest
  <2>2. IsGenBlock(n, e)
    BY <2>1, EventKinds
  <2>3. HonestOK(B, n, ms) /\ WithholdOK(B, n, w) /\ Secret(B, n, q, ms, H)
    BY DEF Still
  <2> QED BY <2>1, <2>2, <2>3 DEF IsGenBlock
<1>2. /\ BlocksOK(C, n + 1) /\ Agree(B, C, n) /\ Keeps(B, n, C, n + 1)
      /\ C[n].minerID = Adversary
  BY DEF Grown
<1>3. \A y \in Miners : HasGenesis(y, ms, w)
  BY GenesisKnown
<1>4. /\ v.mType = w.mType /\ v.real = a.real /\ K = ToSet(a.holding)
      /\ v.real.ledger \cup K = R \cup H \cup {n}
      /\ R \subseteq v.real.ledger /\ K \subseteq H \cup {n}
      /\ ToSet(a.broadcast) = (H \cup {n}) \ K
  <2>1. v.mType = a.mType /\ v.real = a.real /\ v.holding = a.holding
    BY <1>0, StateFields
  <2>2. K = ToSet(a.holding)
    BY <2>1 DEF HeldBy
  <2> HIDE DEF K
  <2> QED BY <1>0, <2>1, <2>2 DEF Answered
<1>5. /\ d.type = "GenBlock" /\ d.block = n + 1 /\ d.timestamp \in Nat /\ t < d.timestamp
      /\ IsGenBlock(n + 1, d)
  BY <1>1, NextEvent
<1> HIDE DEF t, H, K, R, M
<1>6. ASSUME NEW f \in M
      PROVE  /\ Kinds(C, n + 1, f) /\ f.type = "Broadcast" /\ f.block \notin K
             /\ ~ Towards(C, f)
  <2>1. f = Broadcast(t, f.block) /\ f.type = "Broadcast" /\ f.timestamp = t /\ f.block \in ToSet(a.broadcast)
    BY <1>0, <1>1, AnswerFacts DEF FromAnswer, M
  <2>2. f.block \in H \cup {n} /\ f.block \notin K
    BY <1>4, <2>1
  <2>3. C[f.block].minerID = Adversary /\ f.block \in 0..(n + 1 - 1) /\ f.block # 0
    <3>1. CASE f.block = n
      BY <1>1, <1>2, <3>1
    <3>2. CASE f.block \in H
      <4>1. f.block \in 0..(n - 1) /\ B[f.block].minerID = Adversary
        BY <1>1, <3>2 DEF OwnBlocks
      <4>2. C[f.block] = B[f.block]
        BY <1>2, <4>1 DEF Agree
      <4>3. f.block \in 0..(n + 1 - 1)
        BY <1>1, <4>1
      <4> QED BY <1>1, <4>1, <4>2, <4>3
    <3> QED BY <2>2, <3>1, <3>2
  <2>4. IsBroadcast(n + 1, f)
    BY <1>1, <2>1, <2>3 DEF IsBroadcast
  <2> QED BY <1>1, <2>1, <2>2, <2>3, <2>4 DEF Kinds, Towards
<1>7. Successors(C, n, t, N)
  <2>1. Kinds(C, n + 1, d) /\ ~ Towards(C, d)
    BY <1>5 DEF Kinds, Towards
  <2> QED BY <1>5, <1>6, <2>1 DEF Successors
<1>8. \A f \in N : f.block \notin K
  <2>1. n + 1 \notin K
    BY <1>1, <1>4
  <2> QED BY <1>5, <1>6, <2>1
<1> HIDE DEF N
<1>9. /\ Events(C, n + 1, p) /\ Line(C, p) /\ DelayedIn(p) = DelayedIn(q)
      /\ Coming(C, n, p, w.real.ledger) /\ OldOrNew(n, q, N, p)
  <2>1. p = (q \ {e}) \cup N
    BY DEF N, M, t, After
  <2>2. Successors(C, n, e.timestamp, N)
    BY <1>7 DEF t
  <2> QED BY <1>1, <1>2, <2>1, <2>2, QueueGrows
<1>10. HonestOK(C, n + 1, ms)
  BY <1>1, <1>2, HonestStays
<1>11. Secret(C, n + 1, p, ms, K)
  <2>1. ASSUME NEW b \in K, NEW y \in HonestMiners
        PROVE  b \notin ms[y].graph.ledger /\ b \notin ToSet(ms[y].cache)
    <3>1. CASE b \in H
      BY <1>1, <3>1 DEF Secret
    <3>2. CASE b = n
      <4>1. ms[y].graph.ledger \subseteq 0..(n - 1) /\ ms[y].cache \in Seq(0..(n - 1))
        BY <1>1 DEF HonestOK, MinerOK, GraphOK
      <4>2. PICK c, S : c = ms[y].cache /\ S = 0..(n - 1)
        OBVIOUS
      <4>3. c \in Seq(S)
        BY <4>1, <4>2
      <4>4. ToSet(c) \subseteq S
        BY <4>3, ToSetIs
      <4> QED BY <1>1, <3>2, <4>1, <4>2, <4>4
    <3> QED BY <1>4, <3>1, <3>2
  <2>2. ASSUME NEW b \in K, NEW c \in p PROVE c.block # b
    <3>1. CASE c \in N
      BY <1>8, <3>1
    <3>2. CASE c \in q /\ c.block \in 0..(n - 1)
      <4>1. b \in H => c.block # b
        BY <1>1, <3>2 DEF Secret
      <4>2. b = n => c.block # b
        BY <1>1, <3>2
      <4> QED BY <1>4, <4>1, <4>2
    <3> QED BY <1>9, <3>1, <3>2 DEF OldOrNew
  <2>3. ASSUME NEW b \in 0..(k - 1), C[b].minerID \in HonestMiners PROVE Parents(C, b) \cap K = {}
    <3>1. b \in 0..(n - 1)
      <4>1. b # n
        BY <1>1, <1>2, <2>3
      <4> QED BY <1>1, <4>1
    <3>2. Parents(C, b) = Parents(B, b) /\ C[b] = B[b]
      BY <1>2, <3>1, ParentsStay DEF Agree
    <3>3. Parents(B, b) \cap H = {}
      BY <1>1, <2>3, <3>1, <3>2 DEF Secret
    <3>4. n \notin Parents(B, b)
      <4>1. Parents(B, b) \subseteq 0..(b - 1)
        BY <3>1, TableFacts DEF Still, BlocksOK
      <4> QED BY <1>1, <3>1, <4>1
    <3> QED BY <1>4, <3>2, <3>3, <3>4
  <2> HIDE DEF k
  <2>4. Secret(C, k, p, ms, K)
    BY <2>1, <2>2, <2>3 DEF Secret
  <2> QED BY <2>4 DEF k
<1>12. 0 \in v.real.ledger
  BY <1>3, <1>4, AdversaryAssumption DEF HasGenesis, R
<1>13. v.mType = "selfish" \/ HalfDiameter = 0 => DelayedIn(p) = {}
  BY <1>4, <1>9 DEF Still
<1>14. Still(C, n + 1, p, ms, v)
  BY <1>0, <1>2, <1>9, <1>10, <1>11, <1>12, <1>13 DEF Still, K
<1>15. Coming(C, n + 1, p, v.real.ledger)
  <2>1. \A b \in 0..(k - 1) : b \in 0..(n - 1) \/ b = n
    BY <1>1
  <2> HIDE DEF k
  <2>2. Coming(C, k, p, v.real.ledger)
    BY <1>1, <1>2, <1>4, <1>9, <2>1 DEF Coming, R
  <2> QED BY <2>2 DEF k
<1>16. Mining(p, v)
  <2>1. w.graph.ledger = (R \cup H) \ DelayedIn(q) /\ DelayedIn(q) \subseteq R
    BY DEF Running, Mining, R, H
  <2>2. n \notin DelayedIn(q)
    BY <1>1
  <2>3. v.graph.ledger = (R \cup H \cup {n}) \ DelayedIn(q)
    BY <1>0, <2>1, <2>2
  <2>4. v.graph.ledger = (v.real.ledger \cup K) \ DelayedIn(p)
    BY <1>4, <1>9, <2>3
  <2>5. DelayedIn(p) \subseteq v.real.ledger
    BY <1>4, <1>9, <2>1
  <2> QED BY <2>4, <2>5 DEF Mining, K
<1>17. Started(p, ms, v)
  BY <1>3, <1>4 DEF Started, HasGenesis, R
<1>18. Public(C, n + 1, p, ms, K)
  <2> SUFFICES ASSUME NEW x \in OwnBlocks(C, n + 1) \ K, NEW m \in HonestMiners,
                      x \notin ms[m].graph.ledger \cup ToSet(ms[m].cache)
               PROVE  OnItsWay(p, x, m)
    BY DEF Public, Reached
  <2>1. CASE x \in H \cup {n}
    <3>1. x \in ToSet(a.broadcast)
      BY <1>4, <2>1
    <3>2. OnItsWay(M, x, m)
      BY <1>1, <3>1, AnswerFacts DEF M
    <3>3. \A f \in M : f \in p
      BY DEF M, t, After
    <3> QED BY <3>2, <3>3 DEF OnItsWay
  <2>2. CASE x \notin H \cup {n}
    <3>1. x \in OwnBlocks(B, n) \ H
      <4>1. x \in 0..n /\ x # n /\ C[x].minerID = Adversary
        BY <1>1, <2>2 DEF OwnBlocks
      <4>2. x \in 0..(n - 1)
        BY <1>1, <4>1
      <4> QED BY <1>2, <2>2, <4>1, <4>2 DEF Agree, OwnBlocks
    <3>2. PICK f \in q : f.block = x /\ (f.type = "Broadcast" \/ (f.type = "SendBlock" /\ f.receiver = m))
      BY <3>1 DEF Running, Public, Reached, OnItsWay, H
    <3>3. f \in p
      BY <3>2 DEF After
    <3> QED BY <3>2, <3>3 DEF OnItsWay
  <2> QED BY <2>1, <2>2
<1> QED BY <1>9, <1>14, <1>15, <1>16, <1>17, <1>18 DEF Running, K
-----------------------------------------------------------------------------
(***************************************************************************)
(* The invariant holds at the start and is kept.                           *)
(***************************************************************************)
\* The table NewOracle and prepare make: genesis, and block 1 mined.
LEMMA FirstTable ==
    ASSUME NEW m \in Miners, NEW r \in 0..MaxResidual, NEW B, B = MineBlock(GenesisTable, 1, m, r)
    PROVE  BlocksOK(B, 1)
<1>1. 1 <= MaxBlock /\ MaxBlock \in Nat
  BY BlockAssumption, OracleAssumption
<1>2. TableOK(B, 1) /\ Agree(GenesisTable, B, 1) /\ B[1].minerID = m
  BY <1>1, GenesisTableOK, MineKeepsTable
<1>3. /\ B[0] = GenesisTable[0] /\ B[0].minerID = NoMiner
      /\ B[0].past = {} /\ B[0].ancestorNum = 0
  <2>1. 0 \in BlockIds /\ 0 \in 0..(1 - 1)
    BY <1>1 DEF BlockIds
  <2>2. B[0] = GenesisTable[0]
    BY <1>2, <2>1 DEF Agree
  <2>3. /\ GenesisTable[0].minerID = NoMiner /\ GenesisTable[0].past = {}
        /\ GenesisTable[0].ancestorNum = 0
    BY <2>1 DEF GenesisTable, BlankBlock
  <2> QED BY <2>2, <2>3
<1>4. PastOK(B, 1)
  BY <1>3 DEF PastOK
<1>5. \A b \in 0..(1 - 1) : b = 0
  OBVIOUS
<1>6. Counts(B, 1)
  <2>1. Cardinality({}) = 0
    BY FS_EmptySet
  <2> QED BY <1>3, <1>5, <2>1 DEF Counts
<1>7. \A b \in 1..1 : B[b].minerID \in Miners
  BY <1>2
<1> QED BY <1>1, <1>2, <1>3, <1>4, <1>6, <1>7 DEF BlocksOK

\* A miner that has nothing yet.
LEMMA NothingYet ==
    ASSUME NEW B, BlocksOK(B, 1), NEW t \in WMinerType, NEW w, w = NewWithholdMiner(t),
           NEW ms, ms = [x \in HonestMiners |-> NewHonestMiner]
    PROVE  /\ HonestOK(B, 1, ms) /\ WithholdOK(B, 1, w) /\ HeldBy(w) = {}
           /\ w.graph.ledger = {} /\ w.real.ledger = {} /\ OwnBlocks(B, 1) = {}
<1>1. GraphOK(B, 1, NewLocalGraph) /\ NewLocalGraph \in Graph /\ NewLocalGraph.ledger = {}
  BY EmptyGraphOK DEF GraphOK, NewLocalGraph
<1> HIDE DEF WMinerType
<1>2. /\ w.mType = t /\ w.graph = NewLocalGraph /\ w.real = NewLocalGraph
      /\ w.holding = <<>> /\ w.fatal = FALSE
      /\ w = [mType |-> t, graph |-> NewLocalGraph, real |-> NewLocalGraph, holding |-> <<>>, fatal |-> FALSE]
  BY DEF NewWithholdMiner
<1>3. /\ HeldBy(w) = {} /\ ToSet(w.holding) = {} /\ Rising(w.holding)
      /\ w.holding \in Seq(0..(1 - 1))
  <2>1. DOMAIN <<>> = {} /\ <<>> \in Seq(0..(1 - 1))
    OBVIOUS
  <2>2. ToSet(<<>>) = {} /\ Rising(<<>>)
    BY <2>1 DEF ToSet, Rising
  <2> QED BY <1>2, <2>1, <2>2 DEF HeldBy
<1>4. w \in WithholdType(1)
  BY <1>1, <1>2, <1>3 DEF WithholdType
<1>5. HoldOK(B, 1, w.real, w.holding)
  BY <1>1, <1>2, <1>3 DEF HoldOK
<1>6. OwnBlocks(B, 1) = {}
  <2>1. \A b \in 0..(1 - 1) : b = 0
    OBVIOUS
  <2>2. B[0].minerID # Adversary
    BY AdversaryAssumption, BlockAssumption DEF BlocksOK
  <2> QED BY <2>1, <2>2 DEF OwnBlocks
<1>7. WithholdOK(B, 1, w)
  BY <1>1, <1>2, <1>3, <1>4, <1>5, <1>6 DEF WithholdOK, Ahead
<1>8. NewHonestMiner.graph = NewLocalGraph /\ NewHonestMiner.cache = <<>> /\ NewHonestMiner \in HonestType
  BY <1>1 DEF NewHonestMiner, HonestType
<1>9. ASSUME NEW x \in HonestMiners PROVE MinerOK(B, 1, ms[x].graph, ms[x].cache)
  <2>1. ms[x] = NewHonestMiner
    OBVIOUS
  <2>2. <<>> \in Seq(0..(1 - 1)) /\ Clear(B, NewLocalGraph, <<>>)
    BY DEF Clear, Drained, IsInjective, ToSet
  <2> QED BY <1>1, <1>8, <2>1, <2>2 DEF MinerOK
<1>10. HonestOK(B, 1, ms)
  BY <1>8, <1>9 DEF HonestOK
<1> QED BY <1>1, <1>2, <1>3, <1>6, <1>7, <1>10

\* The first two events.
LEMMA FirstEvents ==
    ASSUME NEW B, BlocksOK(B, 1), NEW s \in NextStamps(0, 1),
           NEW q, q = {GenBlock(s, 1), Broadcast(0, 0)}
    PROVE  /\ Events(B, 1, q) /\ Line(B, q) /\ DelayedIn(q) = {}
           /\ \A m : Waits(q, m)
<1>1. PICK d : d = GenBlock(s, 1)
  OBVIOUS
<1>2. PICK f : f = Broadcast(0, 0)
  OBVIOUS
<1>3. /\ d.type = "GenBlock" /\ d.block = 1 /\ d.timestamp = s
      /\ f.type = "Broadcast" /\ f.block = 0 /\ f.timestamp = 0 /\ q = {d, f}
  BY <1>1, <1>2, EventFields
<1>4. s \in Nat \ {0} /\ (s <= Duration => 1 < MaxBlock)
  <2>1. MaxBlock \in Nat /\ Duration \in Nat /\ MaxGap \in Nat
    BY BlockAssumption, OracleAssumption
  <2> QED BY <2>1 DEF NextStamps
<1>5. IsGenBlock(1, d) /\ IsBroadcast(1, f)
  BY <1>1, <1>2, <1>3, <1>4 DEF IsGenBlock, IsBroadcast
<1>6. Events(B, 1, q)
  BY <1>3, <1>5 DEF Events, Kinds
<1>7. \A e \in q : ~ Towards(B, e)
  <2>1. B[0].minerID \notin HonestMiners
    BY BlockAssumption DEF BlocksOK, HonestMiners
  <2> QED BY <1>3, <2>1 DEF Towards
<1>8. Line(B, q)
  BY <1>7 DEF Line
<1>9. DelayedIn(q) = {} /\ \A m : Waits(q, m)
  BY <1>3 DEF DelayedIn, Waits
<1> QED BY <1>6, <1>8, <1>9

LEMMA Initially == Init => IInv
<1> SUFFICES ASSUME Init PROVE IInv
  OBVIOUS
<1>1. PICK m \in Miners, r \in 0..MaxResidual, s \in NextStamps(0, 1) :
        blocks = MineBlock(GenesisTable, 1, m, r) /\ queue = {GenBlock(s, 1), Broadcast(0, 0)}
  BY DEF Init, OracleInit, Mine
<1>2. PICK t \in WMinerType : wm = NewWithholdMiner(t)
  BY DEF Init
<1>3. /\ timestamp = 0 /\ running = TRUE /\ mined = 2 /\ mined - 1 = 1
      /\ miners = [x \in HonestMiners |-> NewHonestMiner]
  BY DEF Init, OracleInit
<1>4. PICK B, q, ms, w : B = blocks /\ q = queue /\ ms = miners /\ w = wm
  OBVIOUS
<1>5. BlocksOK(B, 1)
  BY <1>1, <1>4, FirstTable
<1>6. /\ HonestOK(B, 1, ms) /\ WithholdOK(B, 1, w) /\ HeldBy(w) = {}
      /\ w.graph.ledger = {} /\ w.real.ledger = {} /\ OwnBlocks(B, 1) = {}
  BY <1>2, <1>3, <1>4, <1>5, NothingYet
<1>7. /\ Events(B, 1, q) /\ Line(B, q) /\ DelayedIn(q) = {}
      /\ \A x : Waits(q, x)
  BY <1>1, <1>4, <1>5, FirstEvents
<1>8. B[0].minerID \notin HonestMiners /\ \A b \in 0..(1 - 1) : b = 0
  BY <1>5, BlockAssumption DEF BlocksOK, HonestMiners
<1>9. Secret(B, 1, q, ms, {})
  BY <1>8 DEF Secret
<1>10. Still(B, 1, q, ms, w)
  BY <1>5, <1>6, <1>7, <1>9 DEF Still
<1>11. Running(B, 1, q, ms, w)
  <2>1. Coming(B, 1, q, w.real.ledger)
    BY <1>8 DEF Coming
  <2>2. Mining(q, w)
    BY <1>6, <1>7 DEF Mining
  <2>3. Started(q, ms, w)
    BY <1>7 DEF Started
  <2>4. Public(B, 1, q, ms, HeldBy(w))
    BY <1>6 DEF Public
  <2> QED BY <1>7, <2>1, <2>2, <2>3, <2>4 DEF Running
<1> QED BY <1>3, <1>4, <1>10, <1>11 DEF IInv
\* Nothing of what an event brings about lies in the past.
LEMMA AllEnqueued ==
    ASSUME NEW q, NEW N, NEW t, \A f \in N : f.timestamp >= t
    PROVE  Enqueue(q, N, t) = q \cup N
BY DEF Enqueue

\* The event that is run, when it generates a block.
LEMMA Generating ==
    ASSUME IInv, NEW e \in queue, Pop(e), e.type = "GenBlock"
    PROVE  /\ Still(blocks, mined - 1, queue, miners, wm) /\ Running(blocks, mined - 1, queue, miners, wm)
           /\ mined - 1 \in Nat /\ mined = mined - 1 + 1 /\ e.block = mined - 1 /\ mined - 1 < MaxBlock
           /\ e \in Earliest(queue) /\ e.timestamp \in Nat /\ e.timestamp <= Duration
           /\ running = TRUE /\ running' = TRUE /\ timestamp' = e.timestamp
           /\ blocks[e.block].minerID \in Miners
           /\ \A m \in Miners : HasGenesis(m, miners, wm)
<1>1. /\ Still(blocks, mined - 1, queue, miners, wm) /\ Running(blocks, mined - 1, queue, miners, wm)
      /\ e \in Earliest(queue) /\ e.timestamp <= Duration /\ timestamp' = e.timestamp
      /\ running = TRUE /\ running' = TRUE /\ mined \in Nat
  BY DEF IInv, Pop
<1>2. PICK B, n, q, ms, w : B = blocks /\ n = mined - 1 /\ q = queue /\ ms = miners /\ w = wm
  OBVIOUS
<1>3. Still(B, n, q, ms, w) /\ Running(B, n, q, ms, w) /\ e \in q /\ e \in Earliest(q)
  BY <1>1, <1>2
<1>4. n \in Nat /\ n >= 1 /\ Kinds(B, n, e) /\ \A b \in 1..n : B[b].minerID \in Miners
  BY <1>3, StillFacts DEF HonestMiners
<1>5. IsGenBlock(n, e) /\ e.timestamp \in Nat
  BY <1>4, EventKinds
<1>6. e.block = n
  BY <1>5, EventFields DEF IsGenBlock
<1>7. n < MaxBlock
  BY <1>1, <1>5 DEF IsGenBlock
<1>8. B[n].minerID \in Miners
  BY <1>4
<1>9. \A m \in Miners : HasGenesis(m, ms, w)
  BY <1>3, GenesisKnown
<1> QED BY <1>1, <1>2, <1>4, <1>5, <1>6, <1>7, <1>8, <1>9

LEMMA HonestGenBlockStep ==
    ASSUME IInv, NEW e \in queue, Pop(e), HonestGenBlock(e)
    PROVE  IInv'
<1>1. PICK B, q, ms, w : B = blocks /\ q = queue /\ ms = miners /\ w = wm
  OBVIOUS
<1>2. PICK n : n = mined - 1
  OBVIOUS
<1>3. e.type = "GenBlock" /\ blocks[e.block].minerID # Adversary /\ wm' = wm
  BY DEF HonestGenBlock
<1>4. /\ Still(B, n, q, ms, w) /\ Running(B, n, q, ms, w) /\ n \in Nat /\ mined = n + 1
      /\ e.block = n /\ n < MaxBlock /\ e \in Earliest(q) /\ e \in q
      /\ e.timestamp \in Nat /\ e.timestamp <= Duration
      /\ running' = TRUE /\ timestamp' = e.timestamp
      /\ B[n].minerID \in Miners /\ \A y \in Miners : HasGenesis(y, ms, w)
  BY <1>1, <1>2, <1>3, Generating
<1>5. PICK m \in HonestMiners : m = B[n].minerID
  BY <1>1, <1>3, <1>4 DEF HonestMiners
<1>6. PICK F : F = FillNewBlock(B, ms[m].graph, n)
  OBVIOUS
<1>7. /\ miners' = [ms EXCEPT ![m] = GenerateBlock(F, ms[m], n)]
      /\ MineNext(e, F, NetworkBroadcast(e.timestamp, n))
  BY <1>1, <1>4, <1>5, <1>6 DEF HonestGenBlock
<1>8. PICK x \in Miners, r \in 0..MaxResidual, stamp \in NextStamps(e.timestamp, n + 1) :
        /\ blocks' = MineBlock(F, n + 1, x, r)
        /\ queue' = Enqueue(q \ {e}, {Broadcast(e.timestamp, n)} \cup {GenBlock(stamp, n + 1)}, e.timestamp)
  <2>1. PICK x \in Miners, r \in 0..MaxResidual, stamp \in NextStamps(e.timestamp, mined) :
        /\ blocks' = MineBlock(F, mined, x, r)
        /\ queue' = Enqueue(queue \ {e}, {Broadcast(e.timestamp, n)} \cup {GenBlock(stamp, mined)}, e.timestamp)
    BY <1>7 DEF MineNext, Mine, NetworkBroadcast
  <2>2. mined = n + 1 /\ queue = q
    BY <1>1, <1>4
  <2> QED BY <2>1, <2>2
<1>9. mined' = n + 1 + 1
  BY <1>4, <1>7 DEF MineNext
<1>10. PICK ks : ks = [ms EXCEPT ![m] = GenerateBlock(F, ms[m], n)]
  OBVIOUS
<1>11. PICK C : C = MineBlock(F, n + 1, x, r)
  OBVIOUS
<1>12. PICK f : f = Broadcast(e.timestamp, n)
  OBVIOUS
<1>13. PICK d : d = GenBlock(stamp, n + 1)
  OBVIOUS
<1>14. PICK p : p = (q \ {e}) \cup {f, d}
  OBVIOUS
<1>15. blocks' = C /\ miners' = ks /\ queue' = p
  <2>0. d.timestamp \in Nat /\ e.timestamp < d.timestamp
    BY <1>4, <1>13, NextEvent
  <2>1. f.timestamp = e.timestamp /\ d.timestamp \in Nat /\ e.timestamp < d.timestamp
    BY <1>12, <2>0, EventFields
  <2>2. \A g \in {f, d} : g.timestamp >= e.timestamp
    BY <1>4, <2>1
  <2>3. Enqueue(q \ {e}, {f, d}, e.timestamp) = (q \ {e}) \cup {f, d}
    BY <2>2, AllEnqueued
  <2>4. {f} \cup {d} = {f, d}
    OBVIOUS
  <2>5. queue' = Enqueue(q \ {e}, {f} \cup {d}, e.timestamp)
    BY <1>8, <1>12, <1>13
  <2> QED BY <1>7, <1>8, <1>10, <1>11, <1>14, <2>3, <2>4, <2>5
<1>16. BlocksOK(B, n) /\ HonestOK(B, n, ms) /\ 0 \in ms[m].graph.ledger
  <2>1. m \in Miners /\ m # Adversary
    BY DEF HonestMiners
  <2>2. HasGenesis(m, ms, w)
    BY <1>4, <2>1
  <2> QED BY <1>4, <2>1, <2>2 DEF Still, HasGenesis
<1>17. Grown(B, n, C) /\ HonestHas(C, n, ms, m, ks) /\ Parents(C, n) \subseteq ms[m].graph.ledger
  BY <1>4, <1>6, <1>10, <1>11, <1>16, HonestGenerates
<1>18. Still(C, n + 1, p, ks, w) /\ Running(C, n + 1, p, ks, w)
  <2>1. e.type = "GenBlock"
    BY <1>3
  <2> QED BY <1>4, <1>5, <1>12, <1>13, <1>14, <1>17, <2>1, HonestGenKeeps
<1>19. mined' \in Nat /\ mined' - 1 = n + 1
  BY <1>4, <1>9
<1>20. wm' = w
  BY <1>1, <1>3
<1> QED BY <1>4, <1>15, <1>18, <1>19, <1>20 DEF IInv

LEMMA AdversaryGenBlockStep ==
    ASSUME IInv, NEW e \in queue, Pop(e), AdversaryGenBlock(e)
    PROVE  IInv'
<1>1. PICK B, q, ms, w : B = blocks /\ q = queue /\ ms = miners /\ w = wm
  OBVIOUS
<1>2. PICK n : n = mined - 1
  OBVIOUS
<1>3. e.type = "GenBlock" /\ blocks[e.block].minerID = Adversary /\ miners' = miners
  BY DEF AdversaryGenBlock
<1>4. /\ Still(B, n, q, ms, w) /\ Running(B, n, q, ms, w) /\ n \in Nat /\ mined = n + 1
      /\ e.block = n /\ n < MaxBlock /\ e \in Earliest(q) /\ e \in q
      /\ e.timestamp \in Nat /\ e.timestamp <= Duration
      /\ running' = TRUE /\ timestamp' = e.timestamp
      /\ B[n].minerID \in Miners /\ \A y \in Miners : HasGenesis(y, ms, w)
  BY <1>1, <1>2, <1>3, Generating
<1>5. B[n].minerID = Adversary
  BY <1>1, <1>3, <1>4
<1>6. PICK F : F = WithholdFill(B, w, n)
  OBVIOUS
<1>7. PICK a : a = WithholdGenerate(F, w, n, Adversary)
  OBVIOUS
<1>8. wm' = State(a) /\ MineNext(e, F, AnswerEvents(e.timestamp, a))
  BY <1>1, <1>4, <1>6, <1>7 DEF AdversaryGenBlock
<1>9. PICK x \in Miners, r \in 0..MaxResidual, stamp \in NextStamps(e.timestamp, n + 1) :
        /\ blocks' = MineBlock(F, n + 1, x, r)
        /\ queue' = Enqueue(q \ {e}, AnswerEvents(e.timestamp, a) \cup {GenBlock(stamp, n + 1)}, e.timestamp)
  <2>1. PICK x \in Miners, r \in 0..MaxResidual, stamp \in NextStamps(e.timestamp, mined) :
        /\ blocks' = MineBlock(F, mined, x, r)
        /\ queue' = Enqueue(queue \ {e}, AnswerEvents(e.timestamp, a) \cup {GenBlock(stamp, mined)}, e.timestamp)
    BY <1>8 DEF MineNext, Mine
  <2>2. mined = n + 1 /\ queue = q
    BY <1>1, <1>4
  <2> QED BY <2>1, <2>2
<1>10. mined' = n + 1 + 1
  BY <1>4, <1>8 DEF MineNext
<1>11. PICK C : C = MineBlock(F, n + 1, x, r)
  OBVIOUS
<1>12. PICK v : v = State(a)
  OBVIOUS
<1>13. PICK d : d = GenBlock(stamp, n + 1)
  OBVIOUS
<1>14. PICK p : p = After(q, e, a, d)
  OBVIOUS
<1>15. blocks' = C /\ wm' = v /\ queue' = p
  <2> DEFINE M == AnswerEvents(e.timestamp, a)
  <2>1. \A f \in M : f.timestamp >= e.timestamp
    BY <1>4, AnswerFacts
  <2>2. d.timestamp >= e.timestamp
    <3>1. d.timestamp \in Nat /\ e.timestamp < d.timestamp
      BY <1>4, <1>13, NextEvent
    <3> QED BY <1>4, <3>1
  <2>3. queue' = Enqueue(q \ {e}, M \cup {d}, e.timestamp)
    BY <1>9, <1>13
  <2> HIDE DEF M
  <2>4. Enqueue(q \ {e}, M \cup {d}, e.timestamp) = (q \ {e}) \cup (M \cup {d})
    <3>1. \A f \in M \cup {d} : f.timestamp >= e.timestamp
      BY <2>1, <2>2
    <3> QED BY <3>1, AllEnqueued
  <2>5. p = (q \ {e}) \cup (M \cup {d})
    BY <1>14 DEF M, After
  <2> QED BY <1>8, <1>9, <1>11, <1>12, <2>3, <2>4, <2>5
<1>16. BlocksOK(B, n) /\ WithholdOK(B, n, w) /\ Prepared(w)
  <2>1. HasGenesis(Adversary, ms, w)
    BY <1>4, AdversaryAssumption
  <2>2. BlocksOK(B, n) /\ WithholdOK(B, n, w) /\ 0 \in w.real.ledger
    BY <1>4, <2>1 DEF Still, HasGenesis
  <2>3. w.graph.ledger = (w.real.ledger \cup HeldBy(w)) \ DelayedIn(q)
    BY <1>4 DEF Running, Mining
  <2>4. 0 \notin DelayedIn(q)
    BY <1>4, StillFacts
  <2> QED BY <2>2, <2>3, <2>4 DEF Prepared
<1>17. Grown(B, n, C) /\ AdversaryHas(C, n, w, a, v)
  <2>1. Grown(B, n, C) /\ AdversaryHas(C, n, w, a, State(a))
    BY <1>4, <1>5, <1>6, <1>7, <1>11, <1>16, AdversaryGenerates
  <2> QED BY <1>12, <2>1
<1>18. Still(C, n + 1, p, ms, v) /\ Running(C, n + 1, p, ms, v)
  <2>1. e.type = "GenBlock"
    BY <1>3
  <2> QED BY <1>4, <1>5, <1>12, <1>13, <1>14, <1>17, <2>1, AdversaryGenKeeps
<1>19. mined' \in Nat /\ mined' - 1 = n + 1
  BY <1>4, <1>10
<1>20. miners' = ms
  BY <1>1, <1>3
<1> QED BY <1>4, <1>15, <1>18, <1>19, <1>20 DEF IInv
\* What the other steps share: the table stays, and so does the number of
\* blocks mined.
LEMMA Moving ==
    ASSUME IInv, NEW e \in queue, Pop(e), blocks' = blocks, mined' = mined,
           Still(blocks, mined - 1, queue', miners', wm'),
           Running(blocks, mined - 1, queue', miners', wm')
    PROVE  IInv'
<1>1. PICK B, n : B = blocks /\ n = mined - 1
  OBVIOUS
<1>2. PICK q, ms, w : q = queue' /\ ms = miners' /\ w = wm'
  OBVIOUS
<1>3. Still(B, n, q, ms, w) /\ Running(B, n, q, ms, w)
  BY <1>1, <1>2
<1>4. blocks' = B /\ mined' - 1 = n /\ mined' \in Nat
  BY <1>1 DEF IInv
<1>5. timestamp' \in Nat /\ running' \in BOOLEAN
  <2>1. e.timestamp \in Nat
    <3>1. PICK p, hs, v : p = queue /\ hs = miners /\ v = wm
      OBVIOUS
    <3>2. Still(B, n, p, hs, v) /\ e \in p
      BY <1>1, <3>1 DEF IInv
    <3> QED BY <3>2, StillFacts, EventKinds
  <2> QED BY <2>1 DEF Pop, IInv
<1> QED BY <1>2, <1>3, <1>4, <1>5 DEF IInv

LEMMA MovingStep ==
    ASSUME IInv, NEW e \in queue, Pop(e),
           HonestSendBlock(e) \/ AdversarySendBlock(e) \/ RunBroadcastEvent(e) \/ RunDelayInsert(e)
    PROVE  IInv'
<1>1. PICK B, n, q, ms, w : B = blocks /\ n = mined - 1 /\ q = queue /\ ms = miners /\ w = wm
  OBVIOUS
<1>2. /\ Still(B, n, q, ms, w) /\ Running(B, n, q, ms, w) /\ e \in Earliest(q) /\ e \in q
  BY <1>1 DEF IInv, Pop
<1>3. CASE HonestSendBlock(e)
  <2>1. PICK r : r = ReceiveBlock(B, ms[e.receiver], e.block)
    OBVIOUS
  <2>2. PICK ks : ks = [ms EXCEPT ![e.receiver] = [graph |-> r.graph, cache |-> r.cache]]
    OBVIOUS
  <2>3. /\ e.type = "SendBlock" /\ e.receiver # Adversary
        /\ miners' = ks /\ wm' = w /\ blocks' = blocks /\ mined' = mined
    BY <1>1, <1>3, <2>1, <2>2 DEF HonestSendBlock
  <2>4. queue' = q \ {e}
    <3>1. UNION {NetworkRelay(e.timestamp, b) : b \in ToSet(r.relays)} = {}
      BY DEF NetworkRelay
    <3>2. queue' = Enqueue(q \ {e}, {}, e.timestamp)
      BY <1>1, <1>3, <2>1, <3>1 DEF HonestSendBlock
    <3> QED BY <3>2 DEF Enqueue
  <2>5. Still(B, n, q \ {e}, ks, w) /\ Running(B, n, q \ {e}, ks, w)
    BY <1>2, <2>1, <2>2, <2>3, HonestSendKeeps
  <2> QED BY <1>1, <2>3, <2>4, <2>5, Moving
<1>4. CASE AdversarySendBlock(e)
  <2>1. PICK a : a = WithholdReceive(B, w, e.block, Adversary)
    OBVIOUS
  <2>2. PICK p, v : p = Enqueue(q \ {e}, AnswerEvents(e.timestamp, a), e.timestamp) /\ v = State(a)
    OBVIOUS
  <2>3. /\ e.type = "SendBlock" /\ e.receiver = Adversary
        /\ queue' = p /\ wm' = v /\ miners' = ms /\ blocks' = blocks /\ mined' = mined
    BY <1>1, <1>4, <2>1, <2>2 DEF AdversarySendBlock
  <2>4. Still(B, n, p, ms, v) /\ Running(B, n, p, ms, v)
    BY <1>2, <2>1, <2>2, <2>3, AdversarySendKeeps
  <2> QED BY <1>1, <2>3, <2>4, Moving
<1>5. CASE RunBroadcastEvent(e)
  <2>1. PICK p : p = Enqueue(q \ {e}, RunBroadcast(B, e.timestamp, e.block), e.timestamp)
    OBVIOUS
  <2>2. /\ e.type = "Broadcast"
        /\ queue' = p /\ wm' = w /\ miners' = ms /\ blocks' = blocks /\ mined' = mined
    BY <1>1, <1>5, <2>1 DEF RunBroadcastEvent
  <2>3. Still(B, n, p, ms, w) /\ Running(B, n, p, ms, w)
    BY <1>2, <2>1, <2>2, BroadcastKeeps
  <2> QED BY <1>1, <2>2, <2>3, Moving
<1>6. CASE RunDelayInsert(e)
  <2>1. PICK v : v = DelayedInsert(B, w, e.block)
    OBVIOUS
  <2>2. /\ e.type = "DelayInsert"
        /\ queue' = q \ {e} /\ wm' = v /\ miners' = ms /\ blocks' = blocks /\ mined' = mined
    BY <1>1, <1>6, <2>1 DEF RunDelayInsert
  <2>3. Still(B, n, q \ {e}, ms, v) /\ Running(B, n, q \ {e}, ms, v)
    BY <1>2, <2>1, <2>2, DelayKeeps
  <2> QED BY <1>1, <2>2, <2>3, Moving
<1> QED BY <1>3, <1>4, <1>5, <1>6

\* The loop is left with the event that is past the duration.
LEMMA StopStep ==
    ASSUME IInv, Stop, UNCHANGED <<miners, wm>>
    PROVE  IInv'
<1>1. PICK e \in Earliest(queue) : timestamp' = e.timestamp /\ queue' = queue \ {e}
  BY DEF Stop
<1>2. PICK B, n, q, ms, w : B = blocks /\ n = mined - 1 /\ q = queue /\ ms = miners /\ w = wm
  OBVIOUS
<1>3. Still(B, n, q, ms, w) /\ e \in q
  BY <1>1, <1>2 DEF IInv, Earliest
<1>4. Still(B, n, q \ {e}, ms, w)
  BY <1>3, StillFewer
<1>5. e.timestamp \in Nat
  BY <1>3, StillFacts, EventKinds
<1>6. /\ running' = FALSE /\ queue' = q \ {e} /\ blocks' = B /\ miners' = ms /\ wm' = w
      /\ mined' - 1 = n /\ mined' \in Nat /\ timestamp' \in Nat
  BY <1>1, <1>2, <1>5 DEF Stop, IInv
<1> QED BY <1>4, <1>6 DEF IInv

\* The invariant is inductive.
THEOREM Inductive == Spec => []IInv
<1>1. Init => IInv
  BY Initially
<1>2. IInv /\ [Next]_vars => IInv'
  <2> SUFFICES ASSUME IInv, [Next]_vars PROVE IInv'
    OBVIOUS
  <2>1. ASSUME NEW e \in queue, Pop(e), HonestGenBlock(e) PROVE IInv'
    BY <2>1, HonestGenBlockStep
  <2>2. ASSUME NEW e \in queue, Pop(e), AdversaryGenBlock(e) PROVE IInv'
    BY <2>2, AdversaryGenBlockStep
  <2>3. ASSUME NEW e \in queue, Pop(e),
               HonestSendBlock(e) \/ AdversarySendBlock(e) \/ RunBroadcastEvent(e) \/ RunDelayInsert(e)
        PROVE  IInv'
    BY <2>3, MovingStep
  <2>4. CASE Stop /\ UNCHANGED <<miners, wm>>
    BY <2>4, StopStep
  <2>5. CASE UNCHANGED vars
    <3>1. /\ timestamp' = timestamp /\ queue' = queue /\ running' = running
          /\ blocks' = blocks /\ mined' = mined /\ miners' = miners /\ wm' = wm
      BY <2>5 DEF vars, oracleVars
    <3> QED BY <3>1 DEF IInv
  <2> QED BY <2>1, <2>2, <2>3, <2>4, <2>5 DEF Next, Step, Terminated
<1> QED BY <1>1, <1>2, PTL DEF Spec

-----------------------------------------------------------------------------
(***************************************************************************)
(* What it implies.                                                        *)
(***************************************************************************)
\* The constant part of the invariant, and the blocks that have edges.
LEMMA Rests ==
    ASSUME IInv
    PROVE  /\ Still(blocks, mined - 1, queue, miners, wm)
           /\ Generated = 0..(mined - 1 - 1) /\ mined - 1 \in Nat
           /\ running => Running(blocks, mined - 1, queue, miners, wm)
<1>1. PICK B, n, q, ms, w : B = blocks /\ n = mined - 1 /\ q = queue /\ ms = miners /\ w = wm
  OBVIOUS
<1>2. Still(B, n, q, ms, w)
  BY <1>1 DEF IInv
<1>3. TableOK(B, n) /\ n \in Nat
  BY <1>2, TableFacts DEF Still, BlocksOK
<1>4. Linked(B) = 0..(n - 1)
  BY <1>3, LinkedIs
<1> QED BY <1>1, <1>2, <1>3, <1>4 DEF Generated, IInv

\* With constant delays, if only the adversary is an attacker, no block comes
\* to the adversary before an ancestor: log.Fatalf in ReceiveBlock of
\* miner_adv1.go is not reached.
THEOREM IsNeverFatal == Spec => []NeverFatal
<1>1. IInv => NeverFatal
  BY Rests DEF Still, WithholdOK, NeverFatal
<1> QED BY <1>1, Inductive, PTL

\* What the adversary holds back nobody else has, and what it does not hold
\* back of its own is in the real graph and, while the loop runs, with every
\* honest miner or on its way to him: checkBroadCast of miner_adv1.go lets no
\* block go without broadcasting it.
THEOREM HeldIsExact == Spec => []HeldExact
<1>1. ASSUME IInv PROVE HeldExact
  <2>1. PICK B, n, q, ms, w : B = blocks /\ n = mined - 1 /\ q = queue /\ ms = miners /\ w = wm
    OBVIOUS
  <2>2. Still(B, n, q, ms, w) /\ Generated = 0..(n - 1)
    BY <1>1, <2>1, Rests
  <2>3. Secret(B, n, q, ms, HeldBy(w)) /\ WithholdOK(B, n, w)
    BY <2>2 DEF Still
  <2>4. Held = HeldBy(w) /\ Own = OwnBlocks(B, n)
    BY <2>1, <2>2 DEF Held, HeldBy, Own, OwnBlocks
  <2>5. \A b \in Held : /\ \A m \in HonestMiners : b \notin miners[m].graph.ledger
                                                  /\ b \notin ToSet(miners[m].cache)
                        /\ \A e \in queue : e.block # b
    BY <2>1, <2>3, <2>4 DEF Secret
  <2>6. /\ HeldBy(w) \subseteq OwnBlocks(B, n) /\ OwnBlocks(B, n) \subseteq HeldBy(w) \cup w.real.ledger
        /\ HeldBy(w) \cap w.real.ledger = {}
    BY <2>3 DEF WithholdOK, HoldOK, HeldBy
  <2>7. Own = Held \cup (wm.real.ledger \cap Own) /\ Held \cap wm.real.ledger = {}
    BY <2>1, <2>4, <2>6
  <2>8. running => \A b \in Own \ Held, m \in HonestMiners : Reached(queue, miners[m], b, m)
    <3>1. running => Public(B, n, q, ms, HeldBy(w))
      BY <1>1, <2>1, Rests DEF Running
    <3> QED BY <2>1, <2>4, <3>1 DEF Public
  <2> QED BY <2>5, <2>7, <2>8 DEF HeldExact
<1> QED BY <1>1, Inductive, PTL

\* The graph the adversary mines on lacks of what it has only the blocks with
\* a delayed insertion to come.
THEOREM MiningGraphIsExact == Spec => []MiningGraphExact
<1>1. ASSUME IInv PROVE MiningGraphExact
  <2> SUFFICES ASSUME running
               PROVE  /\ wm.graph.ledger = (wm.real.ledger \cup Held) \ Delayed
                      /\ Delayed \subseteq wm.real.ledger
    BY DEF MiningGraphExact
  <2>1. PICK B, n, q, ms, w : B = blocks /\ n = mined - 1 /\ q = queue /\ ms = miners /\ w = wm
    OBVIOUS
  <2>2. Mining(q, w)
    BY <1>1, <2>1, Rests DEF Running
  <2>3. Held = HeldBy(w) /\ Delayed = DelayedIn(q)
    BY <2>1 DEF Held, HeldBy, Delayed, DelayedIn
  <2> QED BY <2>1, <2>2, <2>3 DEF Mining
<1> QED BY <1>1, Inductive, PTL

\* checkBroadCast lets go as many blocks as it takes for the real pivot to end
\* in a block of the adversary.
THEOREM IsAheadOrEmpty == Spec => []AheadOrEmpty
<1>1. IInv => AheadOrEmpty
  BY Rests DEF Still, WithholdOK, Ahead, AheadOrEmpty
<1> QED BY <1>1, Inductive, PTL

\* ancestorNum is the number of ancestors, of the blocks of a selfish miner too.
THEOREM AncestorNumIsExact == Spec => []AncestorNumExact
<1>1. IInv => AncestorNumExact
  BY Rests DEF Still, BlocksOK, Counts, AncestorNumExact
<1> QED BY <1>1, Inductive, PTL
=============================================================================
