---------------------------- MODULE WithholdMiner ----------------------------
(***************************************************************************)
(* The handlers of WithholdMiner (miner_adv1.go) as functions of the block *)
(* table and of the miner's state: the graph it mines on, the graph of     *)
(* what it has received or broadcast (real), and the blocks it holds back. *)
(* The result has two more fields: broadcast, the blocks handed to the     *)
(* network in order, and delayed, those for which a DelayInsertEvent is    *)
(* returned.                                                               *)
(*                                                                         *)
(* ReceiveBlock ends the program before it would use the cache, which      *)
(* therefore stays empty; the field fatal says that it has.                *)
(***************************************************************************)
EXTENDS GhostRule, Sequences

CONSTANT HalfDiameter  \* diameter / 2

ASSUME WithholdAssumption == HalfDiameter \in Nat

WMinerType == {"selfish", "delayRef"}

NewWithholdMiner(t) ==
    [mType |-> t, graph |-> NewLocalGraph, real |-> NewLocalGraph, holding |-> <<>>, fatal |-> FALSE]

Answer(wm) == [mType |-> wm.mType, graph |-> wm.graph, real |-> wm.real, holding |-> wm.holding,
               fatal |-> wm.fatal, broadcast |-> <<>>, delayed |-> {}]
State(a) == [mType |-> a.mType, graph |-> a.graph, real |-> a.real, holding |-> a.holding,
             fatal |-> a.fatal]

\* The edges of a block it generates: a selfish miner refers to nothing.  A
\* mutant: ancestorNum is computed like height.
WithholdFillHeight(B, wm, b) ==
    IF wm.mType = "selfish"
    THEN LinkBlock(B, b, wm.graph.pivotTip, {}, B[wm.graph.pivotTip].height + 1)
    ELSE FillNewBlock(B, wm.graph, b)

WithholdFill(B, wm, b) ==
    IF wm.mType = "selfish"
    THEN LinkBlock(B, b, wm.graph.pivotTip, {}, B[wm.graph.pivotTip].ancestorNum + 1)
    ELSE FillNewBlock(B, wm.graph, b)

(***************************************************************************)
(* checkBroadCast: as long as the real pivot ends in a block of somebody   *)
(* else, the first block held back is broadcast.  Three mutants: the block *)
(* is not inserted in the real graph, or it is not broadcast, or the pivot *)
(* looked at is that of the graph the miner mines on.                      *)
(***************************************************************************)
ReleaseOnly(B, a) ==
    [a EXCEPT !.holding   = Tail(a.holding),
              !.broadcast = Append(a.broadcast, Head(a.holding))]

ReleaseSilent(B, a) ==
    [a EXCEPT !.real    = Insert(B, a.real, Head(a.holding)),
              !.holding = Tail(a.holding)]

Release(B, a) ==
    [a EXCEPT !.real      = Insert(B, a.real, Head(a.holding)),
              !.holding   = Tail(a.holding),
              !.broadcast = Append(a.broadcast, Head(a.holding))]

OvertakenMining(B, a, id) == a.holding # <<>> /\ B[a.graph.pivotTip].minerID # id

Overtaken(B, a, id) == a.holding # <<>> /\ B[a.real.pivotTip].minerID # id

CheckBroadCast(B, a, id) ==
    LET round[n \in Nat] ==
            IF n = 0 THEN a
            ELSE IF Overtaken(B, round[n - 1], id) THEN Release(B, round[n - 1]) ELSE round[n - 1]
    IN  round[Len(a.holding)]

WithholdGenerate(B, wm, b, id) ==
    CheckBroadCast(B, Answer([wm EXCEPT !.graph = Insert(B, @, b), !.holding = Append(@, b)]), id)

\* graphInsert, for a block received now.
GraphInsert(B, a, b) ==
    IF a.mType = "selfish" \/ HalfDiameter = 0
    THEN [a EXCEPT !.graph = Insert(B, @, b)]
    ELSE [a EXCEPT !.delayed = {b}]

WithholdReceive(B, wm, b, id) ==
    CASE B[b].minerID = NoMiner ->
            Answer([wm EXCEPT !.real = Insert(B, @, b), !.graph = Insert(B, @, b)])
      [] B[b].minerID # NoMiner /\ InsertResult(B, wm.real, b) = "Fail" ->
            Answer([wm EXCEPT !.fatal = TRUE])
      [] B[b].minerID # NoMiner /\ InsertResult(B, wm.real, b) = "Success" ->
            CheckBroadCast(B, GraphInsert(B, Answer([wm EXCEPT !.real = Insert(B, @, b)]), b), id)
      [] OTHER -> Answer(wm)

\* DelayInsertEvent.Run, which does not look at the result of insert.
DelayedInsert(B, wm, b) == [wm EXCEPT !.graph = Insert(B, @, b)]
=============================================================================
