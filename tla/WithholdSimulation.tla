-------------------------- MODULE WithholdSimulation --------------------------
(***************************************************************************)
(* The oracle, SimpleNetwork, honest miners and one withholding miner, as  *)
(* in the variant of run() that main.go has in a comment.  The adversary   *)
(* calls Broadcast of the network itself, when it lets blocks go.          *)
(***************************************************************************)
EXTENDS HonestMiner, WithholdMiner, SimpleNetwork

CONSTANT Adversary  \* wm.id

\* run() adds it first, and NewSimpleNetwork takes the first miner for the
\* attacker, if there is to be one.
ASSUME AdversaryAssumption == Adversary \in Miners /\ Attackers \subseteq {Adversary}

VARIABLES miners,  \* o.miners, the honest ones
          wm       \* o.miners, the withholding one

vars == <<oracleVars, miners, wm>>

HonestMiners == Miners \ {Adversary}

DelayInsert(t, b) == [type |-> "DelayInsert", timestamp |-> t, block |-> b]

\* The events in which an answer of the withholding miner at time t results.
\* A mutant: the delay is not added to the time.
AnswerEventsPast(t, a) ==
    {DelayInsert(HalfDiameter, b) : b \in a.delayed}
        \cup UNION {NetworkBroadcast(t, b) : b \in ToSet(a.broadcast)}

AnswerEvents(t, a) ==
    {DelayInsert(t + HalfDiameter, b) : b \in a.delayed}
        \cup UNION {NetworkBroadcast(t, b) : b \in ToSet(a.broadcast)}

Init == /\ OracleInit
        /\ miners = [m \in HonestMiners |-> NewHonestMiner]
        /\ wm \in {NewWithholdMiner(t) : t \in WMinerType}

\* What GenBlockEvent.Run does besides asking the miner: the next block is
\* mined on the table the miner has filled.
MineNext(e, filled, events) ==
    /\ \E n \in Miners, r \in 0..MaxResidual, stamp \in NextStamps(e.timestamp, mined) :
         LET next == Mine(filled, e.timestamp, mined, n, r, stamp)
         IN  /\ blocks' = next.blocks
             /\ queue' = Enqueue(queue \ {e}, events \cup {next.event}, e.timestamp)
    /\ mined' = mined + 1

HonestGenBlock(e) ==
    /\ e.type = "GenBlock" /\ blocks[e.block].minerID # Adversary
    /\ LET m      == blocks[e.block].minerID
           filled == FillNewBlock(blocks, miners[m].graph, e.block)
       IN  /\ miners' = [miners EXCEPT ![m] = GenerateBlock(filled, @, e.block)]
           /\ MineNext(e, filled, NetworkBroadcast(e.timestamp, e.block))
    /\ UNCHANGED wm

AdversaryGenBlock(e) ==
    /\ e.type = "GenBlock" /\ blocks[e.block].minerID = Adversary
    /\ LET filled == WithholdFill(blocks, wm, e.block)
           answer == WithholdGenerate(filled, wm, e.block, Adversary)
       IN  /\ wm' = State(answer)
           /\ MineNext(e, filled, AnswerEvents(e.timestamp, answer))
    /\ UNCHANGED miners

HonestSendBlock(e) ==
    /\ e.type = "SendBlock" /\ e.receiver # Adversary
    /\ LET r == ReceiveBlock(blocks, miners[e.receiver], e.block)
       IN  /\ miners' = [miners EXCEPT ![e.receiver] = [graph |-> r.graph, cache |-> r.cache]]
           /\ queue' = Enqueue(queue \ {e},
                               UNION {NetworkRelay(e.timestamp, b) : b \in ToSet(r.relays)},
                               e.timestamp)
    /\ UNCHANGED <<blocks, mined, wm>>

AdversarySendBlock(e) ==
    /\ e.type = "SendBlock" /\ e.receiver = Adversary
    /\ LET answer == WithholdReceive(blocks, wm, e.block, Adversary)
       IN  /\ wm' = State(answer)
           /\ queue' = Enqueue(queue \ {e}, AnswerEvents(e.timestamp, answer), e.timestamp)
    /\ UNCHANGED <<blocks, mined, miners>>

RunBroadcastEvent(e) ==
    /\ e.type = "Broadcast"
    /\ queue' = Enqueue(queue \ {e}, RunBroadcast(blocks, e.timestamp, e.block), e.timestamp)
    /\ UNCHANGED <<blocks, mined, miners, wm>>

\* DelayInsertEvent.Run.
RunDelayInsert(e) ==
    /\ e.type = "DelayInsert"
    /\ wm' = DelayedInsert(blocks, wm, e.block)
    /\ queue' = queue \ {e}
    /\ UNCHANGED <<blocks, mined, miners>>

Step == /\ ~wm.fatal
        /\ \E e \in queue : Pop(e) /\ (\/ HonestGenBlock(e) \/ AdversaryGenBlock(e)
                                       \/ HonestSendBlock(e) \/ AdversarySendBlock(e)
                                       \/ RunBroadcastEvent(e) \/ RunDelayInsert(e))

\* The loop has been left, or log.Fatalf has ended the program.
Terminated == (~running \/ wm.fatal) /\ UNCHANGED vars

Next == Step \/ (Stop /\ ~wm.fatal /\ UNCHANGED <<miners, wm>>) \/ Terminated

\* The loop of Oracle.run, as in Simulation.tla.
Progress == []<>(~running \/ wm.fatal) \/ []<><<TRUE>>_vars

Spec == Init /\ [][Next]_vars /\ Progress

-----------------------------------------------------------------------------
Generated == Linked(blocks)
Own == {b \in Generated : blocks[b].minerID = Adversary}
Held == ToSet(wm.holding)
Delayed == {e.block : e \in {f \in queue : f.type = "DelayInsert"}}

\* log.Fatalf in ReceiveBlock (miner_adv1.go:80) is not reached: with
\* constant delays no block comes to the adversary before its ancestors, and
\* its own blocks are in the real graph before anybody can refer to them.
NeverFatal == ~wm.fatal

\* An event of q brings block b to miner m, now or by way of BroadcastEvent.
OnItsWay(q, b, m) == \E e \in q : /\ e.block = b
                                 /\ \/ e.type = "Broadcast"
                                    \/ e.type = "SendBlock" /\ e.receiver = m

\* Block b is with m, whose state is h, or comes to him.
Reached(q, h, b, m) == b \in h.graph.ledger \cup ToSet(h.cache) \/ OnItsWay(q, b, m)

\* A block that is held back is secret: no honest miner has it and no event
\* carries it.  A block of the adversary that is not held back is in the real
\* graph: the insertion of what is broadcast, whose result is not looked at,
\* succeeds.  And it has been broadcast: each honest miner has it, or it is on
\* its way to him, as long as the loop runs.
HeldExact ==
    /\ \A b \in Held : /\ \A m \in HonestMiners : b \notin miners[m].graph.ledger
                                                  /\ b \notin ToSet(miners[m].cache)
                       /\ \A e \in queue : e.block # b
    /\ Own = Held \cup (wm.real.ledger \cap Own)
    /\ Held \cap wm.real.ledger = {}
    /\ running => \A b \in Own \ Held, m \in HonestMiners : Reached(queue, miners[m], b, m)

\* The graph the adversary mines on has every block of the real graph, but
\* those for which a delayed insertion is pending, and the blocks held back:
\* no insertion, now or delayed, comes before that of an ancestor and fails.
MiningGraphExact == running /\ ~wm.fatal =>
    /\ wm.graph.ledger = (wm.real.ledger \cup Held) \ Delayed
    /\ Delayed \subseteq wm.real.ledger

\* Between events, either nothing is held back or the adversary's own blocks
\* end the real pivot: as many blocks are let go as that takes.
AheadOrEmpty == wm.holding # <<>> => blocks[wm.real.pivotTip].minerID = Adversary

\* ancestorNum counts the ancestors of a block, of a selfish miner's too,
\* which does not take it from a graph but from the parent.
AncestorNumExact == \A b \in Generated : blocks[b].ancestorNum = Cardinality(blocks[b].past)

\* Every block that is not held back gets into every graph, if the duration
\* leaves time for it: those of honest miners never wait for a block that is.
EventuallyPublic == \A b \in BlockIds :
    (b \in Generated /\ b \notin Held) ~>
        (b \in wm.real.ledger /\ \A m \in HonestMiners : b \in miners[m].graph.ledger)
=============================================================================
