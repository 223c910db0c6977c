------------------------------- MODULE Oracle -------------------------------
(***************************************************************************)
(* The oracle (oracle.go, event.go): it owns the block table, draws the    *)
(* time and the miner of each block, and runs events from a queue ordered  *)
(* by timestamp.  What running an event does besides depends on the miners *)
(* and the network; Simulation.tla puts them together.                     *)
(*                                                                         *)
(* Abstractions: the queue is a set (a binary heap in the code: of several *)
(* events with the least timestamp any may come first), and the gap to the *)
(* next block, a geometric variable in the code, is any number of 1..MaxGap.*)
(***************************************************************************)
EXTENDS LocalGraph

CONSTANTS Duration,  \* o.duration
          MaxGap     \* bound: the longest time between two blocks

\* The oracle mines a block before it starts, so the table has room for one.
ASSUME OracleAssumption == Duration \in Nat /\ MaxGap \in Nat \ {0} /\ MaxBlock >= 1

VARIABLES timestamp,  \* o.timestamp
          queue,      \* o.queue
          running,    \* FALSE once run has left its loop
          blocks,     \* the entries of o.blocks
          mined       \* len(o.blocks)

oracleVars == <<timestamp, queue, running, blocks, mined>>

GenBlock(t, b)     == [type |-> "GenBlock", timestamp |-> t, block |-> b]
SendBlock(t, b, m) == [type |-> "SendBlock", timestamp |-> t, block |-> b, receiver |-> m]
Broadcast(t, b)    == [type |-> "Broadcast", timestamp |-> t, block |-> b]

(***************************************************************************)
(* mineNextBlock at time t: the stamps its event may carry.  The bound     *)
(* MaxBlock is met by letting the last block come after the end: the gap   *)
(* in the code has no upper limit.                                         *)
(***************************************************************************)
\* A mutant: the gap may be zero.
NextStampsNoGap(t, b) == IF b < MaxBlock THEN t..(t + MaxGap) ELSE {Duration + 1}

NextStamps(t, b) == IF b < MaxBlock THEN (t + 1)..(t + MaxGap) ELSE {Duration + 1}

\* mineNextBlock on table B: the table, and the event.
Mine(B, t, b, m, r, stamp) ==
    [blocks |-> MineBlock(B, b, m, r), event |-> GenBlock(stamp, b)]

\* queue.Pop(): an event that none precedes.
Earliest(q) == {e \in q : \A f \in q : e.timestamp <= f.timestamp}

\* run() drops the results that lie in the past.  A mutant: and those that
\* lie in the present.
EnqueueLater(q, results, t) == q \cup {e \in results : e.timestamp > t}

Enqueue(q, results, t) == q \cup {e \in results : e.timestamp >= t}

\* NewOracle, and prepare: the first block and the broadcast of genesis.
OracleInit ==
    /\ timestamp = 0
    /\ running = TRUE
    /\ mined = 2
    /\ \E m \in Miners, r \in 0..MaxResidual, stamp \in NextStamps(0, 1) :
         LET next == Mine(GenesisTable, 0, 1, m, r, stamp)
         IN  /\ blocks = next.blocks
             /\ queue = {next.event, Broadcast(0, Genesis)}

\* The event popped is past the duration: run leaves its loop.
Stop == /\ running
        /\ \E e \in Earliest(queue) : /\ e.timestamp > Duration
                                      /\ timestamp' = e.timestamp
                                      /\ queue' = queue \ {e}
        /\ running' = FALSE
        /\ UNCHANGED <<blocks, mined>>

\* What all the other iterations of the loop share.
Pop(e) == /\ running
          /\ e \in Earliest(queue)
          /\ e.timestamp <= Duration
          /\ timestamp' = e.timestamp
          /\ UNCHANGED running
=============================================================================
