# Conflux simulator: models, model checking and proofs

The simulator runs a Conflux-style block DAG over a simulated network. One goroutine (`Oracle.run`)
takes the earliest event from a queue, runs it to its end and queues the events it returns. Miners keep
a graph of blocks each, choose parents by the heaviest-subtree (GHOST) rule and refer to all other tips;
a network turns "broadcast this block" into deliveries.

This directory holds TLA+ models of those parts, TLC configurations, and TLAPS proofs about the graph, the
honest and the withholding miner, the simulation loop, all three networks and the links.
`PROJECT.json` maps definitions to source lines and lists runs, mutants, hazards and theorems.
Run a model with `tlc -config X.cfg MCx.tla`, a proof with `tlapm X.tla`.

## 1. Inventory

There is no parallelism in the program. What makes it hard is *order*: events of one timestamp, messages
that overtake each other, and state that one event leaves and another relies on.

| Component | State | Operations | Interacts with | Correct means |
|---|---|---|---|---|
| Local graph (`localgraph.go`) | `ledger`, per block `weight`, `maxChild`, `parent`; `totalWeight`, `tips`, `pivotTip` | `fillNewBlock`, `insert` | called by miners; blocks are shared by pointer | after every insert, in any order, weights, `maxChild`, pivot and tips are what the heaviest-subtree rule gives for that set of blocks |
| Honest miner (`miner_honest.go`) | a graph, a cache of blocks that came too early | `GenerateBlock`, `ReceiveBlock`, `insertCache` | oracle events in, network `Broadcast`/`Relay` out | no block lost, each relayed once and ancestors first, the cache drained |
| Withholding miner (`miner_adv1.go`) | the graph it mines on, the real graph, the blocks held back | the same, `checkBroadCast`, delayed inserts | network `Broadcast`, `DelayInsertEvent` | held blocks are secret, released ones enter the real graph, delayed inserts are not lost, its fatal error is not reached |
| Oracle (`oracle.go`, `event.go`) | clock, event queue, blocks, miners | `prepare`, `run`, `mineNextBlock` | everything | no event dropped or run early, genesis everywhere before mining |
| Event queue (`interface.go`, `utils.go`) | binary heap, the index each event remembers | `Push`, `Pop`, `ChangeTime` | oracle, traffic | pops a least timestamp although times change while queued |
| SimpleNetwork (`net_simple.go`) | none | `Broadcast`, `Relay` | oracle | every block gets to every miner |
| PeerNetwork (`net_peer.go`) | peers, `sent` marks, when each link is free | `Setup`, `Broadcast`, `Relay`, `sendBlockToBestPeer` | oracle | each miner is sent a block once; a busy link does not make it forget one |
| BitcoinNetwork (`net_bitcoin.go`) | peers, `inFlight` marks | `Setup`, announcement, request, data, compact blocks, express events | traffic, oracle | lists of peers are mutual; a block marked in flight is coming, once; every block gets everywhere |
| Traffic (`traffic.go`) | per sender: packets in the link, waiting list, buffer, next wakeup | `addEvent`, `pushEvent`, `popEvent`, ... | oracle queue (`ChangeTime`) | no fatal error, one wakeup pending while it is busy, order and bandwidth kept; every packet in one place |
| Statistics (second half of `localgraph.go`) | none | `getEpochs`, `countAnti` | reads a graph | epochs divide the past of the pivot, antisets are never negative |
| Entry point, `geo_delay.go`, `go-logging` | flags, a table, a library | — | — | — |

The hard behaviours are in `PROJECT.json` under `hazards`, each at its line. In short: incremental weights
that are rebased in pieces; tie-breaks; blocks before their ancestors; the removal of a list element
while iterating; marks made at request time; wakeups whose time changes while they are queued; delays that
let blocks overtake; blocks released in one handler; errors a handler ignores.

## 2. Modules

```
LocalGraph ── GhostRule ──┬── GraphOperations ── Epochs
                          ├── GhostLedger (abstract)
                          ├── HonestMiner ── BitcoinNetwork
                          └── WithholdMiner
LocalGraph ── Oracle ── SimpleNetwork
Link ── Traffic
BitcoinSetup
EventQueue (refines Agenda)

OpenMiner          = HonestMiner + GraphOperations  (refines GhostLedger)
Simulation         = HonestMiner + SimpleNetwork
WithholdSimulation = HonestMiner + WithholdMiner + SimpleNetwork
PeerNetwork        = HonestMiner + Oracle
BitcoinSimulation  = HonestMiner + Oracle + Link  (refines BitcoinNetwork)

GraphProofs (lemmas on LocalGraph, GhostRule, HonestMiner) ──┬── GraphOperationsProofs (OpenMiner, Epochs too)
                                                             ├── EventQueueProofs
                                                             ├── SimulationProofs
                                                             ├── WithholdProofs
                                                             ├── PeerNetworkProofs
                                                             ├── BitcoinNetworkProofs (BitcoinSetup too)
                                                             └── TrafficProofs (Traffic, BitcoinSimulation)
```

* **LocalGraph** has no variables. The block table `B` (the blocks all miners share by pointer) and one
  graph `g` are arguments, so one definition of `Insert` serves every module. The statements of `insert`
  are operators in source order: `AddEntry`, `CreditBranch` (first loop), `LowerOldBranch` (second),
  `MovePivot` (last two). A loop over parent or `maxChild` pointers is replaced by the set of blocks it
  visits, a first-order formula over `B[b].chain`, the parent path of `b`. `chain` and `past` record what
  following pointers yields; they are not in the code. `children` lists are the inverse of `parent`, in
  the order of generation, which is that of the index.
* **GhostRule** is the reference: the rule defined from a set of blocks alone, and `Consistent`, whose
  parts are those `checkConsistency` (test.go) tests after each insert under `-d`.
* **GraphOperations** is one graph under any sequence of `fillNewBlock` and `insert`. Other miners choose
  their edges freely, which README.md of the simulator allows.
* **HonestMiner** holds the handlers as functions; **OpenMiner** runs them under the deliveries README.md
  announces ("more than once", "a child earlier than its parent").
* **Oracle**, **SimpleNetwork**, **Simulation**: one step of `Simulation` is one iteration of
  `Oracle.run`. `Enqueue` drops events that lie in the past, as `run` does.
* **WithholdMiner**, **WithholdSimulation**: both strategies of `miner_adv1.go` in the same loop. The
  insertion of `ReceiveBlock` fails only into `log.Fatalf`, so the miner's cache stays empty and its
  `insertCache` returns at once; both are left out and the field `fatal` records the exit.
* **PeerNetwork**: the network with oracle and miners, in time. Its initial states are all topologies
  `Setup` can draw, including miners that draw themselves and miners nobody draws, each with and without the
  attacker.
* **BitcoinSetup**: `Setup` of `BitcoinNetwork`, one draw or one turn of a miner per step. Of a list of peers
  it keeps how often each miner is in it, since a miner can be twice in the list of another (each has drawn the
  other) and in its own (it has drawn itself).
* **BitcoinNetwork**: announcements, requests, compact blocks and data in *any* order, which covers all
  delays, links and verification times. A GET packet stands for the request, the packet in the link and the
  data. `Peers` holds what `BitcoinSetup` guarantees (`PeersAssumption`).
* **Link**: one sender's link with integer times and sizes, the truncations of `int64(...)` included, as
  functions of its state. **Traffic** runs one link under any load; senders do not interact there.
* **BitcoinSimulation**: what `main.go` runs by default, in time. A step is one iteration of `Oracle.run`. It
  reuses the handlers of `BitcoinNetwork` through the instance `Net`, the operators of `Link` and those of
  `Oracle`, and adds the ways between them: who hands which packet to which link at what time, and
  the wakeups, whose times move. The refinement mapping forgets time: `packets` is whatever is in the queue, in
  a link or on a waiting list. `Packets` and `Net` are where to start reading.
* **EventQueue** is the binary heap with container/heap's `up`, `down` and `Fix`; **Agenda** what the
  oracle needs of it. That `EventQueue` implements `Agenda` justifies the set-valued queue of `Oracle`.
* **Epochs**: `getEpochs` and `countAnti` as functions of a graph.

An operator whose comment calls it a mutant is a plausible bug that replaces a definition in a mutation
run; nothing else uses it. `PROJECT.json` pairs each property of each run with one that violates it.

## 3. Runs

All pass but `open_miner_duplicates`. States are distinct states.

| Run | What it asks | Bounds | States |
|---|---|---|---|
| `graph_operations` | is the incremental graph always the rule's? do its epochs divide the past, are antisets right? | 4 blocks after genesis, 2 residuals | 414,716 |
| `open_miner` | out of order and with duplicates: nothing lost, sent once and in order, refines `GhostLedger`; does the cache drain without duplicates? | 3 blocks, 2 deliveries of each | 85,083 |
| `open_miner_duplicates` | does it drain with duplicates? **No** (section 6) | the same | — |
| `simulation` | the whole loop with shorter delays for the attacker; do all blocks get into all graphs? | 3 miners, 3 blocks in time, 2 residuals | 131,196 |
| `withhold` | both strategies: secrecy, release and broadcast, fatal error, delayed inserts, `ancestorNum`; does what is not held back get everywhere? | 3 miners, 4 blocks in time, 1 residual | 164,232 |
| `peer_network` | marks and copies agree, nothing put off is forgotten, bounded backlog; every reachable miner gets every block, on every topology of one draw, with and without attacker | 3 miners, 2 blocks in time and genesis | 234,363 |
| `bitcoin_attacker` | in flight means coming, once; attacker's blocks come first | attacker and 2 honest, compact blocks, a repeated connection, 2 blocks | 209,483 |
| `bitcoin_line` | blocks that leave a cache are announced; do all blocks cross the line? | line of 3, 2 blocks | 22,483 |
| `bitcoin_setup` | are lists mutual at every turn; when can drawing go on for ever? | 5 miners, 2 draws each, 2 regions | 76,814 |
| `bitcoin_simulation` | is every packet in one place; does the timed program implement `BitcoinNetwork`? | line of 3, 2 blocks in time, pings 0 and 1 | 277,173 |
| `traffic` | fatal errors, wakeups, buffer, order, bandwidth; is everything sent? | 4 packets of three sizes | 48,193 |
| `event_queue` | least element under `ChangeTime`, which needs right indexes | 5 events, times 0..2 | 24,134 |

Why the bounds suffice for the cases meant:

* Four blocks after genesis give a fork below a fork, a switch of the pivot and a switch back, two
  branches of two, and ties decided by residual and by age. The proofs of section 5 need no bound.
* Residuals matter through their order only: `getWeight` adds a number in [0, 1) to an integer, so the
  sum orders as the pair (weight, residual). Two values give ties and both orders.
* Three cached blocks are needed for the behaviour of section 6, and for a chain drained in one call.
* In `Simulation` a delay of 3 against a gap of 1..2 and the attacker's 1 makes blocks overtake; the last
  block of the bound is mined after the end, so the loop always ends as in the code. In `withhold` the gap is 1..2
  and the delay 2: the adversary can then hold two blocks back and be overtaken. One residual leaves ties to
  the age of the blocks, which goes either way; residuals are told apart in `simulation`.
* In `PeerNetwork` a transfer (2 slots) exceeds the backlog (1), so a block is put off whenever genesis or
  another block is being sent; `EventuallyReached` fails without the retry.
* In `bitcoin_attacker` and `bitcoin_line` two blocks are enough: the second can overtake the first on the
  way to a miner, be cached there and leave the cache with it. The lists of peers are results of `Setup` for
  three miners, with a miner that drew itself and, in the first, two that drew each other. The first run uses
  the compact relay (`relayImpl` 1, which the code has and does not select), whose requests have one stage more.
* Five miners with two draws reach every pair of multiplicities `LinksMutual` lists, and `Hangs` with two
  miners and with one miner of a region left to draw for. The proofs of section 5 cover every number.
* In `bitcoin_simulation` a block of 4 bytes takes two ticks alone in a link, and the buffer of 9 holds two: the
  middle of the line sends two blocks to one peer or one block to two, so packets share the link, move the
  wakeup, and wait; blocks also come in the wrong order and are cached. The duration of 40 leaves time for all.
* In `traffic` two packets of 12 bytes fit in the buffer of 25, or seven of 3: the waiting list is used, packets join and
  leave while others are in the link, and the wakeup is moved both ways. A packet of 25 never fits.
* Five events give a heap of three levels, where `Fix` must go up in one subtree and down in another.

`CHECK_DEADLOCK FALSE` is set where the bound on blocks, packets or deliveries lets the system come to
rest, or, in `BitcoinSetup`, a miner draws for ever. The runs of the oracle loop end in a stuttering step and are
checked for deadlock.

## 4. Fairness and liveness

`Oracle.run` is a loop of one goroutine: until it leaves the loop it pops another event. `Progress` says
so; it is weak fairness of the next-state relation, with its enabling condition (`running`) written out.
No more is assumed, of no single event: that a particular one comes up follows from timestamps. In
`BitcoinNetwork`, which has no time, it is that some event under way is eventually run, and the bound on
blocks makes that enough. That is not taken on trust: `ImplementsNetwork` includes that fairness, so in
`BitcoinSimulation` the loop, the wakeups and the waiting lists provide it. In `Traffic` it is weak fairness
of the wakeups. All liveness is relative to a duration that leaves time for the deliveries, and the blocks a
behaviour generates are finite.

`SimpleNetwork` and, if the honest miners are connected (`ConnectedAssumption`), `BitcoinNetwork` bring every
block to everybody. `PeerNetwork` does not: a miner that nobody drew gets nothing but express events, so
`EventuallyReached` speaks of the miners that can be reached. The withholding miner may keep blocks for ever;
`EventuallyPublic` is about the rest. A link does not send a packet of the size of its buffer or more, nor
anything that comes to wait behind it: `EventuallySent` excepts exactly these (`Stuck`).

## 5. Proofs

All are checked by TLAPS and hold for every value of the constants that satisfies the named assumptions.

| Module | Theorems | of |
|---|---|---|
| `GraphOperationsProofs` | `TypeCorrect`, `WeightsAreExact`, `MaxChildrenAreExact`, `PivotTipIsExact`, `TipsAreExact`, `EpochsAreExact`, `AntisetsAreExact` | `GraphOperations`, `Epochs` |
| the same | `NothingGetsLost`, `SendsOnceInOrder`, `CacheIsDrained`, `Refines` | `OpenMiner` |
| `SimulationProofs` | `GenesisIsFirst`, `NoBlockGetsLost`, `EdgesComeFromPast`, `GraphFollowsLedger` | `Simulation` |
| `PeerNetworkProofs` | `SentIsExact`, `IsStillOffered`, `BacklogIsBounded` | `PeerNetwork` |
| `WithholdProofs` | `IsNeverFatal`, `HeldIsExact`, `MiningGraphIsExact`, `IsAheadOrEmpty`, `AncestorNumIsExact` | `WithholdSimulation` |
| `BitcoinNetworkProofs` | `InFlightIsExact`, `AttackerIsFirst`, `IsAnnounced` | `BitcoinNetwork` |
| the same | `LinksAreMutual`, `HangsOnlyAtTheEnd`, `SetupMakesPeers` | `BitcoinSetup` |
| `EventQueueProofs` | `QueueImplementsAgenda` | `EventQueue` |
| `TrafficProofs` | `NoFatalError`, `LinkStaysExact`, `NobodyOvertakes`, `BandwidthStaysKept` | `Traffic` |
| the same | `NeverInTwoPlaces`, `NoFatalErrorInAnyLink`, `NetworkSteps` | `BitcoinSimulation` |

Each of these modules has one inductive invariant for each specification, with one lemma per action that preserves it, the
theorem that it holds (`Inductive` of `IInv` where there is one specification), and the theorems of the table as
consequences. The others: `OpenInv` for `OpenMiner`, `SetupInv` for `Setup`, `TrafficInv` for a link, `SimInv` for the program. What they share about
tables, graphs and honest miners is in `GraphProofs`.

The assumptions are those of the modules, which TLC evaluates in the runs. `BlockAssumption`: the bounds are naturals and
`NoMiner` is no miner. `OwnerAssumption`, `OpenMinerAssumption`: the owner is a miner, the bound on deliveries a
natural. `OracleAssumption`: the duration is a natural, the greatest gap is positive and there is room for
the block that is mined first. `NetworkAssumption`: attackers are miners, delays naturals.
`PeerAssumption`: the miners are 0..n-1 for some n, transfer, latency and retry take time, as the constants of
net_peer.go do. `PeersAssumption`: the lists of peers are such as `SetupMakesPeers` says `Setup` makes them.
`AdversaryAssumption`: the withholding miner is a miner, and no other is an attacker, since the program adds the
attacker first and `NewSimpleNetwork` takes the first miner for it.
`SetupAssumption`: the numbers of miners and of draws are naturals. `LinkAssumption`, `TrafficAssumption`: see below.

**The graph.** `GraphProofs`, first half, and `GraphOperationsProofs`, for every number of blocks, residuals and
miners and all sequences of `fillNewBlock` and `insert`.

*The invariant.* None of the properties is inductive alone. That `insert` picks the right `maxChild` needs
exact weights, that it rebases the right blocks needs an exact pivot, and the pivot is what `maxChild`
says. `IInv` joins them (`GraphOK`) with the shape of the table (`TableOK`: edges go to earlier blocks, and
`chain` is a path down from genesis), without which the climb to the pivot need not end at one block.

*The argument for `insert`*, in the order of its statements:

1. *Entry.* Adding `b` adds one to the subtrees on its chain and to no other (`SubtreeGrows`).
2. *First loop.* The climb from the parent ends at the deepest pivot block of its chain, the fork
   (`ClimbEnds`). The branch climbed then has exact weights and exact choices (`CreditedFields`).
3. *Second loop.* It visits the pivot below the fork (`OldChainIs`); afterwards every stored weight is
   exact for the new total and the *old* pivot (`LoweredFields`).
4. *Choices.* `Beats` is a strict total order on siblings (`BeatsOrder`), so the choice is unique. Away from the fork
   a heaviest child on the chain of `b` only gets heavier, so choices nobody looked at stay right
   (`HeaviestStays`, `AwayFromFork`); the choice made at the fork is the right one (`AtFork`).
5. *Switch.* If the choice is the old branch nothing is left to do (`SamePivot`). If not, the new pivot is
   the chain of the fork and the new branch (`NewPivotIs`), the walk down it ends (`NewTipExists`), and the
   last loops restore the old branch and rebase the new one (`OtherPivot`).

`InsertKeepsGraph` collects these; `GraphOperationsProofs` adds that a block generated elsewhere leaves a
graph consistent, one lemma per action, and the temporal step.

Two consequences are used further on. `PivotTipIsGhostTip`: what `insert` keeps is the tip of the rule, which is
defined from the set of blocks alone. `SameLedgerSameGraph`: consistent graphs with the same blocks are equal
in every field, because weights, choices, pivot and tips are each determined by what comes before in this list.

**The statistics.** `GraphOperationsProofs`, second half: `getEpochs` and `countAnti` on every graph those operations can
build. `IInv` has for this what the counters of a block count (`Counted`: `past`, `height`, `ancestorNum`). A search of
`getEpochs` or `countAnti` finds exactly what can be reached (`VisitReaches`): each edge lowers the index of the block, so
that as many rounds as there are blocks are enough. The pivot has one block of each height (`PivotLevels`), so the rounds
of `getEpochs` run through the pivot from genesis to the tip, and the round of the pivot block `p` adds the past of `p`
without that of its parent (`EpochIs`, `Divided`). For the antiset, `DescendantsAre` says that the search along `children`
and reference edges finds the blocks that have `b` in their past, by looking at the first block it would miss; the rest
is arithmetic on the sizes of three disjoint sets.

**The honest miner.** `GraphProofs`, second half, and the end of `GraphOperationsProofs`. A scan of `insertCache` is a recursive function
over the positions of the cache, and so is the repetition of scans. What they compute is proved by induction over
a set of naturals (`NatSubset`), after showing that the function the recursive definition chooses exists
(`IterationExists`). `ScanKeeps` says of the positions up to `n` that the graph is consistent, that what has left the cache
is in the graph or was, that what was relayed has entered the graph in that order with its ancestors
first (`Entered`), and that before the first removal nothing could be inserted. A scan that
changes nothing therefore leaves a drained cache, and each other scan removes a block, so that as many scans as there are
blocks in the cache are enough (`InsertCacheOK`). That is where "no block twice" is needed: with `Once`, the first block a scan
removes is new to the graph (`Clear`), which makes the code scan again; section 6 is what happens without it.

`ReceiveBlockOK` collects this for one call. `OpenInv` needs besides that a cached block has been delivered, so
that under `Once` it is not delivered again. *The refinement:* `Refines` shows that `OpenInit` implies the
initial condition of `GhostLedger`, and that each step is a step of it or a stutter: the blocks that enter the graph in one call
(several, when a cache is drained) enter it in an order that keeps the ledger ancestor-closed, and the pivot tip is
`GhostTip` of the new ledger by `PivotTipIsGhostTip`.

**The event queue.** `EventQueueProofs`, for any events, any range of times and any queue. `IInv`: `heap` is a heap and `index`
its inverse, with which `ChangeTime` finds the event to move. `Swap` keeps the second; what `Up` and `Down` add is
stated by a heap that is broken in one place. In `ButAbove` one event may be before its parent, in `ButAround` it may be
after its children as well, and in both the parent is at or before the children, so that a swap cannot break the heap in a second
place. `Up` moves the fault towards the root (`RiseKeeps`), `Down` towards a leaf (`SinkKeeps`), where there is none; that the
two recursive functions do this is the induction of `IterationExists` again. `Fix` starts from `ButAround`: if `Down` moves nothing, nothing
is after its children, and `Up` is left with `ButAbove`. `RootIsLeast` then gives `Pop` the event `Agenda` allows. All three
keep or change the set of events as `Agenda` says (`Rearranged`), so each step is one of `Agenda`.

**The simulation loop.** `SimulationProofs`, for every number of miners, every duration and all delays. The parts of
`IInv`: the types; the table, in which the block mined last has a miner and no edges yet, the edges of the others
come from their past (`EdgesFrom`) and `ancestorNum` counts it (`PastOK`); the kinds of events there can be (`Events`: one `GenBlock`
at most, of the block that is mined and later than time 0, and genesis at time 0); consistent graphs and clear caches
(`Miner`); and, while the loop runs, where each block is for each miner (`Placed`): with its
own miner in the graph, with another in exactly one event or at the miner. `NoBlockLost` follows from
`Placed` and `Clear`: of the ancestors a cached block waits for take the first one the graph lacks; it is not in the
cache, for then it could be inserted, so it is in an event (`WaitsForOne`). Genesis is with everybody when a block is
generated because its events are at time 0 and the queue is popped in order of time (`GenesisKnown`).

**The withholding miner.** `WithholdProofs`, for both strategies, every number of miners, all gaps and delays.
`IInv` has a part that lasts when the loop has ended (`Still`) and one for the loop (`Running`).

*The miner.* `WithholdOK`: both graphs are consistent; the blocks held back are in the order they were generated,
each on top of what is real or held before it (`HoldOK`); if there are any, the real pivot ends in a block of
the adversary (`Ahead`). `ReleaseKeeps` is one round of `checkBroadCast` and `CheckBroadCastOK` the loop, by induction
over the rounds: it ends with nothing held or the adversary ahead, and what it took from the list it broadcast and
inserted. `WithholdGenerateOK`, `WithholdReceiveOK` and `DelayedInsertOK` say the same of the handlers. `Secret`: what is
held is in no event and with no honest miner, and blocks of honest miners do not build on it. `Public`: what is let go
is with every honest miner, or in an event that brings it to him; the handlers' answers broadcast exactly what leaves
the list (`AnswerFacts`), and no event is dropped before the end of the loop. `Secret`, `Public` and `WithholdOK` make up
`HeldExact`. `Mining` is `MiningGraphExact`.

*The order of events.* `NeverFatal` needs that no block of an honest miner comes to the adversary before one of its
ancestors. All of these blocks take the same time to it. `Birth` subtracts from the time of an event what its block
has waited so far, so that a broadcast, the delivery that follows it and a delayed insert have the same. `Line` says that
births have the order of the blocks and that each block has one such event; `Coming`, that a block the adversary
has not received has one. When a block is popped, its parents have smaller indexes, hence earlier births, hence
their events would have been popped before: they are known (`ParentsKnown`). A parent that is the adversary's own
is not held (`Secret`), hence real. The same argument, one delay later, lets a delayed insert find the parents in
the mining graph. Events of the adversary's own blocks are outside the line, since nothing of them comes back. `Started`
is the same for genesis: it is with every miner before anything is mined (`GenesisKnown`).

Without equal delays (`BitcoinNetwork`, or a second attacker in `SimpleNetwork`) `Line` does not hold, and the argument is lost.

**PeerNetwork.** `PeerNetworkProofs`, for every topology `Setup` can draw, every number of peers and any backlog. The
marks and the events depend on each other, so `IInv` has both. `Marked` refines `SentExact`: a marked block is at the miner
or in one event to it, one that is not marked is in none. `Offered`: of the blocks in its graph a miner has
at most one event that offers them, and one if a peer lacks a mark; of others it has none. The two properties follow.
`BacklogIsBounded` needs to know which reservations may exceed the backlog: those of a miner's own block, which
`sendBlockToBestPeer` offers with priority (`first`) once. `Used` is the set of own blocks whose priority
is used up, and `Reserved` bounds the link by one transfer for each of these, so the transfer that uses one up pays for
itself (`BeyondBacklog`) and any other begins within the backlog (`WithinBacklog`). That the priority cannot come back is
again `Offered`: there is one offer, and a new one is made without it. `PeerSendKeeps` states what the three
outcomes of `sendBlockToBestPeer` (all peers have it, put off, sent) have in common.

**BitcoinNetwork.** `BitcoinNetworkProofs`, for all lists of peers that satisfy `PeersAssumption`, both relays and every
order of packets. `IInv` says which packets there can be, that the graphs are consistent, `InFlightOnce` (the property
with "there are not two" for a cardinality), and `AttackerEverywhere`: a block of the attacker is in flight at every
miner from the moment it is broadcast, from which `AttackerFirst` follows for every announcement. `Announced` is
inductive with these. Its case with work in it is data that lets cached blocks into the graph; each of them is announced
because `ReceiveBlockOK` says that what enters the graph is what is relayed.

**The link.** `TrafficProofs`, for all packets, arrival times, buffers and numbers of packets in the link.
Assumed: `LinkAssumption`, that the buffer is not empty (the code adds 1) and that the bandwidth per tick is within the
tolerance, and `TrafficAssumption`. The tolerance is 100000 (`100*bytes`) and a tick a microsecond: 20 Mbps is 2621 per
tick, and the assumption fails above 762 Mbps, which the flag `-band` allows.

*Time.* `TrafficInv` says of the one current wakeup that it is as late as the first packet needs, up to the
truncation of its time (`WakeupExact`), and that the packets of the queue are not finished before it
(`NotFinished`). Between events `accSize` grows by a quotient that is truncated once, so at the
time of the wakeup it has not passed the first packet (`NoOvershoot`), and what is missing is less than a tick
of bandwidth shared by the queue (`SmallRest`), which is within the tolerance. Each handler ends in
`updateNextWakeup`, which establishes `WakeupExact` anew (`UpdateKeeps`); the rest is that `pushEvent`, `addEvent`,
`pullWaitingListAndUpdate` and `popEvent` hand it a link in order (`PushKeeps` to `PopKeeps`). `NoFatalError` needs
no more; the two errors of `updateNextWakeup` (`ForgetsLastWakeupT`) are excluded because every way to it
leads through `pushEvent` or `popEvent`, which bring `lastWakeupT` to the present first.

*Contents.* `Books`: every packet is in one place, no two have a number, those that wait are in the order they came.
`Ordered`: no packet of the queue is further from its end than its size; with packets of one size (`Same`) those
that wait came last, and the queue ends and was delivered in the order of arrival, up to packets that end
together. A push keeps this order because `accSize` only grows and because nothing that waits would have
fitted (`Full`): with one size, a delivery frees as much as the packet it pulls in takes, so the buffer is as full as
before. Without `Full` a packet could be pushed past one that waits. `BufferExact` and `Kept` are about sums: `buffer` is the sum of the sizes in the queue, and what has been sent of
all packets (`ServedOf`) is what the bandwidth gives in the busy time. Each handler adds to it `gain` bytes for each
packet of the queue (`GainKept`), what is short of `p.size` when it delivers `p`, and nothing for a
new packet (`ServedPush`, `ServedPop`, `KeptGrows`). *Sums:* the folds of the community modules take the elements in an order that
`CHOOSE` decides. `SumsAny` proves, by induction over the subsets of a finite set, that any element may be taken first;
`SizesFacts` and `SentFacts` are what the handlers need of it.

**The program.** The last part of `TrafficProofs`: `BitcoinSimulation`, for all miners, lists of peers, pings, sizes,
durations and either relay; `NetworkAssumption` is `PeersAssumption` for it. `NeverInTwoPlaces` is not inductive: that a new
packet is in no link and not in the queue follows from where packets come from. `SimInv` has three parts.

* `Tables`: the table, in which the last block has no edges yet (`Size`), consistent graphs, and the types of the caches
  and of `inFlight`.
* `Places`: of the queue (`QueueOK`), that nothing in it is past, that it holds one `GenBlock` event, which keeps the loop from
  running dry, and each packet once; of each link (`SenderOK`), `LinkInv` from above, that its wakeups are not past, that its
  packets are this sender's and once in it (`Once`); and that no packet is in both.
* `Origins`: an announcement in flight is of a block in its sender's graph, any other packet of a block that is in flight at
  its receiver, and of these there are not two with one receiver and block. So the announcements of a block that enters
  a graph are new, since it enters a graph once, and so is a request, since the block was not in flight when it is made.

`InFlightExact` of `BitcoinNetworkProofs` is not assumed: the half of it that is needed, `Origins`, is proved here anew.
The loop's part is that the event popped is the least (`Due`), so time passes no wakeup, and that no result is
in the past, so `Enqueue` drops none (`EnqueueAll`). The links' part is reused: `PushKeeps` to `PopKeeps` are lemmas on a
link, whatever its packets are. `NoFatalErrorInAnyLink` then follows as `NoFatalError` does. That matters for the
model too: where the code would end the program `RunConstructed` and `RunWakeup` have no step, and the theorem says this case does not
arise (`LinksSucceed`).

`NetworkSteps` is the refinement of `BitcoinNetwork` by the program, its safety part: `Init` maps to `Init`, and each step to
the step of the network whose handler it runs, or to a stutter. The lemma of each action says which: `GenBlockKeeps` to
`Generate`, `INVKeeps` to `ReceiveINV`, `GETKeeps` to `SendCompact` or `SendData`, `SendBlockKeeps` to `ReceiveData`; a packet that
goes into a link or comes out of it (`ConstructedKeeps`, `ComesOutKeeps`) and the end of the loop change nothing there, since
`Packets` is the union of the places. This needs `SimInv`: no result of a step is dropped or was under way before, so
`Packets` changes by what the network says. Two things are not obvious.

* The tables differ. The oracle mines a block when the one before it is generated, and gives it edges when its time
  comes; the network does both in one step. The mapping hides the block without edges (`Shown`), so the handlers must not look at it:
  `InsertAgrees`, `ScanAgrees`, `CacheAgrees` and `ReceiveBlockAgrees` of `GraphProofs` say that on two tables with
  the same first n blocks `insert`, `insertCache` and `ReceiveBlock` do the same, and `ShownGenerates` that a block mined
  now or one step earlier gets the same edges.
* `Net` has the definitions of `HonestMiner` under names of its own. `SameGenesis` to `SameBlocks` say they are the same.

**Setup.** The second half of `BitcoinNetworkProofs`: `LinksAreMutual` and
`HangsOnlyAtTheEnd`, for every number of miners, regions and draws. The invariant adds what the lists of miners look like whose turn has not come (everything in them
comes from a miner whose turn has passed) and that the set drawn from contains these. A miner has then in its set only
miners with smaller numbers and what it has just drawn, so that the miners of its region from its own number on,
which it could draw, are too few only if they are fewer than its draws. `SetupMakesPeers` closes the gap to
the network: what `PeersAssumption` assumes of the lists, `Setup` establishes.

*Model-checked only:* liveness and `ENABLED` are out of the prover's reach, so all properties with a `~>` stay with TLC,
and so does the fairness in `ImplementsNetwork`, whose safety part is `NetworkSteps`. The induction theorems of the
library are out of reach too; `NatSubset` and `IterationExists` take their place.

## 6. A finding

`open_miner_duplicates`: `insertCache` removes the element it stands on and then asks it for `Next()`,
which container/list has set to nil. A scan therefore ends at the first block it removes. It is repeated if
that block was new, but not if the graph had it already. A block that was cached twice (delivered twice before its
ancestor) thus hides the blocks behind it, although their ancestors are known, until a later arrival calls
`insertCache` again. miner_honest.go:70 says "Insert blocks from cache to local graph", and the simulator's
README.md:144 asks miners to expect a block more than once. The networks of the repository deliver each
block once (`NoBlockLost`, `SentExact`, `InFlightExact`), so the simulator does not meet it itself;
`CacheDrainedOnce` of run `open_miner` shows the cache drains then.

## 7. Abstractions, and what is not modelled

* Random draws (miner, gap, residual, jitter, peers) are free choices. Not covered: `rand.Float64()`
  returning 0 in `mineNextBlock`, and rounding of `cumTable`; both are listed as hazards.
* Time is in slots. The gap is 1..`MaxGap`; in the code it is geometric. Floats are exact up to the
  conversions to `int64` in `Link`, whose tolerance is therefore about ticks and bytes. All links have one
  bandwidth and buffer; with the flag `-m` miner 0 has its own.
* With packets of different sizes the code does not promise `NoOvertaking` (a pop pulls in one packet, and small
  ones may pass those that wait); it is checked as long as all the packets so far have one size.
* `BitcoinNetwork` and `BitcoinSimulation` start when genesis is everywhere. `Setup` does not make the honest
  miners a connected network: with few peers, or peers within a region only, parts of it may stay apart.
  `ConnectedAssumption` says that this has not happened, and only the liveness properties need it. In
  `BitcoinSetup` a miner of another region can be drawn or not according to `Regions`: one region is the case that
  all can be drawn, several the case that `localRatio_` is 1.
* In `BitcoinSimulation` the attacker's express events are actions of the reused handlers but the run has no
  attacker; `bitcoin_attacker` covers them in any order. (With `Attackers = {m0}` and `RelayImpl = 1` in its cfg
  the run passes too, with 42,243 states.) Pings are any of a set, for each packet anew.
* `PeerNetwork` leaves out `startTime` and `endTime`, which are for the log.
* `block.seen`, `receivingTime` and all `report_*` functions only feed the log. `main.go` parses flags,
  `geo_delay.go` is a table of delays, `go-logging` is a vendored library, `Stack` is not used.
* `checkConsistency` is the source of `Consistent` and is not run by the models.

## 8. Plan

Done: the graph, honest miner, oracle, three networks, set-up, link, the composition main.go runs,
withholding miner, queue and statistics are modelled and checked; the graph, its statistics, the honest miner and its refinement, the
event queue, the loop with SimpleNetwork, the withholding miner in it, PeerNetwork, BitcoinNetwork, its set-up, the safety of the link, the places of packets in the program and that its steps are the network's are proved. Left, in
this order:

1. *More proofs.* That what `BitcoinNetworkProofs` says of the network holds in the program, by `NetworkSteps`: its theorems
   would have to be stated without `Progress` and from assumptions that `NetworkAssumption` implies.
2. *More of the system.* The withholding miner on `BitcoinNetwork`, where equal delays do not exclude its fatal error;
   `OpenMiner` inside the timed `PeerNetwork` with duplicates; `normalize` and the choice of a miner with integer
   weights.
