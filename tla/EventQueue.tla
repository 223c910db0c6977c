----------------------------- MODULE EventQueue -----------------------------
(***************************************************************************)
(* The oracle's event queue (interface.go and utils.go): a binary heap of  *)
(* events, each of which remembers its index in it, so that ChangeTime can *)
(* move an event that is already queued.  container/heap is the library of *)
(* Go, modelled from the calls this code makes of it.                      *)
(*                                                                         *)
(* Indexes start at 1 here and at 0 in the code.                           *)
(***************************************************************************)
EXTENDS Integers, Sequences, FiniteSets

CONSTANTS Events,   \* the events
          MaxTime   \* bound: the greatest timestamp

ASSUME EventQueueAssumption == MaxTime \in Nat

VARIABLES heap,       \* eq.queueList
          timestamp,  \* BaseEvent.timestamp of each event
          index,      \* BaseEvent.index of each event
          queued      \* the events whose BaseEvent.eq is not nil

vars == <<heap, timestamp, index, queued>>

\* The operations of the heap work on the record of these variables.
State == [heap |-> heap, timestamp |-> timestamp, index |-> index]

Less(s, i, j) == s.timestamp[s.heap[i]] < s.timestamp[s.heap[j]]

\* EventPriorityQueue.Swap.  A mutant: one of the two indexes is not set.
SwapForget(s, i, j) ==
    [s EXCEPT !.heap = [@ EXCEPT ![i] = s.heap[j], ![j] = s.heap[i]],
              !.index = [@ EXCEPT ![s.heap[j]] = i]]

Swap(s, i, j) ==
    [s EXCEPT !.heap = [@ EXCEPT ![i] = s.heap[j], ![j] = s.heap[i]],
              !.index = [@ EXCEPT ![s.heap[i]] = j, ![s.heap[j]] = i]]

-----------------------------------------------------------------------------
(***************************************************************************)
(* container/heap.  A position moves along one path of the tree, which has *)
(* at most as many nodes as the heap.                                      *)
(***************************************************************************)
\* up(j): the event at j is swapped with its parent while it is less.
Up(s, j) ==
    LET rise[n \in Nat] ==
            IF n = 0 THEN [s |-> s, j |-> j]
            ELSE LET r == rise[n - 1] IN
                 IF r.j > 1 /\ Less(r.s, r.j, r.j \div 2)
                 THEN [s |-> Swap(r.s, r.j, r.j \div 2), j |-> r.j \div 2]
                 ELSE r
    IN  rise[Len(s.heap)].s

\* down(i, n): the event at i is swapped with its smaller child among the
\* first n while that is less.
Down(s, i, n) ==
    LET Smaller(r) == IF 2 * r.i + 1 <= n /\ Less(r.s, 2 * r.i + 1, 2 * r.i)
                      THEN 2 * r.i + 1 ELSE 2 * r.i
        sink[k \in Nat] ==
            IF k = 0 THEN [s |-> s, i |-> i]
            ELSE LET r == sink[k - 1] IN
                 IF 2 * r.i <= n /\ Less(r.s, Smaller(r), r.i)
                 THEN [s |-> Swap(r.s, r.i, Smaller(r)), i |-> Smaller(r)]
                 ELSE r
    IN  sink[n]

\* heap.Push with EventPriorityQueue.Push.
HeapPush(s, e, t) ==
    LET n == Len(s.heap) + 1
    IN  Up([heap      |-> Append(s.heap, e),
            timestamp |-> [s.timestamp EXCEPT ![e] = t],
            index     |-> [s.index EXCEPT ![e] = n]], n)

\* heap.Pop with EventPriorityQueue.Pop, which leaves the index of the event.
HeapPop(s) ==
    LET n    == Len(s.heap)
        sunk == Down(Swap(s, 1, n), 1, n - 1).s
    IN  [sunk EXCEPT !.heap = SubSeq(@, 1, n - 1)]

\* heap.Fix(i).
HeapFix(s, i) ==
    LET d == Down(s, i, Len(s.heap))
    IN  IF d.i > i THEN d.s ELSE Up(d.s, i)

-----------------------------------------------------------------------------
Init == /\ heap = <<>>
        /\ timestamp = [e \in Events |-> 0]
        /\ index = [e \in Events |-> 0]
        /\ queued = {}

Becomes(s) == heap' = s.heap /\ timestamp' = s.timestamp /\ index' = s.index

\* EventQueue.Push of an event made, or popped before, that is to run at t.
Push(e, t) == /\ e \notin queued
              /\ Becomes(HeapPush(State, e, t))
              /\ queued' = queued \cup {e}

\* EventQueue.Pop: SetQueue(nil) tells ChangeTime that index is out of date.
Pop == /\ heap # <<>>
       /\ Becomes(HeapPop(State))
       /\ queued' = queued \ {heap[1]}

\* BaseEvent.ChangeTime: of an event that is queued, or has been.
Changed(e, t) ==
    LET s == [State EXCEPT !.timestamp[e] = t]
    IN  IF e \in queued THEN HeapFix(s, index[e]) ELSE s

ChangeTime(e, t) == Becomes(Changed(e, t)) /\ UNCHANGED queued

Next == \/ \E e \in Events, t \in 0..MaxTime : Push(e, t) \/ ChangeTime(e, t)
        \/ Pop

Spec == Init /\ [][Next]_vars

-----------------------------------------------------------------------------
\* The queue implements the abstract one, in which Pop takes an event with
\* the least timestamp: the one the simulator's time must not go back before.
Abstract == INSTANCE Agenda WITH pending <- queued
ImplementsAgenda == Abstract!Spec
=============================================================================
