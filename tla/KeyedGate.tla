----------------------------- MODULE KeyedGate -----------------------------
(***************************************************************************)
(* The fair shared/exclusive gate that serializes the container lifecycle  *)
(* of a thread with the commands that run in its container                 *)
(* (packages/sandbox/src/docker/thread-lifecycle.ts), for one thread id.   *)
(*                                                                         *)
(* A Gate is the ThreadState object the map holds for the thread; it is    *)
(* thrown away when the thread is idle, and every operation keeps the one  *)
(* it was enqueued with.                                                   *)
(***************************************************************************)
EXTENDS Naturals, Sequences, FiniteSets

CONSTANTS
    Shared,     \* the operations submitted with runShared
    Exclusive,  \* those submitted with runExclusive
    Gate, NoGate

Op == Shared \cup Exclusive

ASSUME GateAssumption == Shared \cap Exclusive = {} /\ NoGate \notin Gate

VARIABLES
    state,      \* states.get(threadId), or NoGate
    used,       \* the gate objects created so far
    active,     \* active[g]: the operations g has started and that have not settled
    queue,      \* queue[g]
    gateOf,     \* gateOf[o]: the gate o was enqueued with
    order       \* history: the operations in the order of their submission

vars == <<state, used, active, queue, gateOf, order>>

Init ==
    /\ state = NoGate
    /\ used = {}
    /\ active = [g \in Gate |-> {}]
    /\ queue = [g \in Gate |-> <<>>]
    /\ gateOf = [o \in Op |-> NoGate]
    /\ order = <<>>

-----------------------------------------------------------------------------
(* The operations at the head of the queue that start together: one        *)
(* exclusive operation, or every shared one up to the first exclusive one. *)
IsBatch(q, n) ==
    /\ q # <<>> => n > 0
    /\ \/ n = 1 /\ q[1] \in Exclusive
       \/ /\ \A i \in 1..n : q[i] \in Shared
          /\ n < Len(q) => q[n + 1] \in Exclusive

Batch(q) == CHOOSE n \in 0..Len(q) : IsBatch(q, n)
Members(q, n) == {q[i] : i \in 1..n}

(* What is left of the queue when the first n entries have started.        *)
Rest(q, n) == SubSeq(q, n + 1, Len(q))

(* Mutant: a settled shared operation does not drain the queue.            *)
StartsForgotten(running, q) == IF running # {} \/ Len(q) > 1 THEN 0 ELSE Batch(q)
(* How many queued operations drain starts, with `running` active.         *)
Starts(running, q) == IF running # {} THEN 0 ELSE Batch(q)

(* drain, after the active operations and the queue became these.          *)
Drain(g, running, q) ==
    LET n == Starts(running, q) IN
    /\ active' = [active EXCEPT ![g] = running \cup Members(q, n)]
    /\ queue' = [queue EXCEPT ![g] = Rest(q, n)]

(* A shared operation starts at once when no exclusive one runs and        *)
(* nothing waits.                                                          *)
JoinsNow(g, o) == o \in Shared /\ active[g] \cap Exclusive = {} /\ queue[g] = <<>>

(* enqueue, for an operation that finds or creates gate g.                 *)
Submit(o, g) ==
    /\ gateOf[o] = NoGate
    /\ IF state # NoGate THEN g = state ELSE g \notin used
    /\ state' = g
    /\ used' = used \cup {g}
    /\ gateOf' = [gateOf EXCEPT ![o] = g]
    /\ order' = Append(order, o)
    /\ IF JoinsNow(g, o)
       THEN active' = [active EXCEPT ![g] = @ \cup {o}] /\ UNCHANGED queue
       ELSE Drain(g, active[g], Append(queue[g], o))

(* The map forgets the gate that has nothing left to do.                   *)
MapAfter(g, running) ==
    IF running = {} /\ queue[g] = <<>> /\ state = g THEN NoGate ELSE state

(* A started operation resolves or rejects; it no longer counts, and the   *)
(* gate is drained.                                                        *)
Settle(o, g) ==
    /\ gateOf[o] = g /\ o \in active[g]
    /\ Drain(g, active[g] \ {o}, queue[g])
    /\ state' = MapAfter(g, active[g] \ {o})
    /\ UNCHANGED <<used, gateOf, order>>

Next == \E o \in Op, g \in Gate : Submit(o, g) \/ Settle(o, g)

Spec == Init /\ [][Next]_vars

(* What a caller submits settles once it has started: the gate adds no     *)
(* deadline of its own, and a docker command that never ends blocks the    *)
(* thread's lifecycle for good.                                            *)
FairSpec == Spec /\ \A o \in Op, g \in Gate : WF_vars(Settle(o, g))

-----------------------------------------------------------------------------
Queued(o) == \E g \in Gate : \E i \in 1..Len(queue[g]) : queue[g][i] = o
Running(o) == \E g \in Gate : o \in active[g]
Settled(o) == gateOf[o] # NoGate /\ ~Queued(o) /\ ~Running(o)
Started(o) == gateOf[o] # NoGate /\ ~Queued(o)
Conflict(o, p) == o \in Exclusive \/ p \in Exclusive

(* The state is well formed: an operation is on the gate it was enqueued   *)
(* with, and either waits there once or runs (QueueEntry, ThreadState).    *)
TypeOK ==
    /\ used \subseteq Gate /\ state \in used \cup {NoGate}
    /\ active \in [Gate -> SUBSET Op] /\ queue \in [Gate -> Seq(Op)]
    /\ gateOf \in [Op -> used \cup {NoGate}] /\ order \in Seq(Op)
    /\ \A g \in Gate : \A o \in active[g] : gateOf[o] = g
    /\ \A g \in Gate : \A i \in 1..Len(queue[g]) :
          gateOf[queue[g][i]] = g /\ queue[g][i] \notin active[g]

(* An exclusive lifecycle operation runs alone on its thread, also across  *)
(* the gate objects that succeed one another in the map: nothing enters a  *)
(* container while it is removed or replaced.                              *)
ExclusiveRunsAlone ==
    \A e \in Exclusive, o \in Op : Running(e) /\ Running(o) => o = e

(* No overtaking: of two operations that may not run together, the one     *)
(* submitted second does not start before the first has settled. "Their    *)
(* queue position prevents later operations from starting."                *)
ConflictsInOrder ==
    \A i, j \in 1..Len(order) :
        i < j /\ Conflict(order[i], order[j]) /\ Started(order[j]) =>
            Settled(order[i])

(* An operation waits only behind one that runs: the drain that follows    *)
(* every settlement never leaves a queue with nobody to drain it.          *)
NobodyWaitsForNobody == \A g \in Gate : queue[g] # <<>> => active[g] # {}

(* Idle thread state is discarded, and only then: the gate in the map is   *)
(* the one that runs something, and a gate that left the map is empty.     *)
MapHoldsTheBusyGate == \A g \in Gate : state = g <=> active[g] # {}

(* The operations that have not settled, in the order of their submission. *)
Unsettled == {i \in DOMAIN order : ~Settled(order[i])}
Place(i, S) == Cardinality({j \in S : j <= i})
Unfinished ==
    [k \in 1..Cardinality(Unsettled) |->
        order[CHOOSE i \in Unsettled : Place(i, Unsettled) = k]]

(* The gate implements one fair line: what runs is what nothing earlier in *)
(* the line conflicts with, however the gate objects and their queues come *)
(* and go, and each operation that reached the head settles.               *)
Line == INSTANCE FairLine WITH line <- Unfinished
KeepsTheLine == Line!FairSpec

=============================================================================
