------------------------------ MODULE FairLine ------------------------------
(***************************************************************************)
(* What the lifecycle gate of a thread promises                            *)
(* (packages/sandbox/src/docker/thread-lifecycle.ts): operations stand in  *)
(* one line in the order of their submission, and one of them runs as soon *)
(* as everything before it in the line may run together with it.           *)
(***************************************************************************)
EXTENDS Naturals, Sequences, SequencesExt

CONSTANTS Shared, Exclusive

VARIABLE line   \* the operations submitted that have not settled

Conflict(o, p) == o \in Exclusive \/ p \in Exclusive

RunsAt(o, j) == line[j] = o /\ \A i \in 1..(j - 1) : ~Conflict(line[i], o)
Runs(o) == \E j \in DOMAIN line : RunsAt(o, j)

Init == line = <<>>

Submit(o) == ~Contains(line, o) /\ line' = Append(line, o)

Settle(o) == \E j \in DOMAIN line : RunsAt(o, j) /\ line' = RemoveAt(line, j)

Next == \E o \in Shared \cup Exclusive : Submit(o) \/ Settle(o)

Spec == Init /\ [][Next]_line

FairSpec == Spec /\ \A o \in Shared \cup Exclusive : WF_line(Settle(o))
=============================================================================
