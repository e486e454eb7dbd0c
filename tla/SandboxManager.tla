--------------------------- MODULE SandboxManager ---------------------------
(***************************************************************************)
(* SandboxManager (packages/cli/src/lib/runtime/sandbox-manager.ts), for   *)
(* one thread key: the entry that deduplicates acquires, the idle reaper,  *)
(* thread deletion and shutdown, over a provider that runs a thread's      *)
(* calls one at a time in the order they were made (KeyedGate).            *)
(*                                                                         *)
(* A caller of getForThread is a turn, or one of the subagents that run at *)
(* the same time on its sandbox. The entry object it creates has its name. *)
(***************************************************************************)
EXTENDS Naturals, Sequences

CONSTANTS
    Turn,       \* the callers of getForThread
    Reaper,     \* the reapIdle passes
    Deleter,    \* the destroyThread calls
    Nobody,     \* the map has no entry for the thread
    Leftover    \* what a failed acquire may leave running: a subset of BOOLEAN

ASSUME ManagerAssumption == Nobody \notin Turn /\ Leftover \subseteq BOOLEAN

VARIABLES
    entries,    \* the entry in the map, named by the turn that created it
    entry,      \* entry[u]: "none", "acquiring", "ready", "failed"
    turn,       \* turn[u]: "new", "waiting", "using", "ended", "failed"
    from,       \* from[u]: the entry whose handle u waits for or uses
    scan,       \* scan[r]: the entry r has in its snapshot of the map
    reaper,     \* reaper[r]: "new", "scanned", "done"
    touched,    \* touched[r]: that entry's lastUsedAt moved after the scan
    deleter,    \* deleter[d]: "new", "done"
    closed,     \* releaseAll was called
    calls,      \* the provider calls that have not completed, in order
    live,       \* the thread's compute exists
    released    \* history: the entries a removal was asked for, after their acquire

managerVars ==
    <<entries, entry, turn, from, scan, reaper, touched, deleter, closed, calls, live, released>>
reaperVars == <<scan, reaper>>

Call == [op : {"acquire"}, by : Turn] \cup [op : {"release", "destroy"}, by : {Nobody}]

InitManager ==
    /\ entries = Nobody
    /\ entry = [u \in Turn |-> "none"]
    /\ turn = [u \in Turn |-> "new"]
    /\ from = [u \in Turn |-> Nobody]
    /\ scan = [r \in Reaper |-> Nobody]
    /\ reaper = [r \in Reaper |-> "new"]
    /\ touched = [r \in Reaper |-> FALSE]
    /\ deleter = [d \in Deleter |-> "new"]
    /\ closed = FALSE
    /\ calls = <<>>
    /\ live = FALSE
    /\ released = {}

Provider(op, u) == calls' = Append(calls, [op |-> op, by |-> u])

(* The entries whose sandbox nobody has asked to remove.                   *)
Unreleased == {u \in Turn \ released : entry[u] \in {"acquiring", "ready"}}

(* A removal comes after every acquire asked for so far: it is for all of  *)
(* their sandboxes, which have the thread's name.                          *)
AskRemoval(op) ==
    /\ Provider(op, Nobody)
    /\ released' = released \cup Unreleased

(* lastUsedAt = clock(), seen by the passes that hold the entry.           *)
Touch(e) == touched' = [r \in Reaper |-> touched[r] \/ (reaper[r] = "scanned" /\ scan[r] = e)]

-----------------------------------------------------------------------------
(* getForThread: the handle at hand, the acquire that is under way, or a   *)
(* new entry and its acquire.                                              *)
Reuse(u) ==
    /\ turn[u] = "new" /\ entries # Nobody
    /\ entry[entries] = "ready"
    /\ turn' = [turn EXCEPT ![u] = "using"]
    /\ from' = [from EXCEPT ![u] = entries]
    /\ Touch(entries)
    /\ UNCHANGED <<entries, entry, reaperVars, deleter, closed, calls, live, released>>

Join(u) ==
    /\ turn[u] = "new" /\ entries # Nobody
    /\ entry[entries] = "acquiring"
    /\ turn' = [turn EXCEPT ![u] = "waiting"]
    /\ from' = [from EXCEPT ![u] = entries]
    /\ UNCHANGED <<entries, entry, reaperVars, touched, deleter, closed, calls, live, released>>

Acquire(u) ==
    /\ turn[u] = "new" /\ entries = Nobody
    /\ entries' = u
    /\ entry' = [entry EXCEPT ![u] = "acquiring"]
    /\ turn' = [turn EXCEPT ![u] = "waiting"]
    /\ from' = [from EXCEPT ![u] = u]
    /\ Provider("acquire", u)
    /\ UNCHANGED <<reaperVars, touched, deleter, closed, live, released>>

(* Mutant: the rejection reaches the turn that acquired and no other.      *)
AnswerOne(u, s) == turn' = [turn EXCEPT ![u] = s]
(* Everyone who awaits the acquiring promise of u's entry is answered.     *)
Answer(u, s) ==
    turn' = [w \in Turn |-> IF turn[w] = "waiting" /\ from[w] = u THEN s ELSE turn[w]]

Acquired(u) ==
    /\ calls # <<>> /\ Head(calls) = [op |-> "acquire", by |-> u]
    /\ calls' = Tail(calls)
    /\ live' = TRUE
    /\ entry' = [entry EXCEPT ![u] = "ready"]
    /\ Answer(u, "using")
    /\ Touch(u)
    /\ UNCHANGED <<entries, from, reaperVars, deleter, closed, released>>

(* Mutant: the entry of compute that is gone stays in the map.             *)
ForgetNothing == entries
(* The thread's key is deleted, before anything else is awaited.           *)
Forget == Nobody

(* The acquire rejects: an error, or the signal of the turn that made it.  *)
(* The thread's key leaves the map, whatever entry it holds by now.        *)
AcquireFailed(u) ==
    /\ calls # <<>> /\ Head(calls) = [op |-> "acquire", by |-> u]
    /\ calls' = Tail(calls)
    /\ live' \in Leftover
    /\ entries' = Forget
    /\ entry' = [entry EXCEPT ![u] = "failed"]
    /\ Answer(u, "failed")
    /\ UNCHANGED <<from, reaperVars, touched, deleter, closed, released>>

(* A release or a destroy completes. Where docker rm -f fails, the failure *)
(* is swallowed and the compute stays; the manager has forgotten it.       *)
Removed ==
    /\ calls # <<>> /\ Head(calls).op # "acquire"
    /\ calls' = Tail(calls)
    /\ live' = FALSE \/ UNCHANGED live
    /\ UNCHANGED <<entries, entry, turn, from, reaperVars, touched, deleter, closed, released>>

EndTurn(u) ==
    /\ turn[u] = "using"
    /\ turn' = [turn EXCEPT ![u] = "ended"]
    /\ UNCHANGED <<entries, entry, from, reaperVars, touched, deleter, closed, calls, live, released>>

-----------------------------------------------------------------------------
(* reapIdle copies the map and visits the copy; it awaits a release        *)
(* between two visits.                                                     *)
Scan(r) ==
    /\ reaper[r] = "new" /\ ~closed
    /\ entries # Nobody
    /\ scan' = [scan EXCEPT ![r] = entries]
    /\ reaper' = [reaper EXCEPT ![r] = "scanned"]
    /\ UNCHANGED <<entries, entry, turn, from, touched, deleter, closed, calls, live, released>>

(* The entry in the copy is neither acquiring nor used since the cutoff    *)
(* (which lies before the scan); how long it was idle is left open.        *)
MayReap(r) == entry[scan[r]] = "ready" /\ ~touched[r]

Visit(r) ==
    /\ reaper[r] = "scanned"
    /\ reaper' = [reaper EXCEPT ![r] = "done"]
    /\ \/ MayReap(r) /\ entries' = Forget /\ AskRemoval("release")
       \/ UNCHANGED <<entries, calls, released>>
    /\ UNCHANGED <<entry, turn, from, scan, touched, deleter, closed, live>>

DestroyThread(d) ==
    /\ deleter[d] = "new"
    /\ deleter' = [deleter EXCEPT ![d] = "done"]
    /\ entries' = Forget
    /\ AskRemoval("destroy")
    /\ UNCHANGED <<entry, turn, from, reaperVars, touched, closed, live>>

(* Mutant: the shutdown passes over an entry that is still acquiring.      *)
HoldsReady == entries # Nobody /\ entry[entries] = "ready"
Holds == entries # Nobody

ReleaseAll ==
    /\ ~closed /\ closed' = TRUE
    /\ entries' = Nobody
    /\ IF Holds THEN AskRemoval("release") ELSE UNCHANGED <<calls, released>>
    /\ UNCHANGED <<entry, turn, from, reaperVars, touched, deleter, live>>

ProviderStep == Removed \/ \E u \in Turn : Acquired(u) \/ AcquireFailed(u)

NextManager ==
    \/ \E u \in Turn : Reuse(u) \/ Join(u) \/ Acquire(u) \/ EndTurn(u)
    \/ ProviderStep
    \/ \E r \in Reaper : Scan(r) \/ Visit(r)
    \/ \E d \in Deleter : DestroyThread(d)
    \/ ReleaseAll

SpecManager == InitManager /\ [][NextManager]_managerVars

-----------------------------------------------------------------------------
(* The manager's state is well formed (Entry, SandboxManager): the entry   *)
(* in the map was created and did not fail, and a turn has an entry.       *)
ManagerTypeOK ==
    /\ entries \in Turn \cup {Nobody}
    /\ entry \in [Turn -> {"none", "acquiring", "ready", "failed"}]
    /\ turn \in [Turn -> {"new", "waiting", "using", "ended", "failed"}]
    /\ from \in [Turn -> Turn \cup {Nobody}]
    /\ scan \in [Reaper -> Turn \cup {Nobody}]
    /\ reaper \in [Reaper -> {"new", "scanned", "done"}]
    /\ touched \in [Reaper -> BOOLEAN]
    /\ deleter \in [Deleter -> {"new", "done"}]
    /\ closed \in BOOLEAN /\ live \in BOOLEAN /\ calls \in Seq(Call)
    /\ released \in SUBSET Turn
    /\ entries # Nobody => entry[entries] \in {"acquiring", "ready"}
    /\ \A r \in Reaper : reaper[r] = "scanned" => scan[r] # Nobody
    /\ \A u \in Turn : turn[u] = "new" <=> from[u] = Nobody

(* A handle served from the map is a handle on live compute: whoever       *)
(* released it, and in whatever order the provider was called, the key had *)
(* left the map first.                                                     *)
ServedHandleIsLive ==
    entries # Nobody /\ entry[entries] = "ready" => live /\ calls = <<>>

(* A turn waits only for an acquire that is still under way, so a dropped  *)
(* entry never strands the turns that joined it.                           *)
WaitersHaveACall ==
    \A u \in Turn : turn[u] = "waiting" =>
        \E i \in 1..Len(calls) : calls[i] = [op |-> "acquire", by |-> from[u]]

(* Those of them that neither the reaper nor the shutdown can find, and an *)
(* acquire that failed after the removal of its sandbox was asked for.     *)
Hidden == Unreleased \ {entries}
LateFailure == \E v \in released : entry[v] = "failed"

(* No sandbox gets out of the manager's sight without a removal asked for  *)
(* after its acquire, whatever was dropped, reaped, deleted, failed or     *)
(* shut down meanwhile, but in one kind of step: the acquire of an entry   *)
(* that had left the map rejects, and takes its successor's key.           *)
OnlyALateFailureHides ==
    [][Hidden' \subseteq Hidden
       \/ \E v \in Turn \ {entries} : entry[v] = "acquiring" /\ entry'[v] = "failed"]_managerVars

=============================================================================
