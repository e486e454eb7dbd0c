--------------------------- MODULE ThreadRuntime ---------------------------
(***************************************************************************)
(* The HTTP handlers that start, resume, cancel and delete the work of one *)
(* thread, over the state they share: the thread's row, its checkpoint,    *)
(* its run slot, its resume claim and the in-memory route map              *)
(* (packages/cli/src/lib/dev/runtime-fetch-core.ts, agui-handler.ts,       *)
(* pending-interrupts.ts, parked-route.ts, terminal-status.ts).            *)
(*                                                                         *)
(* Every map of the runtime is keyed by thread id, so one thread Tid shows *)
(* all the interaction there is.  A handler is a sequence of steps that    *)
(* ends where the code awaits: pc[q] names the await request q is at.  A   *)
(* store operation takes effect at one instant between two awaits.         *)
(***************************************************************************)
EXTENDS Naturals, Sequences

CONSTANTS
    Stream,         \* POST /threads/:id/runs/stream requests
    Wait,           \* POST /threads/:id/runs/wait requests
    Resume,         \* POST /threads/:id/resume requests
    AgUiTurn,       \* POST /agui/:route requests that start a turn
    AgUiResume,     \* POST /agui/:route requests that carry resume entries
    Cancel,         \* POST /threads/:id/cancel requests
    Delete,         \* DELETE /threads/:id requests
    Route,          \* the registered routes
    AgentRoute,     \* those of mode "agent": only they reach the checkpoint
    Tid, NoRun, NoRoute,
    MayShutdown,    \* whether the server may be closed
    MaxInterrupts,  \* bound: interrupts ever parked on the thread
    MaxFaults,      \* bound: store operations that fail
    MaxCrashes      \* bound: process crashes

AgUi == AgUiTurn \cup AgUiResume
Resuming == Resume \cup AgUiResume
Streaming == Stream \cup Resume \cup AgUi
Run == Streaming \cup Wait
Request == Run \cup Cancel \cup Delete

ASSUME RuntimeAssumption ==
    /\ NoRun \notin Run
    /\ NoRoute \notin Route
    /\ AgentRoute \subseteq Route
    /\ MayShutdown \in BOOLEAN
    /\ MaxInterrupts \in Nat /\ MaxFaults \in Nat /\ MaxCrashes \in Nat
    /\ Stream \cap Wait = {} /\ Stream \cap Resume = {} /\ Stream \cap AgUi = {}
    /\ Wait \cap Resume = {} /\ Wait \cap AgUi = {} /\ Resume \cap AgUi = {}
    /\ AgUiTurn \cap AgUiResume = {}
    /\ Run \cap Cancel = {} /\ Run \cap Delete = {} /\ Cancel \cap Delete = {}

VARIABLES
    entries, handle, threadOf, cancelled, aborted, fired, claims,
    row,          \* the thread's row in the threads store
    ckpt,         \* its latest checkpoint: does one exist, what is pending
    issued,       \* issued[i]: the route and the run that parked interrupt i
    routeMap,     \* threadRouteMap.get(Tid)
    resumeClaim,  \* the request that holds the resume claim, or NoRun
    pc,           \* where each request is
    route,        \* route[r]: the routeKey of run r
    prevParked,   \* previousParkedRoute, sampled before the slot was claimed
    sampled,      \* interrupt ids read early: interruptIdsBefore, or the snapshot resolved
    saw,          \* the runs whose handler saw an interrupt chunk (sawInterrupt)
    failed,       \* the runs on the failure path
    late,         \* settleAfterRouteUnwinds: "no", "abandoned" or "shutdown"
    exec,         \* what the route code of a run is doing
    phase,        \* the server: "open", "closing", "drained"
    faults, crashes,
    killed,       \* history: the runs a crash cut short
    raced         \* history: the runs that read the row (POST /resume: the
                  \* pending set) before a DELETE finished and had no slot
                  \* yet at its in-flight check

Registry == INSTANCE RunRegistry WITH Thread <- {Tid}, Claim <- Cancel

registryVars == <<entries, handle, threadOf, cancelled, aborted, fired, claims>>
storeVars == <<row, ckpt, issued>>
localVars == <<route, prevParked, sampled, saw, failed, late>>
historyVars == <<killed, raced>>
vars == <<registryVars, storeVars, routeMap, resumeClaim, pc, localVars, exec,
          phase, faults, crashes, historyVars>>

Slot == entries[Tid]

MissingRow == [exists |-> FALSE, status |-> "idle", parked |-> NoRoute, route |-> NoRoute]
FreshRow == [MissingRow EXCEPT !.exists = TRUE]
ParkedRow(a) == [exists |-> TRUE, status |-> "interrupted", parked |-> a, route |-> a]

(* A thread nobody has used, or one an earlier process left parked.        *)
Init ==
    /\ Registry!Init
    /\ \/ /\ row = MissingRow
          /\ ckpt = [exists |-> FALSE, pending |-> {}]
          /\ issued = <<>>
       \/ /\ MaxInterrupts > 0
          /\ \E a \in AgentRoute :
               /\ row = ParkedRow(a)
               /\ issued = <<[route |-> a, run |-> NoRun]>>
          /\ ckpt = [exists |-> TRUE, pending |-> {1}]
    /\ routeMap = NoRoute
    /\ resumeClaim = NoRun
    /\ pc = [q \in Request |-> "new"]
    /\ route = [r \in Run |-> NoRoute]
    /\ prevParked = [r \in Run |-> NoRoute]
    /\ sampled = [r \in Run |-> {}]
    /\ saw = {}
    /\ failed = {}
    /\ late = [r \in Run |-> "no"]
    /\ exec = [r \in Run |-> "none"]
    /\ phase = "open"
    /\ faults = 0
    /\ crashes = 0
    /\ killed = {}
    /\ raced = {}

-----------------------------------------------------------------------------
(* The threads store.  updateMetadata and updateStatus do nothing to a row *)
(* that is gone.                                                           *)
UpdateStatus(s) == row' = IF row.exists THEN [row EXCEPT !.status = s] ELSE row
UpdateParked(a) == row' = IF row.exists THEN [row EXCEPT !.parked = a] ELSE row
UpdateRoute(a) == row' = IF row.exists THEN [row EXCEPT !.route = a] ELSE row

(* One store operation of a handler fails.                                 *)
Fault == faults < MaxFaults /\ faults' = faults + 1

Goto(q, l) == pc' = [pc EXCEPT ![q] = l]

(* The request ends; a resume claim not yet transferred is given back.     *)
Leave(r) ==
    /\ Goto(r, "done")
    /\ resumeClaim' = IF resumeClaim = r THEN NoRun ELSE resumeClaim

-----------------------------------------------------------------------------
(* Admission.  A run names its route; a resume's is the `route` of its     *)
(* body, which is only a fallback.                                         *)
Admit(r) ==
    /\ phase = "open"
    /\ pc[r] = "new"
    /\ Goto(r, IF r \in Resuming THEN "claim"
               ELSE IF r \in AgUi THEN "read" ELSE "load")
    /\ \E a \in Route : route' = [route EXCEPT ![r] = a]
    /\ UNCHANGED <<registryVars, storeVars, routeMap, resumeClaim, prevParked, sampled,
                   saw, failed, late, exec, phase, faults, crashes, historyVars>>

(* The middleware or the thread-access gate turns the request down: no     *)
(* slot has been taken.                                                    *)
Refuse(r) ==
    /\ pc[r] \in {"claim", "load", "create", "begin"}
    /\ Leave(r)
    /\ UNCHANGED <<registryVars, storeVars, routeMap, localVars, exec, phase,
                   faults, crashes, historyVars>>

(* Mutant: a second resume does not see the claim of the first.            *)
TryClaimUnchecked(r) ==
    /\ pc[r] = "claim"
    /\ resumeClaim' = r
    /\ Goto(r, "read")
    /\ UNCHANGED <<registryVars, storeVars, routeMap, localVars, exec, phase,
                   faults, crashes, historyVars>>

(* resumeClaims.tryClaim.                                                  *)
TryClaim(r) ==
    /\ pc[r] = "claim"
    /\ IF resumeClaim = NoRun
       THEN resumeClaim' = r /\ Goto(r, "read")
       ELSE Goto(r, "done") /\ UNCHANGED resumeClaim
    /\ UNCHANGED <<registryVars, storeVars, routeMap, localVars, exec, phase,
                   faults, crashes, historyVars>>

Deleting == \E d \in Delete : pc[d] \in {"delckpt", "delrow"}

(* readPendingInterrupts and resolvePendingResume.  A resume goes on only  *)
(* with entries that name exactly the pending set, a turn only when        *)
(* nothing is pending.                                                     *)
ReadPending(r) ==
    /\ pc[r] = "read"
    /\ IF r \in Resuming <=> ckpt.pending # {}
       THEN /\ Goto(r, "load")
            /\ sampled' = [sampled EXCEPT ![r] = ckpt.pending]
            /\ raced' = IF Deleting /\ r \in Resume THEN raced \cup {r} ELSE raced
            /\ UNCHANGED resumeClaim
       ELSE Leave(r) /\ UNCHANGED <<sampled, raced>>
    /\ UNCHANGED <<registryVars, storeVars, routeMap, route, prevParked, saw, failed,
                   late, exec, phase, faults, crashes, killed>>

(* The resume entries do not match the snapshot, or a read fails.          *)
RejectResume(r) ==
    /\ pc[r] = "read"
    /\ Leave(r)
    /\ UNCHANGED <<registryVars, storeVars, routeMap, localVars, exec, phase,
                   faults, crashes, historyVars>>

(* The row is read once.  A resume takes its route from the map, then the  *)
(* metadata, then the body, and needs no row.                              *)
ResumeRoute(r) == IF routeMap # NoRoute THEN routeMap
                  ELSE IF row.route # NoRoute THEN row.route ELSE route[r]

Load(r) ==
    /\ pc[r] = "load"
    /\ prevParked' = [prevParked EXCEPT ![r] = row.parked]
    /\ Goto(r, IF row.exists \/ r \in Resume THEN "begin" ELSE "create")
    /\ route' = IF r \in Resume THEN [route EXCEPT ![r] = ResumeRoute(r)] ELSE route
    /\ raced' = IF Deleting THEN raced \cup {r} ELSE raced
    /\ UNCHANGED <<registryVars, storeVars, routeMap, resumeClaim, sampled, saw, failed,
                   late, exec, phase, faults, crashes, killed>>

(* createThread is a bare INSERT: it throws when the row is there by now.  *)
Create(r) ==
    /\ pc[r] = "create"
    /\ IF row.exists THEN Leave(r) /\ UNCHANGED row
       ELSE row' = FreshRow /\ Goto(r, "begin") /\ UNCHANGED resumeClaim
    /\ UNCHANGED <<registryVars, ckpt, issued, routeMap, localVars, exec, phase,
                   faults, crashes, historyVars>>

(* runRegistry.begin, then the next await: /runs/wait records the route in *)
(* the map and reads the pending ids, a resume writes "busy", the others   *)
(* record the route.                                                       *)
Begin(r) ==
    /\ pc[r] = "begin"
    /\ Registry!Begin(Tid, r)
    /\ routeMap' = IF r \in Wait THEN route[r] ELSE routeMap
    /\ Goto(r, IF r \in Resume THEN "busy"
               ELSE IF r \in Wait /\ route[r] \in AgentRoute THEN "sample" ELSE "mark")
    /\ UNCHANGED <<storeVars, resumeClaim, localVars, exec, phase, faults, crashes, historyVars>>

(* 409 run_in_flight.                                                      *)
BeginRefused(r) ==
    /\ pc[r] = "begin"
    /\ Slot # NoRun
    /\ Leave(r)
    /\ UNCHANGED <<registryVars, storeVars, routeMap, localVars, exec, phase,
                   faults, crashes, historyVars>>

(* /runs/wait: interruptIdsBefore.                                         *)
SampleBefore(r) ==
    /\ pc[r] = "sample"
    /\ sampled' = [sampled EXCEPT ![r] = ckpt.pending]
    /\ Goto(r, "mark")
    /\ UNCHANGED <<registryVars, storeVars, routeMap, resumeClaim, route, prevParked, saw,
                   failed, late, exec, phase, faults, crashes, historyVars>>

(* The last-run route is recorded; AG-UI records it in the metadata alone. *)
MarkRoute(r) ==
    /\ pc[r] = "mark"
    /\ UpdateRoute(route[r])
    /\ routeMap' = IF r \in AgUi THEN routeMap ELSE route[r]
    /\ Goto(r, "busy")
    /\ UNCHANGED <<registryVars, ckpt, issued, resumeClaim, localVars, exec, phase,
                   faults, crashes, historyVars>>

(* The status is written and the route code starts.                        *)
MarkBusy(r) ==
    /\ pc[r] = "busy"
    /\ UpdateStatus("busy")
    /\ Goto(r, "run")
    /\ exec' = [exec EXCEPT ![r] = "started"]
    /\ UNCHANGED <<registryVars, ckpt, issued, routeMap, resumeClaim, localVars, phase,
                   faults, crashes, historyVars>>

(* One of the reads or writes between begin and the route fails: the slot  *)
(* is released and the error propagates.                                   *)
StartFails(r) ==
    /\ pc[r] \in {"sample", "mark", "busy"}
    /\ Fault
    /\ Registry!Release(r)
    /\ Leave(r)
    /\ routeMap' = IF pc[r] = "mark" /\ r \in Stream THEN route[r] ELSE routeMap
    /\ UNCHANGED <<storeVars, localVars, exec, phase, crashes, historyVars>>

-----------------------------------------------------------------------------
(* The route code of a run: LangGraph and the user's code, outside src/.   *)
(* It has no step of the handler's in between, and goes on after the       *)
(* handler stopped listening to it.                                        *)
Executing(r) == exec[r] \in {"started", "graph", "parked"}

(* An agent graph writes its first checkpoint: what was pending against    *)
(* the older one is no longer returned.                                    *)
GraphStarts(r) ==
    /\ exec[r] = "started"
    /\ route[r] \in AgentRoute
    /\ exec' = [exec EXCEPT ![r] = "graph"]
    /\ ckpt' = [exists |-> TRUE, pending |-> {}]
    /\ UNCHANGED <<registryVars, row, issued, routeMap, resumeClaim, pc, localVars, phase,
                   faults, crashes, historyVars>>

(* A tool call needs a human: the interrupt is written durably.            *)
Park(r) ==
    /\ exec[r] = "graph"
    /\ Len(issued) < MaxInterrupts
    /\ exec' = [exec EXCEPT ![r] = "parked"]
    /\ issued' = Append(issued, [route |-> route[r], run |-> r])
    /\ ckpt' = [exists |-> TRUE, pending |-> {Len(issued) + 1}]
    /\ UNCHANGED <<registryVars, row, routeMap, resumeClaim, pc, localVars, phase,
                   faults, crashes, historyVars>>

(* The route code finishes or fails.  A generator does not go on past the  *)
(* interrupt chunk before its consumer, if it still has one, has taken it. *)
RouteEnds(r) ==
    /\ Executing(r)
    /\ exec[r] = "parked" /\ r \in Streaming /\ pc[r] = "run" => r \in saw
    /\ \/ exec' = [exec EXCEPT ![r] = "broke"]
       \/ /\ route[r] \in AgentRoute => exec[r] # "started"
          /\ exec' = [exec EXCEPT ![r] = "ended"]
    /\ UNCHANGED <<registryVars, storeVars, routeMap, resumeClaim, pc, localVars, phase,
                   faults, crashes, historyVars>>

-----------------------------------------------------------------------------
(* The handler while the route runs.                                       *)
SeeInterrupt(r) ==
    /\ pc[r] = "run"
    /\ r \in Streaming \ saw
    /\ exec[r] = "parked"
    /\ saw' = saw \cup {r}
    /\ UNCHANGED <<registryVars, storeVars, routeMap, resumeClaim, pc, route, prevParked,
                   sampled, failed, late, exec, phase, faults, crashes, historyVars>>

(* Mutant: a rejected route is never noticed.                              *)
RouteSettledOnlyOk(r) ==
    /\ pc[r] = "run"
    /\ exec[r] = "ended"
    /\ Goto(r, "settle")
    /\ UNCHANGED <<registryVars, storeVars, routeMap, resumeClaim, localVars, exec, phase,
                   faults, crashes, historyVars>>

(* The loop drained, or the route's error reached the handler.  AG-UI      *)
(* translates errors into events and has no failure path.                  *)
RouteSettled(r) ==
    /\ pc[r] = "run"
    /\ exec[r] \in {"ended", "broke"}
    /\ Goto(r, "settle")
    /\ failed' = IF exec[r] = "broke" /\ r \notin AgUi THEN failed \cup {r} ELSE failed
    /\ UNCHANGED <<registryVars, storeVars, routeMap, resumeClaim, route, prevParked,
                   sampled, saw, late, exec, phase, faults, crashes, historyVars>>

(* The abort wins its race against the route: the handler stops consuming. *)
(* Nothing stops the route.                                                *)
AbortWins(r) ==
    /\ pc[r] = "run"
    /\ r \in aborted
    /\ IF r \in Wait
       THEN /\ Goto(r, "respond")
            /\ late' = [late EXCEPT ![r] = IF r \in cancelled THEN "abandoned" ELSE "shutdown"]
            /\ UNCHANGED failed
       ELSE /\ Goto(r, "settle")
            /\ failed' = IF r \in AgUi THEN failed ELSE failed \cup {r}
            /\ UNCHANGED late
    /\ UNCHANGED <<registryVars, storeVars, routeMap, resumeClaim, route, prevParked,
                   sampled, saw, exec, phase, faults, crashes, historyVars>>

(* Mutant: the cancelled arm frees the slot as the shutdown arm does.      *)
FreesSlotAlways(r) == TRUE

(* Which of the two arms does not wait for the route to unwind.            *)
FreesSlot(r) == late[r] = "shutdown"

(* The detached arms of /runs/wait: a status write whose failure is        *)
(* swallowed, and the response.  The shutdown arm frees the slot at once.  *)
Respond(r) ==
    /\ pc[r] = "respond"
    /\ Goto(r, "detached")
    /\ \/ /\ UpdateStatus(IF late[r] = "abandoned" THEN "interrupted" ELSE "idle")
          /\ UNCHANGED faults
       \/ Fault /\ UNCHANGED row
    /\ IF FreesSlot(r) THEN Registry!Release(r) ELSE UNCHANGED registryVars
    /\ UNCHANGED <<ckpt, issued, routeMap, resumeClaim, localVars, exec, phase, crashes,
                   historyVars>>

(* resultPromise settles at last, and the deferred settle starts.          *)
Unwound(r) ==
    /\ pc[r] = "detached"
    /\ ~Executing(r)
    /\ Goto(r, "settle")
    /\ UNCHANGED <<registryVars, storeVars, routeMap, resumeClaim, localVars, exec, phase,
                   faults, crashes, historyVars>>

-----------------------------------------------------------------------------
(* settleParkedRoute.  A streaming handler knows a park from its chunk,    *)
(* /runs/wait from the difference of two checkpoint reads.                 *)
SawPark(r) == IF r \in Wait
              THEN route[r] \in AgentRoute /\ ckpt.pending \ sampled[r] # {}
              ELSE r \in saw

MayClear(r) == prevParked[r] # NoRoute /\ route[r] \in AgentRoute

Clearable(r) == MayClear(r) /\ ckpt.pending = {}

(* Mutant: the status write after the settle is skipped.                   *)
AfterSettleNoStatus(r) == "finish"

AfterSettle(r) == IF late[r] = "no" THEN "status" ELSE "finish"

Settle(r) ==
    /\ pc[r] = "settle"
    /\ Goto(r, IF SawPark(r) THEN "record"
               ELSE IF Clearable(r) THEN "clear" ELSE AfterSettle(r))
    /\ UNCHANGED <<registryVars, storeVars, routeMap, resumeClaim, localVars, exec, phase,
                   faults, crashes, historyVars>>

(* A checkpoint read of the settle fails, which is swallowed.              *)
SettleReadFails(r) ==
    /\ pc[r] = "settle"
    /\ route[r] \in AgentRoute
    /\ r \in Wait \/ (r \notin saw /\ MayClear(r))
    /\ Fault
    /\ Goto(r, AfterSettle(r))
    /\ UNCHANGED <<registryVars, storeVars, routeMap, resumeClaim, localVars, exec, phase,
                   crashes, historyVars>>

(* Mutant: no write when the sampled value already names this route.       *)
RecordParkedIfStale(r) ==
    /\ pc[r] = "record"
    /\ IF prevParked[r] = route[r] THEN UNCHANGED row ELSE UpdateParked(route[r])
    /\ Goto(r, AfterSettle(r))
    /\ UNCHANGED <<registryVars, ckpt, issued, routeMap, resumeClaim, localVars, exec,
                   phase, faults, crashes, historyVars>>

RecordParked(r) ==
    /\ pc[r] = "record"
    /\ UpdateParked(route[r])
    /\ Goto(r, AfterSettle(r))
    /\ UNCHANGED <<registryVars, ckpt, issued, routeMap, resumeClaim, localVars, exec,
                   phase, faults, crashes, historyVars>>

ClearParked(r) ==
    /\ pc[r] = "clear"
    /\ UpdateParked(NoRoute)
    /\ Goto(r, AfterSettle(r))
    /\ UNCHANGED <<registryVars, ckpt, issued, routeMap, resumeClaim, localVars, exec,
                   phase, faults, crashes, historyVars>>

(* terminalStatus, and the status of each arm of /runs/wait.               *)
TerminalStatus(r) ==
    CASE r \in Wait -> IF r \in failed /\ r \in cancelled THEN "interrupted" ELSE "idle"
      [] r \in AgUi -> IF r \in saw THEN "interrupted" ELSE "idle"
      [] OTHER -> IF r \in saw \/ (r \in failed /\ r \in cancelled)
                  THEN "interrupted" ELSE "idle"

WriteStatus(r) ==
    /\ pc[r] = "status"
    /\ UpdateStatus(TerminalStatus(r))
    /\ Goto(r, "finish")
    /\ UNCHANGED <<registryVars, ckpt, issued, routeMap, resumeClaim, localVars, exec,
                   phase, faults, crashes, historyVars>>

(* A write of the settle or the status write fails.  On the success path   *)
(* of a streaming handler the error lands in its catch, which settles and  *)
(* writes again; everywhere else, and for the clear, it is swallowed.      *)
Retries(r) == r \in (Stream \cup Resume) \ failed

SettleWriteFails(r) ==
    /\ pc[r] \in {"record", "clear", "status"}
    /\ Fault
    /\ IF Retries(r) /\ pc[r] # "clear"
       THEN Goto(r, "settle") /\ failed' = failed \cup {r}
       ELSE /\ Goto(r, IF pc[r] = "status" THEN "finish" ELSE AfterSettle(r))
            /\ UNCHANGED failed
    /\ UNCHANGED <<registryVars, storeVars, routeMap, resumeClaim, route, prevParked,
                   sampled, saw, late, exec, phase, crashes, historyVars>>

(* Mutant: the slot is never held for a route that is still unwinding.     *)
DeferredNever(r) == FALSE

(* The finally of each handler: release the slot and the resume claim now, *)
(* or once the route has unwound.                                          *)
Deferred(r) == /\ Executing(r)
               /\ r \in AgUi \/ (r \in Stream \cup Resume /\ r \in cancelled)

(* Mutant: the resume claim is not given back with the slot.               *)
ReleaseSlotOnly(r) ==
    /\ IF handle[r] = "held" THEN Registry!Release(r) ELSE UNCHANGED registryVars
    /\ Goto(r, "done")
    /\ UNCHANGED resumeClaim

ReleaseClaims(r) ==
    /\ IF handle[r] = "held" THEN Registry!Release(r) ELSE UNCHANGED registryVars
    /\ Leave(r)

Finish(r) ==
    /\ pc[r] = "finish"
    /\ IF Deferred(r)
       THEN Goto(r, "held") /\ UNCHANGED <<registryVars, resumeClaim>>
       ELSE ReleaseClaims(r)
    /\ UNCHANGED <<storeVars, routeMap, localVars, exec, phase, faults, crashes,
                   historyVars>>

(* Mutant: a deferred release waits for the route's result.                *)
ReleaseDeferredOnResult(r) ==
    /\ pc[r] = "held"
    /\ exec[r] = "ended"
    /\ ReleaseClaims(r)
    /\ UNCHANGED <<storeVars, routeMap, localVars, exec, phase, faults, crashes,
                   historyVars>>

ReleaseDeferred(r) ==
    /\ pc[r] = "held"
    /\ ~Executing(r)
    /\ ReleaseClaims(r)
    /\ UNCHANGED <<storeVars, routeMap, localVars, exec, phase, faults, crashes,
                   historyVars>>

-----------------------------------------------------------------------------
(* POST /cancel: the claim is its first statement, the cancel comes after  *)
(* the awaited authorization.                                              *)
CancelRequest(c) ==
    /\ phase = "open"
    /\ pc[c] = "new"
    /\ Registry!TakeClaim(c, Tid)
    /\ Goto(c, "authorize")
    /\ UNCHANGED <<storeVars, routeMap, resumeClaim, localVars, exec, phase, faults,
                   crashes, historyVars>>

CancelRun(c) ==
    /\ pc[c] = "authorize"
    /\ Registry!CancelClaim(c)
    /\ Goto(c, "done")
    /\ UNCHANGED <<storeVars, routeMap, resumeClaim, localVars, exec, phase, faults,
                   crashes, historyVars>>

(* Refused, or a stale claim: 403, 404 or 409 no_run_in_flight.            *)
CancelNothing(c) ==
    /\ pc[c] = "authorize"
    /\ Goto(c, "done")
    /\ UNCHANGED <<registryVars, storeVars, routeMap, resumeClaim, localVars, exec, phase,
                   faults, crashes, historyVars>>

(* DELETE: the in-flight check, then the checkpoints, then the row.        *)
DeleteRequest(d) ==
    /\ phase = "open"
    /\ pc[d] = "new"
    /\ Goto(d, IF Slot # NoRun THEN "done" ELSE "delckpt")
    /\ raced' = IF Slot # NoRun THEN raced
                ELSE raced \cup {r \in Run : pc[r] \in {"create", "begin"}}
                           \cup {r \in Resume : pc[r] = "load"}
    /\ UNCHANGED <<registryVars, storeVars, routeMap, resumeClaim, localVars, exec, phase,
                   faults, crashes, killed>>

(* Mutant: the row goes before the checkpoints.                            *)
DeleteRowFirst(d) ==
    /\ pc[d] = "delckpt"
    /\ row' = MissingRow
    /\ Goto(d, "delrow")
    /\ UNCHANGED <<registryVars, ckpt, issued, routeMap, resumeClaim, localVars, exec,
                   phase, faults, crashes, historyVars>>

DeleteCheckpoints(d) ==
    /\ pc[d] = "delckpt"
    /\ ckpt' = [exists |-> FALSE, pending |-> {}]
    /\ Goto(d, "delrow")
    /\ UNCHANGED <<registryVars, row, issued, routeMap, resumeClaim, localVars, exec,
                   phase, faults, crashes, historyVars>>

DeleteRow(d) ==
    /\ pc[d] = "delrow"
    /\ row' = MissingRow
    /\ Goto(d, "done")
    /\ UNCHANGED <<registryVars, ckpt, issued, routeMap, resumeClaim, localVars, exec,
                   phase, faults, crashes, historyVars>>

DeleteFails(d) ==
    /\ pc[d] \in {"delckpt", "delrow"}
    /\ Fault
    /\ Goto(d, "done")
    /\ UNCHANGED <<registryVars, storeVars, routeMap, resumeClaim, localVars, exec, phase,
                   crashes, historyVars>>

-----------------------------------------------------------------------------
(* The client of an AG-UI request goes away: its own controller aborts.    *)
(* The other endpoints do not react to a disconnect.                       *)
Disconnect(r) ==
    /\ pc[r] \notin {"new", "done"}
    /\ r \in AgUi \ fired
    /\ Registry!SourceAbort({r})
    /\ UNCHANGED <<storeVars, routeMap, resumeClaim, pc, localVars, exec, phase, faults,
                   crashes, historyVars>>

(* close(): no request is admitted any more, and every signal aborts.      *)
Shutdown ==
    /\ MayShutdown
    /\ phase = "open"
    /\ phase' = "closing"
    /\ Registry!SourceAbort(Run)
    /\ UNCHANGED <<storeVars, routeMap, resumeClaim, pc, localVars, exec, faults, crashes,
                   historyVars>>

(* The response of a request has been sent, or it was never admitted.      *)
Answered(q) == \/ pc[q] \in {"new", "held", "done"}
               \/ q \in Wait /\ late[q] # "no" /\ pc[q] # "respond"

(* The drain ends when no response and no run slot is left; the sandboxes  *)
(* are released.  (The deadline that ends it regardless is not taken.)     *)
Drained ==
    /\ phase = "closing"
    /\ \A q \in Request : Answered(q)
    /\ Slot = NoRun
    /\ phase' = "drained"
    /\ UNCHANGED <<registryVars, storeVars, routeMap, resumeClaim, pc, localVars, exec,
                   faults, crashes, historyVars>>

(* The process dies and starts anew: what is in memory is gone, the row    *)
(* and the checkpoint stay.                                                *)
Crash ==
    /\ phase = "open"
    /\ crashes < MaxCrashes
    /\ crashes' = crashes + 1
    /\ killed' = killed \cup {r \in Run : pc[r] \notin {"new", "done"}}
    /\ pc' = [q \in Request |-> IF pc[q] = "new" THEN "new" ELSE "done"]
    /\ exec' = [r \in Run |-> IF Executing(r) THEN "broke" ELSE exec[r]]
    /\ entries' = [t \in {Tid} |-> NoRun]
    /\ handle' = [r \in Run |-> IF handle[r] = "held" THEN "released" ELSE handle[r]]
    /\ routeMap' = NoRoute
    /\ resumeClaim' = NoRun
    /\ UNCHANGED <<threadOf, cancelled, aborted, fired, claims, storeVars, localVars,
                   phase, faults, raced>>

-----------------------------------------------------------------------------
StartStep(r) == \/ Admit(r) \/ Refuse(r) \/ TryClaim(r) \/ ReadPending(r)
                \/ RejectResume(r) \/ Load(r) \/ Create(r) \/ Begin(r) \/ BeginRefused(r)
                \/ SampleBefore(r) \/ MarkRoute(r) \/ MarkBusy(r) \/ StartFails(r)

RunStep(r) == \/ SeeInterrupt(r) \/ RouteSettled(r) \/ AbortWins(r) \/ Respond(r)
              \/ Unwound(r) \/ Settle(r) \/ SettleReadFails(r) \/ RecordParked(r)
              \/ ClearParked(r) \/ WriteStatus(r) \/ SettleWriteFails(r) \/ Finish(r)
              \/ ReleaseDeferred(r)

RouteStep(r) == GraphStarts(r) \/ Park(r) \/ RouteEnds(r)

CancelStep(c) == CancelRequest(c) \/ CancelRun(c) \/ CancelNothing(c)

DeleteStep(d) == DeleteRequest(d) \/ DeleteCheckpoints(d) \/ DeleteRow(d) \/ DeleteFails(d)

Next == \/ \E r \in Run : StartStep(r) \/ RunStep(r) \/ RouteStep(r) \/ Disconnect(r)
        \/ \E c \in Cancel : CancelStep(c)
        \/ \E d \in Delete : DeleteStep(d)
        \/ Shutdown \/ Drained \/ Crash

(* The event loop takes every step of a handler that can be taken.  A      *)
(* client need not send its request, and a handler that has not been sent  *)
(* one is not obliged to admit it.                                         *)
StartRun(r) == pc[r] # "new" /\ StartStep(r)
Cancels(c) == pc[c] # "new" /\ CancelStep(c)
Deletes(d) == pc[d] # "new" /\ DeleteStep(d)

RunFair(r) == WF_vars(StartRun(r)) /\ WF_vars(RunStep(r))
CancelFair(c) == WF_vars(Cancels(c))
DeleteFair(d) == WF_vars(Deletes(d))

HandlerFairness ==
    /\ \A r \in Run : RunFair(r)
    /\ \A c \in Cancel : CancelFair(c)
    /\ \A d \in Delete : DeleteFair(d)

(* The route code of a run terminates: an assumption about code outside    *)
(* src/ (an agent's tools and its model).                                  *)
RouteFair(r) == WF_vars(RouteEnds(r))
RouteFairness == \A r \in Run : RouteFair(r)

Spec == Init /\ [][Next]_vars
FairSpec == Spec /\ HandlerFairness /\ RouteFairness

-----------------------------------------------------------------------------
Locations == {"new", "claim", "read", "load", "create", "begin", "sample", "mark", "busy",
              "run", "respond", "detached", "settle", "record", "clear", "status",
              "finish", "held", "done"}

(* Every component of the state has its type.                              *)
TypeOK ==
    /\ Registry!TypeOK
    /\ row \in [exists : BOOLEAN, status : {"idle", "busy", "interrupted"},
                parked : Route \cup {NoRoute}, route : Route \cup {NoRoute}]
    /\ ckpt \in [exists : BOOLEAN, pending : SUBSET (1..Len(issued))]
    /\ issued \in Seq([route : Route, run : Run \cup {NoRun}])
    /\ routeMap \in Route \cup {NoRoute}
    /\ resumeClaim \in Resuming \cup {NoRun}
    /\ pc \in [Request -> Locations \cup {"authorize", "delckpt", "delrow"}]
    /\ route \in [Run -> Route \cup {NoRoute}]
    /\ prevParked \in [Run -> Route \cup {NoRoute}]
    /\ sampled \in [Run -> SUBSET Nat]
    /\ saw \subseteq Streaming
    /\ failed \subseteq Run
    /\ late \in [Run -> {"no", "abandoned", "shutdown"}]
    /\ exec \in [Run -> {"none", "started", "graph", "parked", "ended", "broke"}]
    /\ phase \in {"open", "closing", "drained"}
    /\ faults \in 0..MaxFaults
    /\ crashes \in 0..MaxCrashes
    /\ killed \subseteq Run
    /\ raced \subseteq Run

(* A run is past its begin and has not given its slot back.                *)
Occupies(r) == pc[r] \in {"sample", "mark", "busy", "run", "respond", "detached", "settle",
                          "record", "clear", "status", "finish", "held"}
               /\ ~(late[r] = "shutdown" /\ pc[r] # "respond")

(* The slot names exactly the run whose handler, or whose detached route,  *)
(* still needs it: no path through the handlers, failing or not, leaks the *)
(* slot or gives it up early.                                              *)
SlotMatchesHandlers == \A r \in Run : Slot = r <=> Occupies(r)

(* Two routes of one thread never execute at once, whatever is cancelled,  *)
(* disconnected, abandoned or crashed: a route that outlives its response  *)
(* keeps the slot.  Only a shutdown gives a slot up early.                 *)
OneRouteExecuting ==
    phase = "open" => \A r, s \in Run : Executing(r) /\ Executing(s) => r = s

(* The slot covers route execution even while the server closes, unless    *)
(* the shutdown aborted the run: a stream or a resume nobody cancelled, or *)
(* a wait that had taken its shutdown arm when a cancel came.              *)
SlotCoversExecution ==
    \A r \in Run : Executing(r) =>
        \/ Slot = r
        \/ /\ phase # "open"
           /\ r \in fired \ AgUi
           /\ r \in cancelled => late[r] = "shutdown"

(* Two resumes never work on one pending snapshot: from the claim until    *)
(* the resumed route has unwound the claim stays with one request.         *)
ResumesSerialized ==
    \A r \in Resuming :
        pc[r] \notin {"new", "claim", "done"} => resumeClaim = r

(* At rest the row does not say "busy", unless a write of it failed or the *)
(* run that wrote it died with its process.                                *)
NeverStuckBusy ==
    Slot = NoRun /\ row.exists /\ row.status = "busy" => faults > 0 \/ killed # {}

(* The settles of run r are over.                                          *)
Settled(r) == pc[r] \in {"status", "finish", "held", "done"}

(* A prompt whose turn saw it (an interrupt chunk, or the checkpoint diff  *)
(* of /runs/wait) is gated on the route that parked it, at every moment    *)
(* after the turn settled, whatever other turns ran since: the gate of     *)
(* GET /pending_interrupts cannot be repointed by a cheaper run.  (While    *)
(* the server closes a wait that gave its slot up may settle after another *)
(* run.)                                                                   *)
ParkRecorded ==
    phase = "open" => \A i \in ckpt.pending : LET r == issued[i].run IN
        \/ row.parked = issued[i].route
        \/ r \in Run /\ (~Settled(r) \/ r \in killed \/ (r \in Streaming \ saw))
        \/ faults > 0
        \/ \E s \in raced : handle[s] # "new"
        \/ ~row.exists

(* Losing the row never strands a prompt behind a thread that answers 404  *)
(* (the order of DELETE's two deletions), unless some run got past the     *)
(* in-flight check.                                                        *)
NoStrandedPrompt ==
    ~row.exists /\ ckpt.pending # {} => \E r \in raced : handle[r] # "new"

(* A claim taken when a cancel arrives and used after its awaits stops a   *)
(* run only while that run holds the slot, not one that has been released  *)
(* since, and not a successor.                                             *)
CancelHitsHolder ==
    [][\A r \in cancelled' \ cancelled : handle[r] = "held" /\ Slot = r]_registryVars

(* A cancel never stops a run its caller did not observe: only a run some  *)
(* cancel request was bound to on arrival is ever cancelled.               *)
CancelOnlyObserved == \A r \in cancelled : \E c \in Cancel : claims[c] = r

(* Where a handler has not started its route yet.                          *)
StartPlaces == {"claim", "read", "load", "create", "begin", "sample", "mark", "busy"}

(* The handler, its response or its deferred release waits for the route.  *)
WaitsForRoute(r) ==
    /\ Executing(r)
    /\ \/ pc[r] \in {"detached", "held"}
       \/ pc[r] = "run" /\ ~(exec[r] = "parked" /\ r \in Streaming \ saw)

(* No handler is stuck at an await: whatever the others did and whatever   *)
(* failed, it has a next step, or waits for a route that can end.          *)
NobodyIsStuck ==
    /\ \A r \in Run :
         /\ pc[r] \in StartPlaces => ENABLED <<StartRun(r)>>_vars
         /\ WaitsForRoute(r) => ENABLED <<RouteEnds(r)>>_vars
         /\ pc[r] \notin StartPlaces \cup {"new", "done"} /\ ~WaitsForRoute(r) =>
              ENABLED <<RunStep(r)>>_vars
    /\ \A c \in Cancel : pc[c] \notin {"new", "done"} => ENABLED <<Cancels(c)>>_vars
    /\ \A d \in Delete : pc[d] \notin {"new", "done"} => ENABLED <<Deletes(d)>>_vars

(* Every admitted request is answered.                                     *)
EveryRequestAnswered == \A q \in Request : pc[q] # "new" ~> Answered(q)

(* Whoever has the slot or the resume claim gives both back, also when its *)
(* response ended long before its route.                                   *)
HoldersLetGo ==
    \A r \in Run : Slot = r \/ resumeClaim = r ~> Slot # r /\ resumeClaim # r

-----------------------------------------------------------------------------
(* Refinement: the run whose route executes has the turn.                  *)
Turns == INSTANCE ThreadTurns WITH
           turn <- IF \E r \in Run : Executing(r)
                   THEN CHOOSE r \in Run : Executing(r) ELSE NoRun,
           started <- {r \in Run : exec[r] # "none"}

(* The handlers of a server that is not being closed implement ThreadTurns:*)
(* routes take turns, and each turn ends.                                  *)
TakesTurns == Turns!Spec

-----------------------------------------------------------------------------
(* What comments and docs say that the handlers do not do.                 *)

(* runtime-fetch-core.ts:2542: the row and the payload of a thread go      *)
(* together; a DELETE cannot leave a prompt behind without its row.        *)
RowAndPromptGoTogether == ~row.exists => ckpt.pending = {}

=============================================================================
