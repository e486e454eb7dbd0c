-------------------------- MODULE RequestLifetime --------------------------
(***************************************************************************)
(* What one request keeps alive, and how the handler shuts down            *)
(* (packages/cli/src/lib/dev/runtime-fetch-core.ts): the in-flight count,  *)
(* the stores built for a request, the runs that outlive its response, the *)
(* shutdown signal of each request, and close() with its bounded drain.    *)
(*                                                                         *)
(* The registry is seen through its counter: whether a thread is free to   *)
(* run is the subject of RunRegistry and ThreadRuntime.                    *)
(***************************************************************************)
EXTENDS Naturals, FiniteSets

CONSTANTS
    Request,    \* the requests
    Run,        \* the runs their handlers begin
    Closer,     \* the calls of close()
    NoRequest

ASSUME LifetimeAssumption ==
    IsFiniteSet(Request) /\ IsFiniteSet(Run) /\ NoRequest \notin Request

VARIABLES
    closed,     \* state.closed, shutdownReason; acceptingRequests is its negation
    active,     \* state.activeRequests
    req,        \* req[q]: "new", "stores", "dispatch", "streaming", "settled", "done"
    lifetime,   \* lifetime[q]: the record in perRequest
    liveCtls,   \* liveShutdownControllers, named by their requests
    disposal,   \* disposal[q]: "none", "running" (in pendingDisposals), "done"
    owner,      \* owner[w]: the request that began w
    held,       \* the runs that hold their slot: activeCount() counts them
    executing,  \* the runs whose route work has not ended
    aborted,    \* the runs whose shutdown signal fired
    closer,     \* closer[c]: "new", "draining", "releasing", "returned"
    first,      \* the closer that drains, once there is one
    timedOut    \* the drain gave up at its deadline

vars == <<closed, active, req, lifetime, liveCtls, disposal, owner, held,
          executing, aborted, closer, first, timedOut>>
runVars == <<owner, held, executing, aborted>>
closeVars == <<closed, closer, first, timedOut>>

NoLifetime == [built |-> FALSE, bodySettled |-> FALSE, pendingRuns |-> 0,
               settled |-> FALSE, ctl |-> "none"]

Init ==
    /\ closed = FALSE /\ active = 0
    /\ req = [q \in Request |-> "new"]
    /\ lifetime = [q \in Request |-> NoLifetime]
    /\ liveCtls = {}
    /\ disposal = [q \in Request |-> "none"]
    /\ owner = [w \in Run |-> NoRequest]
    /\ held = {} /\ executing = {} /\ aborted = {}
    /\ closer = [c \in Closer |-> "new"]
    /\ first = {} /\ timedOut = FALSE

-----------------------------------------------------------------------------
(* Mutant: disposal looks at the response only.                            *)
EndedWithBody(l) == l.bodySettled
(* Both lifetimes of a request ended.                                      *)
Ended(l) == l.bodySettled /\ l.pendingRuns = 0

CtlsAfter(q) == liveCtls \ {q}

(* lifetime[q] becomes l, and maybeSettle runs: once both have ended, the  *)
(* controller is dropped and the stores are disposed.                      *)
MaybeSettle(q, l) ==
    IF Ended(l) /\ ~l.settled
    THEN /\ lifetime' = [lifetime EXCEPT ![q] = [l EXCEPT !.settled = TRUE]]
         /\ liveCtls' = CtlsAfter(q)
         /\ disposal' = [disposal EXCEPT ![q] = "running"]
    ELSE /\ lifetime' = [lifetime EXCEPT ![q] = l]
         /\ UNCHANGED <<liveCtls, disposal>>

SettleBody(q) == MaybeSettle(q, [lifetime[q] EXCEPT !.bodySettled = TRUE])

-----------------------------------------------------------------------------
(* serveRoutes takes the in-flight slot before it builds anything.         *)
Arrive(q) ==
    /\ req[q] = "new" /\ ~closed
    /\ active' = active + 1
    /\ req' = [req EXCEPT ![q] = "stores"]
    /\ UNCHANGED <<lifetime, liveCtls, disposal, runVars, closeVars>>

(* The store factory throws: there is no lifetime to settle.               *)
StoresFail(q) ==
    /\ req[q] = "stores"
    /\ active' = active - 1
    /\ req' = [req EXCEPT ![q] = "done"]
    /\ UNCHANGED <<lifetime, liveCtls, disposal, runVars, closeVars>>

StoresReady(q) ==
    /\ req[q] = "stores"
    /\ req' = [req EXCEPT ![q] = "dispatch"]
    /\ lifetime' = [lifetime EXCEPT ![q].built = TRUE]
    /\ UNCHANGED <<active, liveCtls, disposal, runVars, closeVars>>

(* Mutant: a controller made after the shutdown is not aborted.            *)
FreshCtlLive == "live"
(* getShutdownSignal mints a controller, aborted when the handler closes.  *)
FreshCtl == IF closed THEN "aborted" ELSE "live"

Signal(q) == IF lifetime[q].ctl = "none" THEN FreshCtl ELSE lifetime[q].ctl
RegistersCtl(q) == lifetime[q].ctl = "none" /\ FreshCtl = "live"

(* The request's registry wrapper begins a run under the request's signal. *)
Begin(w, q) ==
    /\ req[q] = "dispatch" /\ owner[w] = NoRequest
    /\ lifetime' = [lifetime EXCEPT ![q].pendingRuns = @ + 1, ![q].ctl = Signal(q)]
    /\ liveCtls' = IF RegistersCtl(q) THEN liveCtls \cup {q} ELSE liveCtls
    /\ owner' = [owner EXCEPT ![w] = q]
    /\ held' = held \cup {w}
    /\ executing' = executing \cup {w}
    /\ aborted' = IF Signal(q) = "aborted" THEN aborted \cup {w} ELSE aborted
    /\ UNCHANGED <<active, req, disposal, closeVars>>

(* The thread is busy: the signal was made, no run begins.                 *)
BeginRefused(q) ==
    /\ req[q] = "dispatch"
    /\ lifetime' = [lifetime EXCEPT ![q].ctl = Signal(q)]
    /\ liveCtls' = IF RegistersCtl(q) THEN liveCtls \cup {q} ELSE liveCtls
    /\ UNCHANGED <<active, req, disposal, runVars, closeVars>>

RouteEnds(w) ==
    /\ w \in executing
    /\ executing' = executing \ {w}
    /\ UNCHANGED <<active, req, lifetime, liveCtls, disposal, owner, held, aborted, closeVars>>

(* A handler releases a run when its route work has ended; a stream that   *)
(* the shutdown aborted releases before that.                              *)
MayRelease(w) == w \in held /\ (w \in executing => w \in aborted)

(* Mutant: only the body asks whether the request has ended.               *)
ReleaseUnsettled(w) ==
    /\ MayRelease(w)
    /\ held' = held \ {w}
    /\ lifetime' = [lifetime EXCEPT ![owner[w]].pendingRuns = @ - 1]
    /\ UNCHANGED <<active, req, liveCtls, disposal, owner, executing, aborted, closeVars>>

Release(w) ==
    /\ MayRelease(w)
    /\ held' = held \ {w}
    /\ LET q == owner[w] IN
       MaybeSettle(q, [lifetime[q] EXCEPT !.pendingRuns = @ - 1])
    /\ UNCHANGED <<active, req, owner, executing, aborted, closeVars>>

(* The handler answers, or throws and is answered for.                     *)
Respond(q) ==
    /\ req[q] = "dispatch"
    /\ active' = active - 1
    /\ req' = [req EXCEPT ![q] = "done"]
    /\ SettleBody(q)
    /\ UNCHANGED <<runVars, closeVars>>

(* Mutant: the finally gives the slot back although the stream keeps it.   *)
RespondStreamUncounted(q) ==
    /\ req[q] = "dispatch"
    /\ active' = active - 1
    /\ req' = [req EXCEPT ![q] = "streaming"]
    /\ UNCHANGED <<lifetime, liveCtls, disposal, runVars, closeVars>>

(* An SSE response keeps the slot until its body settles.                  *)
RespondStream(q) ==
    /\ req[q] = "dispatch"
    /\ req' = [req EXCEPT ![q] = "streaming"]
    /\ UNCHANGED <<active, lifetime, liveCtls, disposal, runVars, closeVars>>

StreamSettles(q) ==
    /\ req[q] = "streaming"
    /\ active' = active - 1
    /\ req' = [req EXCEPT ![q] = "settled"]
    /\ SettleBody(q)
    /\ UNCHANGED <<runVars, closeVars>>

ActiveAfterSettle == active

(* A cancel that meets a pull in flight settles the stream a second time.  *)
StreamSettlesAgain(q) ==
    /\ req[q] = "settled"
    /\ req' = [req EXCEPT ![q] = "done"]
    /\ active' = ActiveAfterSettle
    /\ UNCHANGED <<lifetime, liveCtls, disposal, runVars, closeVars>>

Disposed(q) ==
    /\ disposal[q] = "running"
    /\ disposal' = [disposal EXCEPT ![q] = "done"]
    /\ UNCHANGED <<active, req, lifetime, liveCtls, runVars, closeVars>>

-----------------------------------------------------------------------------
(* close() aborts every registered controller and clears the set.          *)
Close(c) ==
    /\ closer[c] = "new" /\ ~closed
    /\ closed' = TRUE
    /\ closer' = [closer EXCEPT ![c] = "draining"]
    /\ first' = {c}
    /\ lifetime' = [q \in Request |->
          IF q \in liveCtls THEN [lifetime[q] EXCEPT !.ctl = "aborted"] ELSE lifetime[q]]
    /\ aborted' = aborted \cup {w \in held : owner[w] \in liveCtls}
    /\ liveCtls' = {}
    /\ UNCHANGED <<active, req, disposal, owner, held, executing, timedOut>>

CloseAgain(c) ==
    /\ closer[c] = "new" /\ closed
    /\ closer' = [closer EXCEPT ![c] = "returned"]
    /\ UNCHANGED <<active, req, lifetime, liveCtls, disposal, runVars, closed, first, timedOut>>

(* No response, no run and no disposal is under way.                       *)
Drained == active = 0 /\ held = {} /\ \A q \in Request : disposal[q] # "running"

(* Mutant: the drain has no deadline.                                      *)
DrainForever(c) ==
    /\ closer[c] = "draining" /\ Drained
    /\ closer' = [closer EXCEPT ![c] = "releasing"]
    /\ UNCHANGED <<active, req, lifetime, liveCtls, disposal, runVars, closed, first, timedOut>>

Drain(c) ==
    /\ closer[c] = "draining"
    /\ (Drained /\ UNCHANGED timedOut) \/ timedOut' = TRUE
    /\ closer' = [closer EXCEPT ![c] = "releasing"]
    /\ UNCHANGED <<active, req, lifetime, liveCtls, disposal, runVars, closed, first>>

(* releaseAll() completes.                                                 *)
SandboxesReleased(c) ==
    /\ closer[c] = "releasing"
    /\ closer' = [closer EXCEPT ![c] = "returned"]
    /\ UNCHANGED <<active, req, lifetime, liveCtls, disposal, runVars, closed, first, timedOut>>

Next ==
    \/ \E q \in Request :
          \/ Arrive(q) \/ StoresFail(q) \/ StoresReady(q) \/ BeginRefused(q)
          \/ Respond(q) \/ RespondStream(q) \/ StreamSettles(q) \/ StreamSettlesAgain(q)
          \/ Disposed(q) \/ \E w \in Run : Begin(w, q)
    \/ \E w \in Run : RouteEnds(w) \/ Release(w)
    \/ \E c \in Closer : Close(c) \/ CloseAgain(c) \/ Drain(c) \/ SandboxesReleased(c)

Spec == Init /\ [][Next]_vars

(* What a request and its runs do in the end: store factories answer,      *)
(* handlers answer, bodies are read or dropped, routes end, slots are      *)
(* released, disposals complete.                                           *)
HandlersRun ==
    /\ \A q \in Request :
          /\ WF_vars(StoresFail(q) \/ StoresReady(q))
          /\ WF_vars(Respond(q) \/ RespondStream(q))
          /\ WF_vars(StreamSettles(q)) /\ WF_vars(Disposed(q))
    /\ \A w \in Run : WF_vars(RouteEnds(w)) /\ WF_vars(Release(w))

(* Only the closer's own timers run: nothing else ever has to end.         *)
TimerSpec ==
    Spec /\ \A c \in Closer : WF_vars(Drain(c)) /\ WF_vars(SandboxesReleased(c))

-----------------------------------------------------------------------------
InFlight == {q \in Request : req[q] \in {"stores", "dispatch", "streaming"}}
RunsOf(q) == {w \in held : owner[w] = q}
Quiet == InFlight = {} /\ held = {} /\ \A q \in Request : disposal[q] # "running"

(* The state is well formed (RequestLifetime, RuntimeFetchHandler.state).  *)
TypeOK ==
    /\ closed \in BOOLEAN /\ timedOut \in BOOLEAN /\ active \in Nat
    /\ req \in [Request -> {"new", "stores", "dispatch", "streaming", "settled", "done"}]
    /\ lifetime \in [Request -> [built : BOOLEAN, bodySettled : BOOLEAN, settled : BOOLEAN,
                                 pendingRuns : Nat, ctl : {"none", "live", "aborted"}]]
    /\ liveCtls \subseteq Request
    /\ disposal \in [Request -> {"none", "running", "done"}]
    /\ owner \in [Run -> Request \cup {NoRequest}]
    /\ held \subseteq Run /\ executing \subseteq Run /\ aborted \subseteq Run
    /\ closer \in [Closer -> {"new", "draining", "releasing", "returned"}]
    /\ first \subseteq Closer

(* The two counters close() drains on are exact, whatever order bodies     *)
(* settle, streams settle twice and runs are released in.                  *)
CountersAreExact ==
    /\ active = Cardinality(InFlight)
    /\ \A q \in Request : lifetime[q].pendingRuns = Cardinality(RunsOf(q))

(* A request's stores outlive everything that can still use them: its      *)
(* body, its slots, and its route work (but for a run that the shutdown    *)
(* aborted, whose handler gave its slot back early).                       *)
StoresOutliveTheirUsers ==
    \A q \in Request : disposal[q] # "none" =>
        /\ req[q] \in {"settled", "done"}
        /\ RunsOf(q) = {}
        /\ \A w \in executing : owner[w] = q => w \in aborted

(* No run escapes the shutdown: whatever still holds a slot once close()   *)
(* was called has an aborted signal, also when its request was admitted    *)
(* before and began it after.                                              *)
ShutdownReachesEveryRun == closed => held \subseteq aborted

(* The set of live controllers does not grow with the requests served: it  *)
(* holds the live controllers of the requests that have not ended.         *)
LiveControllersExact ==
    liveCtls = {q \in Request : lifetime[q].ctl = "live" /\ ~lifetime[q].settled}

(* "close() returned" implies that every per-request pool is closed and    *)
(* nothing runs, and that it stays so, unless the drain met its deadline.  *)
FirstCloseLeavesQuiet ==
    \A c \in first : closer[c] # "draining" /\ ~timedOut => Quiet

(* The stores of every request are disposed in the end, whichever of its   *)
(* body and its runs ends last, provided that each of them ends.           *)
StoresAreDisposed ==
    HandlersRun => \A q \in Request : lifetime[q].built ~> disposal[q] = "done"

(* close() returns, whatever the bodies nobody reads and the leaked slots. *)
CloseReturns == \A c \in Closer : closer[c] = "draining" ~> closer[c] = "returned"
=============================================================================
