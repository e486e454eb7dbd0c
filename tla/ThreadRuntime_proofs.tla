----------------------- MODULE ThreadRuntime_proofs -----------------------
(***************************************************************************)
(* Proofs about ThreadRuntime, for every set of requests and routes.       *)
(***************************************************************************)
EXTENDS ThreadRuntime, TLAPS

(* The part of the type invariant that the slot depends on.                *)
CtlType ==
    /\ entries \in [{Tid} -> Run \cup {NoRun}]
    /\ handle \in [Run -> {"new", "held", "released"}]
    /\ threadOf \in [Run -> {Tid}]
    /\ cancelled \subseteq Run /\ aborted \subseteq Run /\ fired \subseteq Run
    /\ claims \in [Cancel -> Run \cup {NoRun}]
    /\ pc \in [Request -> Locations \cup {"authorize", "delckpt", "delrow"}]
    /\ late \in [Run -> {"no", "abandoned", "shutdown"}]
    /\ exec \in [Run -> {"none", "started", "graph", "parked", "ended", "broke"}]

Early == {"new", "claim", "read", "load", "create", "begin"}
Settling == {"settle", "record", "clear", "status", "finish", "held"}

(* A handle is "new" until the run's begin, and held as long as the        *)
(* handler occupies the slot.                                              *)
HandleInv ==
    \A r \in Run : /\ pc[r] \in Early => handle[r] = "new"
                   /\ handle[r] = "held" <=> Occupies(r)
                   /\ Slot = r <=> handle[r] = "held"

(* Aborts come from cancels and source signals, and before the server      *)
(* closes only an AG-UI request's signal fires.                            *)
AbortInv == /\ aborted \subseteq cancelled \cup fired
            /\ phase = "open" => fired \subseteq AgUi

(* The detached arms belong to /runs/wait.                                 *)
LateInv ==
    \A r \in Run :
        /\ pc[r] \in {"respond", "detached"} => r \in Wait /\ late[r] # "no"
        /\ late[r] # "no" => /\ r \in Wait
                             /\ pc[r] \notin Early \cup {"sample", "mark", "busy", "run",
                                                         "status", "held"}
        /\ late[r] = "shutdown" => r \in fired

(* Where the handler of a run can be while its route executes.             *)
ExecInv ==
    \A r \in Run : Executing(r) =>
        \/ pc[r] = "run"
        \/ pc[r] \in {"respond", "detached"}
        \/ pc[r] \in Settling /\ r \in Streaming /\ r \in aborted
        \/ /\ pc[r] = "done" /\ r \in Streaming \ AgUi
           /\ phase # "open" /\ r \in fired \ cancelled

SlotInv == CtlType /\ HandleInv /\ AbortInv /\ LateInv /\ ExecInv

(* The types of the stored data, and what they rest on: only a resume      *)
(* claims, and only an agent route gets as far as its graph.               *)
RowType == [exists : BOOLEAN, status : {"idle", "busy", "interrupted"},
            parked : Route \cup {NoRoute}, route : Route \cup {NoRoute}]

DataInv ==
    /\ row \in RowType
    /\ ckpt \in [exists : BOOLEAN, pending : SUBSET (1..Len(issued))]
    /\ issued \in Seq([route : Route, run : Run \cup {NoRun}])
    /\ routeMap \in Route \cup {NoRoute}
    /\ resumeClaim \in Resuming \cup {NoRun}
    /\ route \in [Run -> Route \cup {NoRoute}]
    /\ prevParked \in [Run -> Route \cup {NoRoute}]
    /\ sampled \in [Run -> SUBSET Nat]
    /\ saw \subseteq Streaming
    /\ failed \subseteq Run
    /\ phase \in {"open", "closing", "drained"}
    /\ faults \in 0..MaxFaults
    /\ crashes \in 0..MaxCrashes
    /\ killed \subseteq Run
    /\ raced \subseteq Run
    /\ \A r \in Run :
         /\ pc[r] = "claim" => r \in Resuming
         /\ pc[r] \in Early \cup {"sample", "mark", "busy"} => exec[r] = "none"
         /\ exec[r] \in {"graph", "parked"} => route[r] \in AgentRoute

-----------------------------------------------------------------------------
(* The slot invariant holds initially, and every step keeps it.            *)
LEMMA SlotInit == Init => SlotInv
  BY RuntimeAssumption DEF Init, Registry!Init, SlotInv, CtlType, HandleInv,
          AbortInv, LateInv, ExecInv, Occupies, Executing, Slot, Early,
          Settling, Locations, Run, Request, Streaming, Resuming, AgUi

LEMMA SlotStep == SlotInv /\ [Next]_vars => SlotInv'
<1> SUFFICES ASSUME SlotInv, [Next]_vars
             PROVE  SlotInv'
  OBVIOUS
<1>1. ASSUME NEW r \in Run, StartStep(r)
      PROVE  SlotInv'
  <2> USE RuntimeAssumption DEF SlotInv, CtlType, HandleInv, AbortInv, LateInv,
          ExecInv, Occupies, Executing, Slot, Early, Settling, Locations, Run,
          Request, Streaming, Resuming, AgUi, Leave, Goto, Fault, registryVars,
          storeVars, localVars, historyVars
  <2>1. CASE Admit(r)
    BY <2>1 DEF Admit
  <2>2. CASE Refuse(r)
    BY <2>2 DEF Refuse
  <2>3. CASE TryClaim(r)
    BY <2>3 DEF TryClaim
  <2>4. CASE ReadPending(r)
    BY <2>4 DEF ReadPending
  <2>5. CASE RejectResume(r)
    BY <2>5 DEF RejectResume
  <2>6. CASE Load(r)
    BY <2>6 DEF Load
  <2>7. CASE Create(r)
    BY <2>7 DEF Create
  <2>8. CASE Begin(r)
    BY <2>8 DEF Begin, Registry!Begin
  <2>9. CASE BeginRefused(r)
    BY <2>9 DEF BeginRefused
  <2>10. CASE SampleBefore(r)
    BY <2>10 DEF SampleBefore
  <2>11. CASE MarkRoute(r)
    BY <2>11 DEF MarkRoute
  <2>12. CASE MarkBusy(r)
    BY <2>12 DEF MarkBusy
  <2>13. CASE StartFails(r)
    BY <2>13 DEF StartFails, Registry!Release
  <2> HIDE DEF SlotInv, CtlType, HandleInv, AbortInv, LateInv, ExecInv,
          Occupies, Executing, Slot, Early, Settling, Locations, Run, Request,
          Streaming, Resuming, AgUi, Leave, Goto, Fault, registryVars,
          storeVars, localVars, historyVars
  <2> QED
    BY <1>1, <2>1, <2>2, <2>3, <2>4, <2>5, <2>6, <2>7, <2>8, <2>9, <2>10, <2>11, <2>12,
       <2>13 DEF StartStep
<1>2. ASSUME NEW r \in Run, RunStep(r)
      PROVE  SlotInv'
  <2> USE RuntimeAssumption DEF SlotInv, CtlType, HandleInv, AbortInv, LateInv,
          ExecInv, Occupies, Executing, Slot, Early, Settling, Locations, Run,
          Request, Streaming, Resuming, AgUi, Leave, Goto, Fault, registryVars,
          storeVars, localVars, historyVars
  <2>1. CASE SeeInterrupt(r)
    BY <2>1 DEF SeeInterrupt
  <2>2. CASE RouteSettled(r)
    BY <2>2 DEF RouteSettled
  <2>3. CASE AbortWins(r)
    BY <2>3 DEF AbortWins
  <2>4. CASE Respond(r)
    BY <2>4 DEF Respond, Registry!Release, FreesSlot
  <2>5. CASE Unwound(r)
    BY <2>5 DEF Unwound
  <2>6. CASE Settle(r)
    BY <2>6 DEF Settle, AfterSettle
  <2>7. CASE SettleReadFails(r)
    BY <2>7 DEF SettleReadFails, AfterSettle
  <2>8. CASE RecordParked(r)
    BY <2>8 DEF RecordParked, AfterSettle
  <2>9. CASE ClearParked(r)
    BY <2>9 DEF ClearParked, AfterSettle
  <2>10. CASE WriteStatus(r)
    BY <2>10 DEF WriteStatus
  <2>11. CASE SettleWriteFails(r)
    BY <2>11 DEF SettleWriteFails, AfterSettle
  <2>12. CASE Finish(r)
    BY <2>12 DEF Finish, Registry!Release, ReleaseClaims, Deferred
  <2>13. CASE ReleaseDeferred(r)
    BY <2>13 DEF ReleaseDeferred, Registry!Release, ReleaseClaims
  <2> HIDE DEF SlotInv, CtlType, HandleInv, AbortInv, LateInv, ExecInv,
          Occupies, Executing, Slot, Early, Settling, Locations, Run, Request,
          Streaming, Resuming, AgUi, Leave, Goto, Fault, registryVars,
          storeVars, localVars, historyVars
  <2> QED
    BY <1>2, <2>1, <2>2, <2>3, <2>4, <2>5, <2>6, <2>7, <2>8, <2>9, <2>10, <2>11, <2>12,
       <2>13 DEF RunStep
<1>3. ASSUME NEW r \in Run, RouteStep(r)
      PROVE  SlotInv'
  <2> USE RuntimeAssumption DEF SlotInv, CtlType, HandleInv, AbortInv, LateInv,
          ExecInv, Occupies, Executing, Slot, Early, Settling, Locations, Run,
          Request, Streaming, Resuming, AgUi, Leave, Goto, Fault, registryVars,
          storeVars, localVars, historyVars
  <2>1. CASE GraphStarts(r)
    BY <2>1 DEF GraphStarts
  <2>2. CASE Park(r)
    BY <2>2 DEF Park
  <2>3. CASE RouteEnds(r)
    BY <2>3 DEF RouteEnds
  <2> HIDE DEF SlotInv, CtlType, HandleInv, AbortInv, LateInv, ExecInv,
          Occupies, Executing, Slot, Early, Settling, Locations, Run, Request,
          Streaming, Resuming, AgUi, Leave, Goto, Fault, registryVars,
          storeVars, localVars, historyVars
  <2> QED
    BY <1>3, <2>1, <2>2, <2>3 DEF RouteStep
<1>4. ASSUME NEW r \in Run, Disconnect(r)
      PROVE  SlotInv'
  BY <1>4, RuntimeAssumption DEF Disconnect, Registry!SourceAbort, SlotInv,
          CtlType, HandleInv, AbortInv, LateInv, ExecInv, Occupies, Executing,
          Slot, Early, Settling, Locations, Run, Request, Streaming, Resuming,
          AgUi, Leave, Goto, Fault, registryVars, storeVars, localVars,
          historyVars
<1>5. ASSUME NEW c \in Cancel, CancelStep(c)
      PROVE  SlotInv'
  <2> USE RuntimeAssumption DEF SlotInv, CtlType, HandleInv, AbortInv, LateInv,
          ExecInv, Occupies, Executing, Slot, Early, Settling, Locations, Run,
          Request, Streaming, Resuming, AgUi, Leave, Goto, Fault, registryVars,
          storeVars, localVars, historyVars
  <2>1. CASE CancelRequest(c)
    BY <2>1 DEF CancelRequest, Registry!TakeClaim
  <2>2. CASE CancelRun(c)
    BY <2>2 DEF CancelRun, Registry!CancelClaim, Registry!CancelEntry, Registry!Bound
  <2>3. CASE CancelNothing(c)
    BY <2>3 DEF CancelNothing
  <2> HIDE DEF SlotInv, CtlType, HandleInv, AbortInv, LateInv, ExecInv,
          Occupies, Executing, Slot, Early, Settling, Locations, Run, Request,
          Streaming, Resuming, AgUi, Leave, Goto, Fault, registryVars,
          storeVars, localVars, historyVars
  <2> QED
    BY <1>5, <2>1, <2>2, <2>3 DEF CancelStep
<1>6. ASSUME NEW d \in Delete, DeleteStep(d)
      PROVE  SlotInv'
  <2> USE RuntimeAssumption DEF SlotInv, CtlType, HandleInv, AbortInv, LateInv,
          ExecInv, Occupies, Executing, Slot, Early, Settling, Locations, Run,
          Request, Streaming, Resuming, AgUi, Leave, Goto, Fault, registryVars,
          storeVars, localVars, historyVars
  <2>1. CASE DeleteRequest(d)
    BY <2>1 DEF DeleteRequest
  <2>2. CASE DeleteCheckpoints(d)
    BY <2>2 DEF DeleteCheckpoints
  <2>3. CASE DeleteRow(d)
    BY <2>3 DEF DeleteRow
  <2>4. CASE DeleteFails(d)
    BY <2>4 DEF DeleteFails
  <2> HIDE DEF SlotInv, CtlType, HandleInv, AbortInv, LateInv, ExecInv,
          Occupies, Executing, Slot, Early, Settling, Locations, Run, Request,
          Streaming, Resuming, AgUi, Leave, Goto, Fault, registryVars,
          storeVars, localVars, historyVars
  <2> QED
    BY <1>6, <2>1, <2>2, <2>3, <2>4 DEF DeleteStep
<1>7. CASE Shutdown
  BY <1>7, RuntimeAssumption DEF Shutdown, Registry!SourceAbort, SlotInv,
          CtlType, HandleInv, AbortInv, LateInv, ExecInv, Occupies, Executing,
          Slot, Early, Settling, Locations, Run, Request, Streaming, Resuming,
          AgUi, Leave, Goto, Fault, registryVars, storeVars, localVars,
          historyVars
<1>8. CASE Drained
  BY <1>8, RuntimeAssumption DEF Drained, SlotInv, CtlType, HandleInv,
          AbortInv, LateInv, ExecInv, Occupies, Executing, Slot, Early,
          Settling, Locations, Run, Request, Streaming, Resuming, AgUi, Leave,
          Goto, Fault, registryVars, storeVars, localVars, historyVars
<1>9. CASE Crash
  BY <1>9, RuntimeAssumption DEF Crash, SlotInv, CtlType, HandleInv, AbortInv,
          LateInv, ExecInv, Occupies, Executing, Slot, Early, Settling,
          Locations, Run, Request, Streaming, Resuming, AgUi, Leave, Goto,
          Fault, registryVars, storeVars, localVars, historyVars
<1>10. CASE UNCHANGED vars
  BY <1>10 DEF vars, SlotInv, CtlType, HandleInv, AbortInv, LateInv, ExecInv,
          Occupies, Executing, Slot, Early, Settling, Locations, Run, Request,
          Streaming, Resuming, AgUi, Leave, Goto, Fault, registryVars,
          storeVars, localVars, historyVars
<1> QED
  BY <1>1, <1>2, <1>3, <1>4, <1>5, <1>6, <1>7, <1>8, <1>9, <1>10 DEF Next

(* The slot invariant, for every set of requests.                          *)
THEOREM SlotInvariant == Spec => []SlotInv
<1>1. Init => SlotInv
  BY SlotInit
<1>2. SlotInv /\ [Next]_vars => SlotInv'
  BY SlotStep
<1> QED
  BY <1>1, <1>2, PTL DEF Spec

(* The run slot names exactly the run whose handler or detached route still *)
(* needs it, on every path through the handlers of runtime-fetch-core.ts   *)
(* and agui-handler.ts.                                                    *)
THEOREM SlotIsExact == Spec => []SlotMatchesHandlers
<1>1. SlotInv => SlotMatchesHandlers
  BY DEF SlotInv, HandleInv, SlotMatchesHandlers
<1> QED
  BY <1>1, SlotInvariant, PTL

(* The slot covers the execution of every route, but for the runs a        *)
(* shutdown aborted.                                                       *)
THEOREM SlotCovers == Spec => []SlotCoversExecution
<1>1. SlotInv => SlotCoversExecution
  BY RuntimeAssumption
     DEF SlotInv, HandleInv, ExecInv, SlotCoversExecution, Occupies, AbortInv, LateInv,
         Settling, Streaming, AgUi
<1> QED
  BY <1>1, SlotInvariant, PTL

(* While the server is open, two routes of one thread never execute at     *)
(* once.                                                                   *)
THEOREM RoutesExclude == Spec => []OneRouteExecuting
<1>1. SlotCoversExecution => OneRouteExecuting
  BY DEF SlotCoversExecution, OneRouteExecuting
<1> QED
  BY <1>1, SlotCovers, PTL

-----------------------------------------------------------------------------
LEMMA DataInit == Init => DataInv
<1> SUFFICES ASSUME Init
             PROVE  DataInv
  OBVIOUS
<1>1. /\ row \in RowType
      /\ ckpt \in [exists : BOOLEAN, pending : SUBSET (1..Len(issued))]
      /\ issued \in Seq([route : Route, run : Run \cup {NoRun}])
  <2>1. CASE row = MissingRow /\ ckpt = [exists |-> FALSE, pending |-> {}] /\ issued = <<>>
    BY <2>1 DEF MissingRow, RowType
  <2>2. ASSUME NEW a \in AgentRoute, row = ParkedRow(a),
               issued = <<[route |-> a, run |-> NoRun]>>,
               ckpt = [exists |-> TRUE, pending |-> {1}]
        PROVE  <1>1!1 /\ <1>1!2 /\ <1>1!3
    <3>1. a \in Route
      BY RuntimeAssumption
    <3>2. row \in RowType
      BY <2>2, <3>1 DEF ParkedRow, RowType
    <3>3. Len(issued) = 1 /\ issued \in Seq([route : Route, run : Run \cup {NoRun}])
      BY <2>2, <3>1
    <3> QED
      BY <2>2, <3>2, <3>3
  <2> QED
    BY <2>1, <2>2 DEF Init
<1>2. faults \in 0..MaxFaults /\ crashes \in 0..MaxCrashes
  BY RuntimeAssumption DEF Init
<1> QED
  BY <1>1, <1>2 DEF Init, DataInv, Early, Request

LEMMA DataStep == SlotInv /\ DataInv /\ [Next]_vars => DataInv'
<1> SUFFICES ASSUME SlotInv, DataInv, [Next]_vars
             PROVE  DataInv'
  OBVIOUS
<1>1. ASSUME NEW r \in Run, StartStep(r)
      PROVE  DataInv'
  <2> USE RuntimeAssumption DEF DataInv, RowType, SlotInv, CtlType, Early,
          Executing, Run, Request, Streaming, Resuming, AgUi, Leave, Goto,
          Fault, registryVars, storeVars, localVars, historyVars
  <2>1. CASE Admit(r)
    BY <2>1 DEF Admit
  <2>2. CASE Refuse(r)
    BY <2>2 DEF Refuse
  <2>3. CASE TryClaim(r)
    BY <2>3 DEF TryClaim
  <2>4. CASE ReadPending(r)
    BY <2>4 DEF ReadPending
  <2>5. CASE RejectResume(r)
    BY <2>5 DEF RejectResume
  <2>6. CASE Load(r)
    BY <2>6 DEF Load, ResumeRoute
  <2>7. CASE Create(r)
    <3>1. FreshRow \in RowType
      BY DEF FreshRow, MissingRow
    <3> QED
      BY <2>7, <3>1 DEF Create
  <2>8. CASE Begin(r)
    BY <2>8 DEF Begin
  <2>9. CASE BeginRefused(r)
    BY <2>9 DEF BeginRefused
  <2>10. CASE SampleBefore(r)
    BY <2>10 DEF SampleBefore
  <2>11. CASE MarkRoute(r)
    BY <2>11 DEF MarkRoute, UpdateRoute
  <2>12. CASE MarkBusy(r)
    BY <2>12 DEF MarkBusy, UpdateStatus
  <2>13. CASE StartFails(r)
    BY <2>13 DEF StartFails
  <2> HIDE DEF DataInv, RowType, SlotInv, CtlType, Early, Executing, Run,
          Request, Streaming, Resuming, AgUi, Leave, Goto, Fault, registryVars,
          storeVars, localVars, historyVars
  <2> QED
    BY <1>1, <2>1, <2>2, <2>3, <2>4, <2>5, <2>6, <2>7, <2>8, <2>9, <2>10, <2>11, <2>12,
       <2>13 DEF StartStep
<1>2. ASSUME NEW r \in Run, RunStep(r)
      PROVE  DataInv'
  <2> USE RuntimeAssumption DEF DataInv, RowType, SlotInv, CtlType, Early,
          Executing, Run, Request, Streaming, Resuming, AgUi, Leave, Goto,
          Fault, registryVars, storeVars, localVars, historyVars
  <2>1. CASE SeeInterrupt(r)
    BY <2>1 DEF SeeInterrupt
  <2>2. CASE RouteSettled(r)
    BY <2>2 DEF RouteSettled
  <2>3. CASE AbortWins(r)
    BY <2>3 DEF AbortWins
  <2>4. CASE Respond(r)
    BY <2>4 DEF Respond, UpdateStatus
  <2>5. CASE Unwound(r)
    BY <2>5 DEF Unwound
  <2>6. CASE Settle(r)
    BY <2>6 DEF Settle, AfterSettle
  <2>7. CASE SettleReadFails(r)
    BY <2>7 DEF SettleReadFails, AfterSettle
  <2>8. CASE RecordParked(r)
    BY <2>8 DEF RecordParked, UpdateParked, AfterSettle
  <2>9. CASE ClearParked(r)
    BY <2>9 DEF ClearParked, UpdateParked, AfterSettle
  <2>10. CASE WriteStatus(r)
    BY <2>10 DEF WriteStatus, UpdateStatus, TerminalStatus
  <2>11. CASE SettleWriteFails(r)
    BY <2>11 DEF SettleWriteFails, AfterSettle
  <2>12. CASE Finish(r)
    BY <2>12 DEF Finish, ReleaseClaims
  <2>13. CASE ReleaseDeferred(r)
    BY <2>13 DEF ReleaseDeferred, ReleaseClaims
  <2> HIDE DEF DataInv, RowType, SlotInv, CtlType, Early, Executing, Run,
          Request, Streaming, Resuming, AgUi, Leave, Goto, Fault, registryVars,
          storeVars, localVars, historyVars
  <2> QED
    BY <1>2, <2>1, <2>2, <2>3, <2>4, <2>5, <2>6, <2>7, <2>8, <2>9, <2>10, <2>11, <2>12,
       <2>13 DEF RunStep
<1>3. ASSUME NEW r \in Run, RouteStep(r)
      PROVE  DataInv'
  <2> USE RuntimeAssumption DEF DataInv, RowType, SlotInv, CtlType, Early,
          Executing, Run, Request, Streaming, Resuming, AgUi, Leave, Goto,
          Fault, registryVars, storeVars, localVars, historyVars
  <2>1. CASE GraphStarts(r)
    BY <2>1 DEF GraphStarts
  <2>2. CASE Park(r)
    <3>1. /\ r \in Run /\ route[r] \in Route
          /\ issued' \in Seq([route : Route, run : Run \cup {NoRun}])
          /\ Len(issued') = Len(issued) + 1
      BY <2>2 DEF Park
    <3>2. ckpt' \in [exists : BOOLEAN, pending : SUBSET (1..Len(issued'))]
      BY <2>2, <3>1 DEF Park
    <3> QED
      BY <2>2, <3>1, <3>2 DEF Park
  <2>3. CASE RouteEnds(r)
    BY <2>3 DEF RouteEnds
  <2> HIDE DEF DataInv, RowType, SlotInv, CtlType, Early, Executing, Run,
          Request, Streaming, Resuming, AgUi, Leave, Goto, Fault, registryVars,
          storeVars, localVars, historyVars
  <2> QED
    BY <1>3, <2>1, <2>2, <2>3 DEF RouteStep
<1>4. ASSUME NEW r \in Run, Disconnect(r)
      PROVE  DataInv'
  BY <1>4, RuntimeAssumption DEF Disconnect, Registry!SourceAbort, DataInv,
          RowType, SlotInv, CtlType, Early, Executing, Run, Request, Streaming,
          Resuming, AgUi, Leave, Goto, Fault, registryVars, storeVars,
          localVars, historyVars
<1>5. ASSUME NEW c \in Cancel, CancelStep(c)
      PROVE  DataInv'
  <2> USE RuntimeAssumption DEF DataInv, RowType, SlotInv, CtlType, Early,
          Executing, Run, Request, Streaming, Resuming, AgUi, Leave, Goto,
          Fault, registryVars, storeVars, localVars, historyVars
  <2>1. CASE CancelRequest(c)
    BY <2>1 DEF CancelRequest
  <2>2. CASE CancelRun(c)
    BY <2>2 DEF CancelRun
  <2>3. CASE CancelNothing(c)
    BY <2>3 DEF CancelNothing
  <2> HIDE DEF DataInv, RowType, SlotInv, CtlType, Early, Executing, Run,
          Request, Streaming, Resuming, AgUi, Leave, Goto, Fault, registryVars,
          storeVars, localVars, historyVars
  <2> QED
    BY <1>5, <2>1, <2>2, <2>3 DEF CancelStep
<1>6. ASSUME NEW d \in Delete, DeleteStep(d)
      PROVE  DataInv'
  <2> USE RuntimeAssumption DEF DataInv, RowType, SlotInv, CtlType, Early,
          Executing, Run, Request, Streaming, Resuming, AgUi, Leave, Goto,
          Fault, registryVars, storeVars, localVars, historyVars
  <2>1. CASE DeleteRequest(d)
    BY <2>1 DEF DeleteRequest
  <2>2. CASE DeleteCheckpoints(d)
    BY <2>2 DEF DeleteCheckpoints
  <2>3. CASE DeleteRow(d)
    BY <2>3 DEF DeleteRow, MissingRow
  <2>4. CASE DeleteFails(d)
    BY <2>4 DEF DeleteFails
  <2> HIDE DEF DataInv, RowType, SlotInv, CtlType, Early, Executing, Run,
          Request, Streaming, Resuming, AgUi, Leave, Goto, Fault, registryVars,
          storeVars, localVars, historyVars
  <2> QED
    BY <1>6, <2>1, <2>2, <2>3, <2>4 DEF DeleteStep
<1>7. CASE Shutdown
  BY <1>7, RuntimeAssumption DEF Shutdown, Registry!SourceAbort, DataInv,
          RowType, SlotInv, CtlType, Early, Executing, Run, Request, Streaming,
          Resuming, AgUi, Leave, Goto, Fault, registryVars, storeVars,
          localVars, historyVars
<1>8. CASE Drained
  BY <1>8, RuntimeAssumption DEF Drained, DataInv, RowType, SlotInv, CtlType,
          Early, Executing, Run, Request, Streaming, Resuming, AgUi, Leave,
          Goto, Fault, registryVars, storeVars, localVars, historyVars
<1>9. CASE Crash
  BY <1>9, RuntimeAssumption DEF Crash, DataInv, RowType, SlotInv, CtlType,
          Early, Executing, Run, Request, Streaming, Resuming, AgUi, Leave,
          Goto, Fault, registryVars, storeVars, localVars, historyVars
<1>10. CASE UNCHANGED vars
  BY <1>10 DEF vars, DataInv, RowType, SlotInv, CtlType, Early, Executing, Run,
          Request, Streaming, Resuming, AgUi, Leave, Goto, Fault, registryVars,
          storeVars, localVars, historyVars
<1> QED
  BY <1>1, <1>2, <1>3, <1>4, <1>5, <1>6, <1>7, <1>8, <1>9, <1>10 DEF Next

(* The stored data keeps its invariant.                                    *)
THEOREM DataInvariant == Spec => []DataInv
<1>1. Init => DataInv
  BY DataInit
<1>2. SlotInv /\ DataInv /\ [Next]_vars => DataInv'
  BY DataStep
<1> QED
  BY <1>1, <1>2, SlotInvariant, PTL DEF Spec

(* Every component of the state keeps its type.                            *)
THEOREM RuntimeTyped == Spec => []TypeOK
<1>1. SlotInv /\ DataInv => TypeOK
  BY DEF SlotInv, CtlType, DataInv, RowType, TypeOK, Registry!TypeOK
<1> QED
  BY <1>1, SlotInvariant, DataInvariant, PTL

-----------------------------------------------------------------------------
(* One resume claim at a time.                                             *)
LEMMA SerialStep == SlotInv /\ ResumesSerialized /\ [Next]_vars => ResumesSerialized'
<1> SUFFICES ASSUME SlotInv, ResumesSerialized, [Next]_vars
             PROVE  ResumesSerialized'
  OBVIOUS
<1>1. ASSUME NEW r \in Run, StartStep(r)
      PROVE  ResumesSerialized'
  <2> USE RuntimeAssumption DEF CtlType, SlotInv, ResumesSerialized, Locations,
          Run, Request, Streaming, Resuming, AgUi, Leave, Goto, Fault,
          registryVars, storeVars, localVars, historyVars
  <2>1. CASE Admit(r)
    BY <2>1 DEF Admit
  <2>2. CASE Refuse(r)
    BY <2>2 DEF Refuse
  <2>3. CASE TryClaim(r)
    BY <2>3 DEF TryClaim
  <2>4. CASE ReadPending(r)
    BY <2>4 DEF ReadPending
  <2>5. CASE RejectResume(r)
    BY <2>5 DEF RejectResume
  <2>6. CASE Load(r)
    BY <2>6 DEF Load
  <2>7. CASE Create(r)
    BY <2>7 DEF Create
  <2>8. CASE Begin(r)
    BY <2>8 DEF Begin
  <2>9. CASE BeginRefused(r)
    BY <2>9 DEF BeginRefused
  <2>10. CASE SampleBefore(r)
    BY <2>10 DEF SampleBefore
  <2>11. CASE MarkRoute(r)
    BY <2>11 DEF MarkRoute
  <2>12. CASE MarkBusy(r)
    BY <2>12 DEF MarkBusy
  <2>13. CASE StartFails(r)
    BY <2>13 DEF StartFails
  <2> HIDE DEF CtlType, SlotInv, ResumesSerialized, Locations, Run, Request,
          Streaming, Resuming, AgUi, Leave, Goto, Fault, registryVars,
          storeVars, localVars, historyVars
  <2> QED
    BY <1>1, <2>1, <2>2, <2>3, <2>4, <2>5, <2>6, <2>7, <2>8, <2>9, <2>10, <2>11, <2>12,
       <2>13 DEF StartStep
<1>2. ASSUME NEW r \in Run, RunStep(r)
      PROVE  ResumesSerialized'
  <2> USE RuntimeAssumption DEF CtlType, SlotInv, ResumesSerialized, Locations,
          Run, Request, Streaming, Resuming, AgUi, Leave, Goto, Fault,
          registryVars, storeVars, localVars, historyVars
  <2>1. CASE SeeInterrupt(r)
    BY <2>1 DEF SeeInterrupt
  <2>2. CASE RouteSettled(r)
    BY <2>2 DEF RouteSettled
  <2>3. CASE AbortWins(r)
    BY <2>3 DEF AbortWins
  <2>4. CASE Respond(r)
    BY <2>4 DEF Respond
  <2>5. CASE Unwound(r)
    BY <2>5 DEF Unwound
  <2>6. CASE Settle(r)
    BY <2>6 DEF Settle, AfterSettle
  <2>7. CASE SettleReadFails(r)
    BY <2>7 DEF SettleReadFails, AfterSettle
  <2>8. CASE RecordParked(r)
    BY <2>8 DEF RecordParked, AfterSettle
  <2>9. CASE ClearParked(r)
    BY <2>9 DEF ClearParked, AfterSettle
  <2>10. CASE WriteStatus(r)
    BY <2>10 DEF WriteStatus
  <2>11. CASE SettleWriteFails(r)
    BY <2>11 DEF SettleWriteFails, AfterSettle
  <2>12. CASE Finish(r)
    BY <2>12 DEF Finish, ReleaseClaims
  <2>13. CASE ReleaseDeferred(r)
    BY <2>13 DEF ReleaseDeferred, ReleaseClaims
  <2> HIDE DEF CtlType, SlotInv, ResumesSerialized, Locations, Run, Request,
          Streaming, Resuming, AgUi, Leave, Goto, Fault, registryVars,
          storeVars, localVars, historyVars
  <2> QED
    BY <1>2, <2>1, <2>2, <2>3, <2>4, <2>5, <2>6, <2>7, <2>8, <2>9, <2>10, <2>11, <2>12,
       <2>13 DEF RunStep
<1>3. ASSUME NEW r \in Run, RouteStep(r)
      PROVE  ResumesSerialized'
  <2> USE RuntimeAssumption DEF CtlType, SlotInv, ResumesSerialized, Locations,
          Run, Request, Streaming, Resuming, AgUi, Leave, Goto, Fault,
          registryVars, storeVars, localVars, historyVars
  <2>1. CASE GraphStarts(r)
    BY <2>1 DEF GraphStarts
  <2>2. CASE Park(r)
    BY <2>2 DEF Park
  <2>3. CASE RouteEnds(r)
    BY <2>3 DEF RouteEnds
  <2> HIDE DEF CtlType, SlotInv, ResumesSerialized, Locations, Run, Request,
          Streaming, Resuming, AgUi, Leave, Goto, Fault, registryVars,
          storeVars, localVars, historyVars
  <2> QED
    BY <1>3, <2>1, <2>2, <2>3 DEF RouteStep
<1>4. ASSUME NEW r \in Run, Disconnect(r)
      PROVE  ResumesSerialized'
  BY <1>4, RuntimeAssumption DEF Disconnect, Registry!SourceAbort, CtlType,
          SlotInv, ResumesSerialized, Locations, Run, Request, Streaming,
          Resuming, AgUi, Leave, Goto, Fault, registryVars, storeVars,
          localVars, historyVars
<1>5. ASSUME NEW c \in Cancel, CancelStep(c)
      PROVE  ResumesSerialized'
  <2> USE RuntimeAssumption DEF CtlType, SlotInv, ResumesSerialized, Locations,
          Run, Request, Streaming, Resuming, AgUi, Leave, Goto, Fault,
          registryVars, storeVars, localVars, historyVars
  <2>1. CASE CancelRequest(c)
    BY <2>1 DEF CancelRequest
  <2>2. CASE CancelRun(c)
    BY <2>2 DEF CancelRun
  <2>3. CASE CancelNothing(c)
    BY <2>3 DEF CancelNothing
  <2> HIDE DEF CtlType, SlotInv, ResumesSerialized, Locations, Run, Request,
          Streaming, Resuming, AgUi, Leave, Goto, Fault, registryVars,
          storeVars, localVars, historyVars
  <2> QED
    BY <1>5, <2>1, <2>2, <2>3 DEF CancelStep
<1>6. ASSUME NEW d \in Delete, DeleteStep(d)
      PROVE  ResumesSerialized'
  <2> USE RuntimeAssumption DEF CtlType, SlotInv, ResumesSerialized, Locations,
          Run, Request, Streaming, Resuming, AgUi, Leave, Goto, Fault,
          registryVars, storeVars, localVars, historyVars
  <2>1. CASE DeleteRequest(d)
    BY <2>1 DEF DeleteRequest
  <2>2. CASE DeleteCheckpoints(d)
    BY <2>2 DEF DeleteCheckpoints
  <2>3. CASE DeleteRow(d)
    BY <2>3 DEF DeleteRow
  <2>4. CASE DeleteFails(d)
    BY <2>4 DEF DeleteFails
  <2> HIDE DEF CtlType, SlotInv, ResumesSerialized, Locations, Run, Request,
          Streaming, Resuming, AgUi, Leave, Goto, Fault, registryVars,
          storeVars, localVars, historyVars
  <2> QED
    BY <1>6, <2>1, <2>2, <2>3, <2>4 DEF DeleteStep
<1>7. CASE Shutdown
  BY <1>7, RuntimeAssumption DEF Shutdown, Registry!SourceAbort, CtlType,
          SlotInv, ResumesSerialized, Locations, Run, Request, Streaming,
          Resuming, AgUi, Leave, Goto, Fault, registryVars, storeVars,
          localVars, historyVars
<1>8. CASE Drained
  BY <1>8, RuntimeAssumption DEF Drained, CtlType, SlotInv, ResumesSerialized,
          Locations, Run, Request, Streaming, Resuming, AgUi, Leave, Goto,
          Fault, registryVars, storeVars, localVars, historyVars
<1>9. CASE Crash
  BY <1>9, RuntimeAssumption DEF Crash, CtlType, SlotInv, ResumesSerialized,
          Locations, Run, Request, Streaming, Resuming, AgUi, Leave, Goto,
          Fault, registryVars, storeVars, localVars, historyVars
<1>10. CASE UNCHANGED vars
  BY <1>10 DEF vars, CtlType, SlotInv, ResumesSerialized, Locations, Run,
          Request, Streaming, Resuming, AgUi, Leave, Goto, Fault, registryVars,
          storeVars, localVars, historyVars
<1> QED
  BY <1>1, <1>2, <1>3, <1>4, <1>5, <1>6, <1>7, <1>8, <1>9, <1>10 DEF Next

(* Two resumes never work on one pending snapshot (the resume claims of    *)
(* pending-interrupts.ts).                                                 *)
THEOREM ResumesExclude == Spec => []ResumesSerialized
<1>1. Init => ResumesSerialized
  BY DEF Init, ResumesSerialized, Resuming, Request, Run, Streaming, AgUi
<1>2. SlotInv /\ ResumesSerialized /\ [Next]_vars => ResumesSerialized'
  BY SerialStep
<1> QED
  BY <1>1, <1>2, SlotInvariant, PTL DEF Spec

-----------------------------------------------------------------------------
(* A cancel applies to the run it was bound to.                            *)
LEMMA ObservedStep == SlotInv /\ CancelOnlyObserved /\ [Next]_vars => CancelOnlyObserved'
<1> SUFFICES ASSUME SlotInv, CancelOnlyObserved, [Next]_vars
             PROVE  CancelOnlyObserved'
  OBVIOUS
<1>1. ASSUME NEW r \in Run, StartStep(r)
      PROVE  CancelOnlyObserved'
  <2> USE RuntimeAssumption DEF CtlType, SlotInv, CancelOnlyObserved, Run,
          Request, Streaming, Resuming, AgUi, Leave, Goto, Fault, registryVars,
          storeVars, localVars, historyVars
  <2>1. CASE Admit(r)
    BY <2>1 DEF Admit
  <2>2. CASE Refuse(r)
    BY <2>2 DEF Refuse
  <2>3. CASE TryClaim(r)
    BY <2>3 DEF TryClaim
  <2>4. CASE ReadPending(r)
    BY <2>4 DEF ReadPending
  <2>5. CASE RejectResume(r)
    BY <2>5 DEF RejectResume
  <2>6. CASE Load(r)
    BY <2>6 DEF Load
  <2>7. CASE Create(r)
    BY <2>7 DEF Create
  <2>8. CASE Begin(r)
    BY <2>8 DEF Begin, Registry!Begin
  <2>9. CASE BeginRefused(r)
    BY <2>9 DEF BeginRefused
  <2>10. CASE SampleBefore(r)
    BY <2>10 DEF SampleBefore
  <2>11. CASE MarkRoute(r)
    BY <2>11 DEF MarkRoute
  <2>12. CASE MarkBusy(r)
    BY <2>12 DEF MarkBusy
  <2>13. CASE StartFails(r)
    BY <2>13 DEF StartFails, Registry!Release
  <2> HIDE DEF CtlType, SlotInv, CancelOnlyObserved, Run, Request, Streaming,
          Resuming, AgUi, Leave, Goto, Fault, registryVars, storeVars,
          localVars, historyVars
  <2> QED
    BY <1>1, <2>1, <2>2, <2>3, <2>4, <2>5, <2>6, <2>7, <2>8, <2>9, <2>10, <2>11, <2>12,
       <2>13 DEF StartStep
<1>2. ASSUME NEW r \in Run, RunStep(r)
      PROVE  CancelOnlyObserved'
  <2> USE RuntimeAssumption DEF CtlType, SlotInv, CancelOnlyObserved, Run,
          Request, Streaming, Resuming, AgUi, Leave, Goto, Fault, registryVars,
          storeVars, localVars, historyVars
  <2>1. CASE SeeInterrupt(r)
    BY <2>1 DEF SeeInterrupt
  <2>2. CASE RouteSettled(r)
    BY <2>2 DEF RouteSettled
  <2>3. CASE AbortWins(r)
    BY <2>3 DEF AbortWins
  <2>4. CASE Respond(r)
    BY <2>4 DEF Respond, Registry!Release
  <2>5. CASE Unwound(r)
    BY <2>5 DEF Unwound
  <2>6. CASE Settle(r)
    BY <2>6 DEF Settle
  <2>7. CASE SettleReadFails(r)
    BY <2>7 DEF SettleReadFails
  <2>8. CASE RecordParked(r)
    BY <2>8 DEF RecordParked
  <2>9. CASE ClearParked(r)
    BY <2>9 DEF ClearParked
  <2>10. CASE WriteStatus(r)
    BY <2>10 DEF WriteStatus
  <2>11. CASE SettleWriteFails(r)
    BY <2>11 DEF SettleWriteFails
  <2>12. CASE Finish(r)
    BY <2>12 DEF Finish, Registry!Release, ReleaseClaims
  <2>13. CASE ReleaseDeferred(r)
    BY <2>13 DEF ReleaseDeferred, Registry!Release, ReleaseClaims
  <2> HIDE DEF CtlType, SlotInv, CancelOnlyObserved, Run, Request, Streaming,
          Resuming, AgUi, Leave, Goto, Fault, registryVars, storeVars,
          localVars, historyVars
  <2> QED
    BY <1>2, <2>1, <2>2, <2>3, <2>4, <2>5, <2>6, <2>7, <2>8, <2>9, <2>10, <2>11, <2>12,
       <2>13 DEF RunStep
<1>3. ASSUME NEW r \in Run, RouteStep(r)
      PROVE  CancelOnlyObserved'
  <2> USE RuntimeAssumption DEF CtlType, SlotInv, CancelOnlyObserved, Run,
          Request, Streaming, Resuming, AgUi, Leave, Goto, Fault, registryVars,
          storeVars, localVars, historyVars
  <2>1. CASE GraphStarts(r)
    BY <2>1 DEF GraphStarts
  <2>2. CASE Park(r)
    BY <2>2 DEF Park
  <2>3. CASE RouteEnds(r)
    BY <2>3 DEF RouteEnds
  <2> HIDE DEF CtlType, SlotInv, CancelOnlyObserved, Run, Request, Streaming,
          Resuming, AgUi, Leave, Goto, Fault, registryVars, storeVars,
          localVars, historyVars
  <2> QED
    BY <1>3, <2>1, <2>2, <2>3 DEF RouteStep
<1>4. ASSUME NEW r \in Run, Disconnect(r)
      PROVE  CancelOnlyObserved'
  BY <1>4, RuntimeAssumption DEF Disconnect, Registry!SourceAbort, CtlType,
          SlotInv, CancelOnlyObserved, Run, Request, Streaming, Resuming, AgUi,
          Leave, Goto, Fault, registryVars, storeVars, localVars, historyVars
<1>5. ASSUME NEW c \in Cancel, CancelStep(c)
      PROVE  CancelOnlyObserved'
  <2> USE RuntimeAssumption DEF CtlType, SlotInv, CancelOnlyObserved, Run,
          Request, Streaming, Resuming, AgUi, Leave, Goto, Fault, registryVars,
          storeVars, localVars, historyVars
  <2>1. CASE CancelRequest(c)
    BY <2>1 DEF CancelRequest, Registry!TakeClaim
  <2>2. CASE CancelRun(c)
    BY <2>2 DEF CancelRun, Registry!CancelClaim, Registry!CancelEntry, Registry!Bound
  <2>3. CASE CancelNothing(c)
    BY <2>3 DEF CancelNothing
  <2> HIDE DEF CtlType, SlotInv, CancelOnlyObserved, Run, Request, Streaming,
          Resuming, AgUi, Leave, Goto, Fault, registryVars, storeVars,
          localVars, historyVars
  <2> QED
    BY <1>5, <2>1, <2>2, <2>3 DEF CancelStep
<1>6. ASSUME NEW d \in Delete, DeleteStep(d)
      PROVE  CancelOnlyObserved'
  <2> USE RuntimeAssumption DEF CtlType, SlotInv, CancelOnlyObserved, Run,
          Request, Streaming, Resuming, AgUi, Leave, Goto, Fault, registryVars,
          storeVars, localVars, historyVars
  <2>1. CASE DeleteRequest(d)
    BY <2>1 DEF DeleteRequest
  <2>2. CASE DeleteCheckpoints(d)
    BY <2>2 DEF DeleteCheckpoints
  <2>3. CASE DeleteRow(d)
    BY <2>3 DEF DeleteRow
  <2>4. CASE DeleteFails(d)
    BY <2>4 DEF DeleteFails
  <2> HIDE DEF CtlType, SlotInv, CancelOnlyObserved, Run, Request, Streaming,
          Resuming, AgUi, Leave, Goto, Fault, registryVars, storeVars,
          localVars, historyVars
  <2> QED
    BY <1>6, <2>1, <2>2, <2>3, <2>4 DEF DeleteStep
<1>7. CASE Shutdown
  BY <1>7, RuntimeAssumption DEF Shutdown, Registry!SourceAbort, CtlType,
          SlotInv, CancelOnlyObserved, Run, Request, Streaming, Resuming, AgUi,
          Leave, Goto, Fault, registryVars, storeVars, localVars, historyVars
<1>8. CASE Drained
  BY <1>8, RuntimeAssumption DEF Drained, CtlType, SlotInv, CancelOnlyObserved,
          Run, Request, Streaming, Resuming, AgUi, Leave, Goto, Fault,
          registryVars, storeVars, localVars, historyVars
<1>9. CASE Crash
  BY <1>9, RuntimeAssumption DEF Crash, CtlType, SlotInv, CancelOnlyObserved,
          Run, Request, Streaming, Resuming, AgUi, Leave, Goto, Fault,
          registryVars, storeVars, localVars, historyVars
<1>10. CASE UNCHANGED vars
  BY <1>10 DEF vars, CtlType, SlotInv, CancelOnlyObserved, Run, Request,
          Streaming, Resuming, AgUi, Leave, Goto, Fault, registryVars,
          storeVars, localVars, historyVars
<1> QED
  BY <1>1, <1>2, <1>3, <1>4, <1>5, <1>6, <1>7, <1>8, <1>9, <1>10 DEF Next

(* A cancel never stops a run its caller did not observe (RunClaim).       *)
THEOREM CancelsHitObserved == Spec => []CancelOnlyObserved
<1>1. Init => CancelOnlyObserved
  BY DEF Init, Registry!Init, CancelOnlyObserved
<1>2. SlotInv /\ CancelOnlyObserved /\ [Next]_vars => CancelOnlyObserved'
  BY ObservedStep
<1> QED
  BY <1>1, <1>2, SlotInvariant, PTL DEF Spec

-----------------------------------------------------------------------------
(* Only CancelRun cancels a run.                                           *)
LEMMA HitStep ==
    SlotInv /\ [Next]_vars =>
        \A x \in cancelled' \ cancelled : handle[x] = "held" /\ Slot = x
<1> SUFFICES ASSUME SlotInv, [Next]_vars, NEW x \in cancelled' \ cancelled
             PROVE  handle[x] = "held" /\ Slot = x
  OBVIOUS
<1> USE DEF registryVars
<1>1. ASSUME NEW r \in Run, StartStep(r)
      PROVE  UNCHANGED cancelled
  BY <1>1 DEF StartStep, Admit, Refuse, TryClaim, ReadPending, RejectResume, Load, Create,
          Begin, BeginRefused, SampleBefore, MarkRoute, MarkBusy, StartFails,
          Registry!Begin, Registry!Release
<1>2. ASSUME NEW r \in Run, RunStep(r)
      PROVE  UNCHANGED cancelled
  BY <1>2 DEF RunStep, SeeInterrupt, RouteSettled, AbortWins, Respond, Unwound, Settle,
          SettleReadFails, RecordParked, ClearParked, WriteStatus, SettleWriteFails,
          Finish, ReleaseDeferred, ReleaseClaims, Registry!Release
<1>3. ASSUME NEW r \in Run, RouteStep(r)
      PROVE  UNCHANGED cancelled
  BY <1>3 DEF RouteStep, GraphStarts, Park, RouteEnds
<1>4. ASSUME NEW r \in Run, Disconnect(r)
      PROVE  UNCHANGED cancelled
  BY <1>4 DEF Disconnect, Registry!SourceAbort
<1>5. ASSUME NEW d \in Delete, DeleteStep(d)
      PROVE  UNCHANGED cancelled
  BY <1>5 DEF DeleteStep, DeleteRequest, DeleteCheckpoints, DeleteRow, DeleteFails
<1>6. Shutdown \/ Drained \/ Crash => UNCHANGED cancelled
  BY DEF Shutdown, Drained, Crash, Registry!SourceAbort
<1>7. ASSUME NEW c \in Cancel, CancelStep(c)
      PROVE  handle[x] = "held" /\ Slot = x
  <2>1. CASE CancelRun(c)
    BY <2>1, RuntimeAssumption DEF CancelRun, Registry!CancelClaim, Registry!CancelEntry,
            Registry!Bound, SlotInv, CtlType, HandleInv, Slot
  <2>2. CASE CancelRequest(c) \/ CancelNothing(c)
    BY <2>2 DEF CancelRequest, CancelNothing, Registry!TakeClaim
  <2> QED
    BY <1>7, <2>1, <2>2 DEF CancelStep
<1>8. CASE UNCHANGED vars
  BY <1>8 DEF vars
<1> QED
  BY <1>1, <1>2, <1>3, <1>4, <1>5, <1>6, <1>7, <1>8 DEF Next

(* A cancel stops only the run that holds the slot, whatever the handlers  *)
(* did between the claim and the cancel.                                   *)
THEOREM CancelsHitTheHolder == Spec => CancelHitsHolder
<1>1. SlotInv /\ [Next]_vars =>
          [\A r \in cancelled' \ cancelled :
              handle[r] = "held" /\ Slot = r]_registryVars
  BY HitStep
<1> QED
  BY <1>1, SlotInvariant, PTL DEF Spec, CancelHitsHolder

-----------------------------------------------------------------------------
(* The row says "busy" while the run that wrote it is on its way to the    *)
(* status write that ends it; a wait that gave its slot up has written it  *)
(* before.                                                                 *)
BusyInv ==
    row.exists /\ row.status = "busy" /\ faults = 0 /\ killed = {} =>
        \E r \in Run : \/ pc[r] \in {"run", "respond"}
                       \/ pc[r] \in {"settle", "record", "clear", "status"} /\ late[r] = "no"

LEMMA BusyStep == SlotInv /\ DataInv /\ BusyInv /\ [Next]_vars => BusyInv'
<1> SUFFICES ASSUME SlotInv, DataInv, BusyInv, [Next]_vars
             PROVE  BusyInv'
  OBVIOUS
<1> USE RuntimeAssumption DEF SlotInv, LateInv, DataInv, RowType, BusyInv, CtlType,
        Executing, Run, Request, Streaming, Resuming, AgUi, Leave, Goto, Fault,
        registryVars, storeVars, localVars, historyVars
<1>1. ASSUME NEW r \in Run, StartStep(r)
      PROVE  BusyInv'
  <2>1. CASE Admit(r)
    BY <2>1 DEF Admit
  <2>2. CASE Refuse(r)
    BY <2>2 DEF Refuse
  <2>3. CASE TryClaim(r)
    BY <2>3 DEF TryClaim
  <2>4. CASE ReadPending(r)
    BY <2>4 DEF ReadPending
  <2>5. CASE RejectResume(r)
    BY <2>5 DEF RejectResume
  <2>6. CASE Load(r)
    BY <2>6 DEF Load
  <2>7. CASE Create(r)
    BY <2>7 DEF Create, FreshRow, MissingRow
  <2>8. CASE Begin(r)
    BY <2>8 DEF Begin, Registry!Begin
  <2>9. CASE BeginRefused(r)
    BY <2>9 DEF BeginRefused
  <2>10. CASE SampleBefore(r)
    BY <2>10 DEF SampleBefore
  <2>11. CASE MarkRoute(r)
    BY <2>11 DEF MarkRoute, UpdateRoute
  <2>12. CASE MarkBusy(r)
    BY <2>12 DEF MarkBusy, UpdateStatus
  <2>13. CASE StartFails(r)
    BY <2>13 DEF StartFails, Registry!Release
  <2> QED
    BY <1>1, <2>1, <2>2, <2>3, <2>4, <2>5, <2>6, <2>7, <2>8, <2>9, <2>10, <2>11, <2>12,
       <2>13 DEF StartStep
<1>2. ASSUME NEW r \in Run, RunStep(r)
      PROVE  BusyInv'
  <2>1. CASE SeeInterrupt(r)
    BY <2>1 DEF SeeInterrupt
  <2>2. CASE RouteSettled(r)
    BY <2>2 DEF RouteSettled
  <2>3. CASE AbortWins(r)
    BY <2>3 DEF AbortWins
  <2>4. CASE Respond(r)
    BY <2>4 DEF Respond, UpdateStatus, FreesSlot, Registry!Release
  <2>5. CASE Unwound(r)
    BY <2>5 DEF Unwound
  <2>6. CASE Settle(r)
    BY <2>6 DEF Settle, AfterSettle, SawPark, Clearable, MayClear
  <2>7. CASE SettleReadFails(r)
    BY <2>7 DEF SettleReadFails, AfterSettle
  <2>8. CASE RecordParked(r)
    BY <2>8 DEF RecordParked, AfterSettle, UpdateParked
  <2>9. CASE ClearParked(r)
    BY <2>9 DEF ClearParked, AfterSettle, UpdateParked
  <2>10. CASE WriteStatus(r)
    BY <2>10 DEF WriteStatus, UpdateStatus, TerminalStatus
  <2>11. CASE SettleWriteFails(r)
    BY <2>11 DEF SettleWriteFails, AfterSettle
  <2>12. CASE Finish(r)
    BY <2>12 DEF Finish, ReleaseClaims, Deferred, Registry!Release
  <2>13. CASE ReleaseDeferred(r)
    BY <2>13 DEF ReleaseDeferred, ReleaseClaims, Registry!Release
  <2> QED
    BY <1>2, <2>1, <2>2, <2>3, <2>4, <2>5, <2>6, <2>7, <2>8, <2>9, <2>10, <2>11, <2>12,
       <2>13 DEF RunStep
<1>3. ASSUME NEW r \in Run, RouteStep(r)
      PROVE  BusyInv'
  <2>1. CASE GraphStarts(r)
    BY <2>1 DEF GraphStarts
  <2>2. CASE Park(r)
    BY <2>2 DEF Park
  <2>3. CASE RouteEnds(r)
    BY <2>3 DEF RouteEnds
  <2> QED
    BY <1>3, <2>1, <2>2, <2>3 DEF RouteStep
<1>4. ASSUME NEW r \in Run, Disconnect(r)
      PROVE  BusyInv'
  BY <1>4 DEF Disconnect, Registry!SourceAbort
<1>5. ASSUME NEW c \in Cancel, CancelStep(c)
      PROVE  BusyInv'
  <2>1. CASE CancelRequest(c)
    BY <2>1 DEF CancelRequest, Registry!TakeClaim
  <2>2. CASE CancelRun(c)
    BY <2>2 DEF CancelRun, Registry!CancelClaim, Registry!CancelEntry
  <2>3. CASE CancelNothing(c)
    BY <2>3 DEF CancelNothing
  <2> QED
    BY <1>5, <2>1, <2>2, <2>3 DEF CancelStep
<1>6. ASSUME NEW d \in Delete, DeleteStep(d)
      PROVE  BusyInv'
  <2>1. CASE DeleteRequest(d)
    BY <2>1 DEF DeleteRequest
  <2>2. CASE DeleteCheckpoints(d)
    BY <2>2 DEF DeleteCheckpoints
  <2>3. CASE DeleteRow(d)
    BY <2>3 DEF DeleteRow, MissingRow
  <2>4. CASE DeleteFails(d)
    BY <2>4 DEF DeleteFails
  <2> QED
    BY <1>6, <2>1, <2>2, <2>3, <2>4 DEF DeleteStep
<1>7. CASE Shutdown
  BY <1>7 DEF Shutdown, Registry!SourceAbort
<1>8. CASE Drained
  BY <1>8 DEF Drained
<1>9. CASE Crash
  <2>1. /\ killed' = killed \cup {r \in Run : pc[r] \notin {"new", "done"}}
        /\ row' = row /\ faults' = faults
    BY <1>9 DEF Crash
  <2>2. killed' = {} => killed = {} /\ \A r \in Run : pc[r] \in {"new", "done"}
    BY <2>1
  <2> QED
    BY <2>1, <2>2
<1>10. CASE UNCHANGED vars
  BY <1>10 DEF vars
<1> HIDE DEF SlotInv, LateInv, DataInv, RowType, BusyInv, CtlType, Executing, Run, Request,
        Streaming, Resuming, AgUi, Leave, Goto, Fault, registryVars, storeVars, localVars,
        historyVars
<1> QED
  BY <1>1, <1>2, <1>3, <1>4, <1>5, <1>6, <1>7, <1>8, <1>9, <1>10 DEF Next

(* At rest the row does not say "busy" (the status writes of all paths).   *)
THEOREM RestIsNotBusy == Spec => []NeverStuckBusy
<1>1. Init => BusyInv
  BY DEF Init, BusyInv, MissingRow, ParkedRow
<1>2. SlotInv /\ DataInv /\ BusyInv /\ [Next]_vars => BusyInv'
  BY BusyStep
<1>3. SlotInv /\ DataInv /\ BusyInv => NeverStuckBusy
  BY RuntimeAssumption DEF SlotInv, CtlType, HandleInv, LateInv, DataInv, BusyInv,
     NeverStuckBusy, Occupies, Run
<1> QED
  BY <1>1, <1>2, <1>3, SlotInvariant, DataInvariant, PTL DEF Spec

-----------------------------------------------------------------------------
(* While a DELETE is at work every run that goes on from where it read the *)
(* row (POST /resume: the pending set) has raced it: either it was there   *)
(* at the in-flight check, or it came by later. As long as no run that     *)
(* raced has taken the slot, a run that goes on has a row, and a row that  *)
(* is gone, or is about to go, leaves nothing pending.                     *)
Clean == \A r \in raced : handle[r] = "new"
Past(r) == \/ pc[r] = "begin" \/ pc[r] \notin Early \cup {"done"}
           \/ Executing(r)
           \/ r \in Resume /\ pc[r] = "load"

BegunInv ==
    \A r \in Run : /\ pc[r] \in Locations
                   /\ pc[r] \notin Early \cup {"done"} \/ Executing(r) => handle[r] # "new"
RacedInv ==
    Deleting => \A r \in Run : Past(r) \/ pc[r] = "create" => r \in raced
RowInv ==
    Clean => /\ ~row.exists => ckpt.pending = {}
             /\ (\E d \in Delete : pc[d] = "delrow") => ckpt.pending = {}
             /\ \A r \in Run : Past(r) /\ r \notin raced => row.exists

LEMMA BegunStep == SlotInv /\ BegunInv /\ [Next]_vars => BegunInv'
<1> SUFFICES ASSUME SlotInv, BegunInv, [Next]_vars
             PROVE  BegunInv'
  OBVIOUS
<1> USE RuntimeAssumption DEF SlotInv, HandleInv, BegunInv, Early, Occupies, Locations,
        CtlType, Executing, Run, Request, Streaming, Resuming, AgUi, Leave, Goto, Fault,
        registryVars, storeVars, localVars, historyVars
<1>1. ASSUME NEW r \in Run, StartStep(r)
      PROVE  BegunInv'
  <2>1. CASE Admit(r)
    BY <2>1 DEF Admit
  <2>2. CASE Refuse(r)
    BY <2>2 DEF Refuse
  <2>3. CASE TryClaim(r)
    BY <2>3 DEF TryClaim
  <2>4. CASE ReadPending(r)
    BY <2>4 DEF ReadPending
  <2>5. CASE RejectResume(r)
    BY <2>5 DEF RejectResume
  <2>6. CASE Load(r)
    BY <2>6 DEF Load
  <2>7. CASE Create(r)
    BY <2>7 DEF Create, FreshRow, MissingRow
  <2>8. CASE Begin(r)
    BY <2>8 DEF Begin, Registry!Begin
  <2>9. CASE BeginRefused(r)
    BY <2>9 DEF BeginRefused
  <2>10. CASE SampleBefore(r)
    BY <2>10 DEF SampleBefore
  <2>11. CASE MarkRoute(r)
    BY <2>11 DEF MarkRoute, UpdateRoute
  <2>12. CASE MarkBusy(r)
    BY <2>12 DEF MarkBusy, UpdateStatus
  <2>13. CASE StartFails(r)
    BY <2>13 DEF StartFails, Registry!Release
  <2> QED
    BY <1>1, <2>1, <2>2, <2>3, <2>4, <2>5, <2>6, <2>7, <2>8, <2>9, <2>10, <2>11, <2>12,
       <2>13 DEF StartStep
<1>2. ASSUME NEW r \in Run, RunStep(r)
      PROVE  BegunInv'
  <2>1. CASE SeeInterrupt(r)
    BY <2>1 DEF SeeInterrupt
  <2>2. CASE RouteSettled(r)
    BY <2>2 DEF RouteSettled
  <2>3. CASE AbortWins(r)
    BY <2>3 DEF AbortWins
  <2>4. CASE Respond(r)
    BY <2>4 DEF Respond, UpdateStatus, FreesSlot, Registry!Release
  <2>5. CASE Unwound(r)
    BY <2>5 DEF Unwound
  <2>6. CASE Settle(r)
    BY <2>6 DEF Settle, AfterSettle, SawPark, Clearable, MayClear
  <2>7. CASE SettleReadFails(r)
    BY <2>7 DEF SettleReadFails, AfterSettle
  <2>8. CASE RecordParked(r)
    BY <2>8 DEF RecordParked, AfterSettle, UpdateParked
  <2>9. CASE ClearParked(r)
    BY <2>9 DEF ClearParked, AfterSettle, UpdateParked
  <2>10. CASE WriteStatus(r)
    BY <2>10 DEF WriteStatus, UpdateStatus, TerminalStatus
  <2>11. CASE SettleWriteFails(r)
    BY <2>11 DEF SettleWriteFails, AfterSettle
  <2>12. CASE Finish(r)
    BY <2>12 DEF Finish, ReleaseClaims, Deferred, Registry!Release
  <2>13. CASE ReleaseDeferred(r)
    BY <2>13 DEF ReleaseDeferred, ReleaseClaims, Registry!Release
  <2> QED
    BY <1>2, <2>1, <2>2, <2>3, <2>4, <2>5, <2>6, <2>7, <2>8, <2>9, <2>10, <2>11, <2>12,
       <2>13 DEF RunStep
<1>3. ASSUME NEW r \in Run, RouteStep(r)
      PROVE  BegunInv'
  <2>1. CASE GraphStarts(r)
    BY <2>1 DEF GraphStarts
  <2>2. CASE Park(r)
    BY <2>2 DEF Park
  <2>3. CASE RouteEnds(r)
    BY <2>3 DEF RouteEnds
  <2> QED
    BY <1>3, <2>1, <2>2, <2>3 DEF RouteStep
<1>4. ASSUME NEW r \in Run, Disconnect(r)
      PROVE  BegunInv'
  BY <1>4 DEF Disconnect, Registry!SourceAbort
<1>5. ASSUME NEW c \in Cancel, CancelStep(c)
      PROVE  BegunInv'
  <2>1. CASE CancelRequest(c)
    BY <2>1 DEF CancelRequest, Registry!TakeClaim
  <2>2. CASE CancelRun(c)
    BY <2>2 DEF CancelRun, Registry!CancelClaim, Registry!CancelEntry
  <2>3. CASE CancelNothing(c)
    BY <2>3 DEF CancelNothing
  <2> QED
    BY <1>5, <2>1, <2>2, <2>3 DEF CancelStep
<1>6. ASSUME NEW d \in Delete, DeleteStep(d)
      PROVE  BegunInv'
  <2>1. CASE DeleteRequest(d)
    BY <2>1 DEF DeleteRequest
  <2>2. CASE DeleteCheckpoints(d)
    BY <2>2 DEF DeleteCheckpoints
  <2>3. CASE DeleteRow(d)
    BY <2>3 DEF DeleteRow, MissingRow
  <2>4. CASE DeleteFails(d)
    BY <2>4 DEF DeleteFails
  <2> QED
    BY <1>6, <2>1, <2>2, <2>3, <2>4 DEF DeleteStep
<1>7. CASE Shutdown
  BY <1>7 DEF Shutdown, Registry!SourceAbort
<1>8. CASE Drained
  BY <1>8 DEF Drained
<1>9. CASE Crash
  BY <1>9 DEF Crash
<1>10. CASE UNCHANGED vars
  BY <1>10 DEF vars
<1> HIDE DEF SlotInv, HandleInv, BegunInv, Early, Occupies, Locations, CtlType, Executing,
        Run, Request, Streaming, Resuming, AgUi, Leave, Goto, Fault, registryVars,
        storeVars, localVars, historyVars
<1> QED
  BY <1>1, <1>2, <1>3, <1>4, <1>5, <1>6, <1>7, <1>8, <1>9, <1>10 DEF Next

LEMMA RacedStep == SlotInv /\ BegunInv /\ RacedInv /\ [Next]_vars => RacedInv'
<1> SUFFICES ASSUME SlotInv, BegunInv, RacedInv, [Next]_vars
             PROVE  RacedInv'
  OBVIOUS
<1> USE RuntimeAssumption DEF SlotInv, HandleInv, AbortInv, LateInv, ExecInv, BegunInv,
        RacedInv, Past, Deleting, Early, Occupies, CtlType, Executing, Run, Request,
        Streaming, Resuming, AgUi, Leave, Goto, Fault, registryVars, storeVars, localVars,
        historyVars
<1>1. ASSUME NEW r \in Run, StartStep(r)
      PROVE  RacedInv'
  <2>1. CASE Admit(r)
    BY <2>1 DEF Admit
  <2>2. CASE Refuse(r)
    BY <2>2 DEF Refuse
  <2>3. CASE TryClaim(r)
    BY <2>3 DEF TryClaim
  <2>4. CASE ReadPending(r)
    BY <2>4 DEF ReadPending
  <2>5. CASE RejectResume(r)
    BY <2>5 DEF RejectResume
  <2>6. CASE Load(r)
    BY <2>6 DEF Load
  <2>7. CASE Create(r)
    BY <2>7 DEF Create, FreshRow, MissingRow
  <2>8. CASE Begin(r)
    BY <2>8 DEF Begin, Registry!Begin
  <2>9. CASE BeginRefused(r)
    BY <2>9 DEF BeginRefused
  <2>10. CASE SampleBefore(r)
    BY <2>10 DEF SampleBefore
  <2>11. CASE MarkRoute(r)
    BY <2>11 DEF MarkRoute, UpdateRoute
  <2>12. CASE MarkBusy(r)
    BY <2>12 DEF MarkBusy, UpdateStatus
  <2>13. CASE StartFails(r)
    BY <2>13 DEF StartFails, Registry!Release
  <2> QED
    BY <1>1, <2>1, <2>2, <2>3, <2>4, <2>5, <2>6, <2>7, <2>8, <2>9, <2>10, <2>11, <2>12,
       <2>13 DEF StartStep
<1>2. ASSUME NEW r \in Run, RunStep(r)
      PROVE  RacedInv'
  <2>1. CASE SeeInterrupt(r)
    BY <2>1 DEF SeeInterrupt
  <2>2. CASE RouteSettled(r)
    BY <2>2 DEF RouteSettled
  <2>3. CASE AbortWins(r)
    BY <2>3 DEF AbortWins
  <2>4. CASE Respond(r)
    BY <2>4 DEF Respond, UpdateStatus, FreesSlot, Registry!Release
  <2>5. CASE Unwound(r)
    BY <2>5 DEF Unwound
  <2>6. CASE Settle(r)
    BY <2>6 DEF Settle, AfterSettle, SawPark, Clearable, MayClear
  <2>7. CASE SettleReadFails(r)
    BY <2>7 DEF SettleReadFails, AfterSettle
  <2>8. CASE RecordParked(r)
    BY <2>8 DEF RecordParked, AfterSettle, UpdateParked
  <2>9. CASE ClearParked(r)
    BY <2>9 DEF ClearParked, AfterSettle, UpdateParked
  <2>10. CASE WriteStatus(r)
    BY <2>10 DEF WriteStatus, UpdateStatus, TerminalStatus
  <2>11. CASE SettleWriteFails(r)
    BY <2>11 DEF SettleWriteFails, AfterSettle
  <2>12. CASE Finish(r)
    BY <2>12 DEF Finish, ReleaseClaims, Deferred, Registry!Release
  <2>13. CASE ReleaseDeferred(r)
    BY <2>13 DEF ReleaseDeferred, ReleaseClaims, Registry!Release
  <2> QED
    BY <1>2, <2>1, <2>2, <2>3, <2>4, <2>5, <2>6, <2>7, <2>8, <2>9, <2>10, <2>11, <2>12,
       <2>13 DEF RunStep
<1>3. ASSUME NEW r \in Run, RouteStep(r)
      PROVE  RacedInv'
  <2>1. CASE GraphStarts(r)
    BY <2>1 DEF GraphStarts
  <2>2. CASE Park(r)
    BY <2>2 DEF Park
  <2>3. CASE RouteEnds(r)
    BY <2>3 DEF RouteEnds
  <2> QED
    BY <1>3, <2>1, <2>2, <2>3 DEF RouteStep
<1>4. ASSUME NEW r \in Run, Disconnect(r)
      PROVE  RacedInv'
  BY <1>4 DEF Disconnect, Registry!SourceAbort
<1>5. ASSUME NEW c \in Cancel, CancelStep(c)
      PROVE  RacedInv'
  <2>1. CASE CancelRequest(c)
    BY <2>1 DEF CancelRequest, Registry!TakeClaim
  <2>2. CASE CancelRun(c)
    BY <2>2 DEF CancelRun, Registry!CancelClaim, Registry!CancelEntry
  <2>3. CASE CancelNothing(c)
    BY <2>3 DEF CancelNothing
  <2> QED
    BY <1>5, <2>1, <2>2, <2>3 DEF CancelStep
<1>6. ASSUME NEW d \in Delete, DeleteStep(d)
      PROVE  RacedInv'
  <2>1. CASE DeleteRequest(d)
    <3>1. phase = "open" /\ \A q \in Run : pc'[q] = pc[q] /\ exec'[q] = exec[q]
      BY <2>1, RuntimeAssumption DEF DeleteRequest
    <3>2. CASE Slot # NoRun
      <4>1. raced' = raced /\ pc' = [pc EXCEPT ![d] = "done"]
        BY <2>1, <3>2 DEF DeleteRequest
      <4>2. Deleting' => Deleting
        BY <4>1
      <4> QED
        BY <3>1, <4>1, <4>2
    <3>3. CASE Slot = NoRun
      <4>1. \A q \in Run : late[q] # "shutdown" /\ ~Occupies(q)
        BY <3>1, <3>3
      <4>2. \A q \in Run : pc[q] \in Early \cup {"done"}
        BY <4>1 DEF Locations
      <4>3. \A q \in Run : ~Executing(q)
        BY <3>1, <4>2 DEF Settling
      <4>4. raced' = raced \cup {q \in Run : pc[q] \in {"create", "begin"}}
                           \cup {q \in Resume : pc[q] = "load"}
        BY <2>1, <3>3 DEF DeleteRequest
      <4> QED
        BY <3>1, <4>2, <4>3, <4>4
    <3> QED
      BY <3>2, <3>3
  <2>2. CASE DeleteCheckpoints(d)
    BY <2>2 DEF DeleteCheckpoints
  <2>3. CASE DeleteRow(d)
    BY <2>3 DEF DeleteRow, MissingRow
  <2>4. CASE DeleteFails(d)
    BY <2>4 DEF DeleteFails
  <2> QED
    BY <1>6, <2>1, <2>2, <2>3, <2>4 DEF DeleteStep
<1>7. CASE Shutdown
  BY <1>7 DEF Shutdown, Registry!SourceAbort
<1>8. CASE Drained
  BY <1>8 DEF Drained
<1>9. CASE Crash
  BY <1>9 DEF Crash
<1>10. CASE UNCHANGED vars
  BY <1>10 DEF vars
<1> HIDE DEF SlotInv, HandleInv, AbortInv, LateInv, ExecInv, BegunInv, RacedInv, Past,
        Deleting, Early, Occupies, CtlType, Executing, Run, Request, Streaming, Resuming,
        AgUi, Leave, Goto, Fault, registryVars, storeVars, localVars, historyVars
<1> QED
  BY <1>1, <1>2, <1>3, <1>4, <1>5, <1>6, <1>7, <1>8, <1>9, <1>10 DEF Next

LEMMA RowStep == SlotInv /\ DataInv /\ BegunInv /\ RacedInv /\ RowInv /\ [Next]_vars => RowInv'
<1> SUFFICES ASSUME SlotInv, DataInv, BegunInv, RacedInv, RowInv, [Next]_vars
             PROVE  RowInv'
  OBVIOUS
<1> USE RuntimeAssumption DEF SlotInv, HandleInv, DataInv, RowType, BegunInv, RacedInv,
        RowInv, Clean, Past, Deleting, Early, CtlType, Executing, Run, Request, Streaming,
        Resuming, AgUi, Leave, Goto, Fault, registryVars, storeVars, localVars, historyVars
<1>1. ASSUME NEW r \in Run, StartStep(r)
      PROVE  RowInv'
  <2>1. CASE Admit(r)
    BY <2>1 DEF Admit
  <2>2. CASE Refuse(r)
    BY <2>2 DEF Refuse
  <2>3. CASE TryClaim(r)
    BY <2>3 DEF TryClaim
  <2>4. CASE ReadPending(r)
    BY <2>4 DEF ReadPending
  <2>5. CASE RejectResume(r)
    BY <2>5 DEF RejectResume
  <2>6. CASE Load(r)
    BY <2>6 DEF Load
  <2>7. CASE Create(r)
    BY <2>7 DEF Create, FreshRow, MissingRow
  <2>8. CASE Begin(r)
    BY <2>8 DEF Begin, Registry!Begin
  <2>9. CASE BeginRefused(r)
    BY <2>9 DEF BeginRefused
  <2>10. CASE SampleBefore(r)
    BY <2>10 DEF SampleBefore
  <2>11. CASE MarkRoute(r)
    BY <2>11 DEF MarkRoute, UpdateRoute
  <2>12. CASE MarkBusy(r)
    BY <2>12 DEF MarkBusy, UpdateStatus
  <2>13. CASE StartFails(r)
    BY <2>13 DEF StartFails, Registry!Release
  <2> QED
    BY <1>1, <2>1, <2>2, <2>3, <2>4, <2>5, <2>6, <2>7, <2>8, <2>9, <2>10, <2>11, <2>12,
       <2>13 DEF StartStep
<1>2. ASSUME NEW r \in Run, RunStep(r)
      PROVE  RowInv'
  <2>1. CASE SeeInterrupt(r)
    BY <2>1 DEF SeeInterrupt
  <2>2. CASE RouteSettled(r)
    BY <2>2 DEF RouteSettled
  <2>3. CASE AbortWins(r)
    BY <2>3 DEF AbortWins
  <2>4. CASE Respond(r)
    <3>1. /\ row'.exists = row.exists
          /\ pc' = [pc EXCEPT ![r] = "detached"] /\ pc[r] = "respond"
          /\ UNCHANGED <<ckpt, raced, exec>>
      BY <2>4 DEF Respond, UpdateStatus
    <3>2. \A q \in Run : handle'[q] = "new" <=> handle[q] = "new"
      <4>1. handle[r] # "new"
        BY <3>1
      <4> QED
        BY <2>4, <4>1 DEF Respond, FreesSlot, Registry!Release
    <3> QED
      BY <3>1, <3>2
  <2>5. CASE Unwound(r)
    BY <2>5 DEF Unwound
  <2>6. CASE Settle(r)
    BY <2>6 DEF Settle, AfterSettle, SawPark, Clearable, MayClear
  <2>7. CASE SettleReadFails(r)
    BY <2>7 DEF SettleReadFails, AfterSettle
  <2>8. CASE RecordParked(r)
    BY <2>8 DEF RecordParked, AfterSettle, UpdateParked
  <2>9. CASE ClearParked(r)
    BY <2>9 DEF ClearParked, AfterSettle, UpdateParked
  <2>10. CASE WriteStatus(r)
    BY <2>10 DEF WriteStatus, UpdateStatus, TerminalStatus
  <2>11. CASE SettleWriteFails(r)
    BY <2>11 DEF SettleWriteFails, AfterSettle
  <2>12. CASE Finish(r)
    BY <2>12 DEF Finish, ReleaseClaims, Deferred, Registry!Release
  <2>13. CASE ReleaseDeferred(r)
    BY <2>13 DEF ReleaseDeferred, ReleaseClaims, Registry!Release
  <2> QED
    BY <1>2, <2>1, <2>2, <2>3, <2>4, <2>5, <2>6, <2>7, <2>8, <2>9, <2>10, <2>11, <2>12,
       <2>13 DEF RunStep
<1>3. ASSUME NEW r \in Run, RouteStep(r)
      PROVE  RowInv'
  <2>1. CASE GraphStarts(r)
    BY <2>1 DEF GraphStarts
  <2>2. CASE Park(r)
    BY <2>2 DEF Park
  <2>3. CASE RouteEnds(r)
    BY <2>3 DEF RouteEnds
  <2> QED
    BY <1>3, <2>1, <2>2, <2>3 DEF RouteStep
<1>4. ASSUME NEW r \in Run, Disconnect(r)
      PROVE  RowInv'
  BY <1>4 DEF Disconnect, Registry!SourceAbort
<1>5. ASSUME NEW c \in Cancel, CancelStep(c)
      PROVE  RowInv'
  <2>1. CASE CancelRequest(c)
    BY <2>1 DEF CancelRequest, Registry!TakeClaim
  <2>2. CASE CancelRun(c)
    BY <2>2 DEF CancelRun, Registry!CancelClaim, Registry!CancelEntry
  <2>3. CASE CancelNothing(c)
    BY <2>3 DEF CancelNothing
  <2> QED
    BY <1>5, <2>1, <2>2, <2>3 DEF CancelStep
<1>6. ASSUME NEW d \in Delete, DeleteStep(d)
      PROVE  RowInv'
  <2>1. CASE DeleteRequest(d)
    BY <2>1 DEF DeleteRequest
  <2>2. CASE DeleteCheckpoints(d)
    BY <2>2 DEF DeleteCheckpoints
  <2>3. CASE DeleteRow(d)
    BY <2>3 DEF DeleteRow, MissingRow
  <2>4. CASE DeleteFails(d)
    BY <2>4 DEF DeleteFails
  <2> QED
    BY <1>6, <2>1, <2>2, <2>3, <2>4 DEF DeleteStep
<1>7. CASE Shutdown
  BY <1>7 DEF Shutdown, Registry!SourceAbort
<1>8. CASE Drained
  BY <1>8 DEF Drained
<1>9. CASE Crash
  BY <1>9 DEF Crash
<1>10. CASE UNCHANGED vars
  BY <1>10 DEF vars
<1> HIDE DEF SlotInv, HandleInv, DataInv, RowType, BegunInv, RacedInv, RowInv, Clean, Past,
        Deleting, Early, CtlType, Executing, Run, Request, Streaming, Resuming, AgUi, Leave,
        Goto, Fault, registryVars, storeVars, localVars, historyVars
<1> QED
  BY <1>1, <1>2, <1>3, <1>4, <1>5, <1>6, <1>7, <1>8, <1>9, <1>10 DEF Next

THEOREM DeleteInvariant == Spec => [](BegunInv /\ RacedInv /\ RowInv)
<1>1. Init => BegunInv /\ RacedInv /\ RowInv
  BY RuntimeAssumption DEF Init, Registry!Init, BegunInv, RacedInv, RowInv, Past, Deleting, Early, Locations,
     Executing, Request, Run, MissingRow, ParkedRow
<1>2. /\ SlotInv /\ BegunInv /\ [Next]_vars => BegunInv'
      /\ SlotInv /\ BegunInv /\ RacedInv /\ [Next]_vars => RacedInv'
      /\ SlotInv /\ DataInv /\ BegunInv /\ RacedInv /\ RowInv /\ [Next]_vars => RowInv'
  BY BegunStep, RacedStep, RowStep
<1> QED
  BY <1>1, <1>2, SlotInvariant, DataInvariant, PTL DEF Spec

(* A DELETE strands no prompt, whatever fails or interleaves, unless a run *)
(* got past its in-flight check.                                           *)
THEOREM PromptsKeepTheirRow == Spec => []NoStrandedPrompt
<1>1. SlotInv /\ RowInv => NoStrandedPrompt
  BY DEF RowInv, Clean, NoStrandedPrompt
<1> QED
  BY <1>1, SlotInvariant, DeleteInvariant, PTL

-----------------------------------------------------------------------------
(* Who parked which interrupt: a run parks once, on an agent route, after  *)
(* its sample was taken.                                                   *)
IssuedInv ==
    /\ \A r \in Run : /\ sampled[r] \subseteq 1..Len(issued)
                      /\ r \in saw => exec[r] \in {"parked", "ended", "broke"}
    /\ \A i \in 1..Len(issued) : \A r \in Run : issued[i].run = r =>
         /\ exec[r] \in {"parked", "ended", "broke"}
         /\ route[r] = issued[i].route /\ route[r] \in AgentRoute
         /\ r \in Wait => i \notin sampled[r]

(* While a run holds the slot only its own interrupts are added. So a park *)
(* that it saw, in a chunk or by the difference of its readings, is its    *)
(* own, and what it clears is gone, or its own and never seen.             *)
Regular == phase = "open" /\ faults = 0 /\ Clean
Own(r) == \A i \in ckpt.pending : issued[i].run = r
OwnInv ==
    Regular => \A r \in Run : Occupies(r) =>
        /\ r \in saw \/ exec[r] = "parked" \/ pc[r] = "record" => Own(r)
        /\ pc[r] = "clear" => Own(r) /\ (ckpt.pending = {} \/ r \in Streaming \ saw)
        /\ r \in Wait /\ pc[r] # "sample" /\ route[r] \in AgentRoute =>
             ckpt.pending \subseteq sampled[r] \/ Own(r)

RecordInv ==
    Regular /\ row.exists => \A i \in ckpt.pending : LET r == issued[i].run IN
        \/ row.parked = issued[i].route
        \/ r \in Run /\ (~Settled(r) \/ r \in killed \/ r \in Streaming \ saw)

LEMMA IssuedStep == SlotInv /\ DataInv /\ IssuedInv /\ [Next]_vars => IssuedInv'
<1> SUFFICES ASSUME SlotInv, DataInv, IssuedInv, [Next]_vars
             PROVE  IssuedInv'
  OBVIOUS
<1> USE RuntimeAssumption DEF SlotInv, DataInv, RowType, IssuedInv, Early, CtlType,
        Executing, Run, Request, Streaming, Resuming, AgUi, Leave, Goto, Fault,
        registryVars, storeVars, localVars, historyVars
<1>1. ASSUME NEW r \in Run, StartStep(r)
      PROVE  IssuedInv'
  <2>1. CASE Admit(r)
    BY <2>1 DEF Admit
  <2>2. CASE Refuse(r)
    BY <2>2 DEF Refuse
  <2>3. CASE TryClaim(r)
    BY <2>3 DEF TryClaim
  <2>4. CASE ReadPending(r)
    BY <2>4, SMTT(60) DEF ReadPending
  <2>5. CASE RejectResume(r)
    BY <2>5 DEF RejectResume
  <2>6. CASE Load(r)
    BY <2>6 DEF Load
  <2>7. CASE Create(r)
    BY <2>7 DEF Create, FreshRow, MissingRow
  <2>8. CASE Begin(r)
    BY <2>8 DEF Begin, Registry!Begin
  <2>9. CASE BeginRefused(r)
    BY <2>9 DEF BeginRefused
  <2>10. CASE SampleBefore(r)
    BY <2>10 DEF SampleBefore
  <2>11. CASE MarkRoute(r)
    BY <2>11 DEF MarkRoute, UpdateRoute
  <2>12. CASE MarkBusy(r)
    BY <2>12 DEF MarkBusy, UpdateStatus
  <2>13. CASE StartFails(r)
    BY <2>13 DEF StartFails, Registry!Release
  <2> QED
    BY <1>1, <2>1, <2>2, <2>3, <2>4, <2>5, <2>6, <2>7, <2>8, <2>9, <2>10, <2>11, <2>12,
       <2>13 DEF StartStep
<1>2. ASSUME NEW r \in Run, RunStep(r)
      PROVE  IssuedInv'
  <2>1. CASE SeeInterrupt(r)
    BY <2>1 DEF SeeInterrupt
  <2>2. CASE RouteSettled(r)
    BY <2>2 DEF RouteSettled
  <2>3. CASE AbortWins(r)
    BY <2>3 DEF AbortWins
  <2>4. CASE Respond(r)
    BY <2>4 DEF Respond, UpdateStatus, FreesSlot, Registry!Release
  <2>5. CASE Unwound(r)
    BY <2>5 DEF Unwound
  <2>6. CASE Settle(r)
    BY <2>6 DEF Settle, AfterSettle, SawPark, Clearable, MayClear
  <2>7. CASE SettleReadFails(r)
    BY <2>7 DEF SettleReadFails, AfterSettle
  <2>8. CASE RecordParked(r)
    BY <2>8 DEF RecordParked, AfterSettle, UpdateParked
  <2>9. CASE ClearParked(r)
    BY <2>9 DEF ClearParked, AfterSettle, UpdateParked
  <2>10. CASE WriteStatus(r)
    BY <2>10 DEF WriteStatus, UpdateStatus, TerminalStatus
  <2>11. CASE SettleWriteFails(r)
    BY <2>11 DEF SettleWriteFails, AfterSettle
  <2>12. CASE Finish(r)
    BY <2>12 DEF Finish, ReleaseClaims, Deferred, Registry!Release
  <2>13. CASE ReleaseDeferred(r)
    BY <2>13 DEF ReleaseDeferred, ReleaseClaims, Registry!Release
  <2> QED
    BY <1>2, <2>1, <2>2, <2>3, <2>4, <2>5, <2>6, <2>7, <2>8, <2>9, <2>10, <2>11, <2>12,
       <2>13 DEF RunStep
<1>3. ASSUME NEW r \in Run, RouteStep(r)
      PROVE  IssuedInv'
  <2>1. CASE GraphStarts(r)
    BY <2>1 DEF GraphStarts
  <2>2. CASE Park(r)
    BY <2>2 DEF Park
  <2>3. CASE RouteEnds(r)
    BY <2>3 DEF RouteEnds
  <2> QED
    BY <1>3, <2>1, <2>2, <2>3 DEF RouteStep
<1>4. ASSUME NEW r \in Run, Disconnect(r)
      PROVE  IssuedInv'
  BY <1>4 DEF Disconnect, Registry!SourceAbort
<1>5. ASSUME NEW c \in Cancel, CancelStep(c)
      PROVE  IssuedInv'
  <2>1. CASE CancelRequest(c)
    BY <2>1 DEF CancelRequest, Registry!TakeClaim
  <2>2. CASE CancelRun(c)
    BY <2>2 DEF CancelRun, Registry!CancelClaim, Registry!CancelEntry
  <2>3. CASE CancelNothing(c)
    BY <2>3 DEF CancelNothing
  <2> QED
    BY <1>5, <2>1, <2>2, <2>3 DEF CancelStep
<1>6. ASSUME NEW d \in Delete, DeleteStep(d)
      PROVE  IssuedInv'
  <2>1. CASE DeleteRequest(d)
    BY <2>1 DEF DeleteRequest
  <2>2. CASE DeleteCheckpoints(d)
    BY <2>2 DEF DeleteCheckpoints
  <2>3. CASE DeleteRow(d)
    BY <2>3 DEF DeleteRow, MissingRow
  <2>4. CASE DeleteFails(d)
    BY <2>4 DEF DeleteFails
  <2> QED
    BY <1>6, <2>1, <2>2, <2>3, <2>4 DEF DeleteStep
<1>7. CASE Shutdown
  BY <1>7 DEF Shutdown, Registry!SourceAbort
<1>8. CASE Drained
  BY <1>8 DEF Drained
<1>9. CASE Crash
  BY <1>9 DEF Crash
<1>10. CASE UNCHANGED vars
  BY <1>10 DEF vars
<1> HIDE DEF SlotInv, DataInv, RowType, IssuedInv, Early, CtlType, Executing, Run, Request,
        Streaming, Resuming, AgUi, Leave, Goto, Fault, registryVars, storeVars, localVars,
        historyVars
<1> QED
  BY <1>1, <1>2, <1>3, <1>4, <1>5, <1>6, <1>7, <1>8, <1>9, <1>10 DEF Next

LEMMA OwnStep == SlotInv /\ DataInv /\ IssuedInv /\ OwnInv /\ [Next]_vars => OwnInv'
<1> SUFFICES ASSUME SlotInv, DataInv, IssuedInv, OwnInv, [Next]_vars
             PROVE  OwnInv'
  OBVIOUS
<1> USE RuntimeAssumption DEF SlotInv, HandleInv, AbortInv, LateInv, ExecInv, DataInv,
        RowType, IssuedInv, OwnInv, Regular, Clean, Own, Occupies, CtlType, Executing, Run,
        Request, Streaming, Resuming, AgUi, Leave, Goto, Fault, registryVars, storeVars,
        localVars, historyVars
<1>1. ASSUME NEW r \in Run, StartStep(r)
      PROVE  OwnInv'
  <2>1. CASE Admit(r)
    BY <2>1 DEF Admit
  <2>2. CASE Refuse(r)
    BY <2>2 DEF Refuse
  <2>3. CASE TryClaim(r)
    <3>1. /\ pc'[r] \in {"read", "done"} /\ \A q \in Run : q # r => pc'[q] = pc[q]
          /\ UNCHANGED <<ckpt, issued, route, sampled, saw, late, exec, phase, faults, handle, raced>>
      BY <2>3 DEF TryClaim
    <3>2. \A q \in Run : Occupies(q)' => q # r /\ Occupies(q) /\ pc'[q] = pc[q]
      BY <3>1
    <3> QED
      BY <3>1, <3>2
  <2>4. CASE ReadPending(r)
    BY <2>4 DEF ReadPending
  <2>5. CASE RejectResume(r)
    BY <2>5 DEF RejectResume
  <2>6. CASE Load(r)
    BY <2>6 DEF Load
  <2>7. CASE Create(r)
    <3>1. /\ pc'[r] \in {"begin", "done"} /\ \A q \in Run : q # r => pc'[q] = pc[q]
          /\ UNCHANGED <<ckpt, issued, route, sampled, saw, late, exec, phase, faults, handle, raced>>
      BY <2>7 DEF Create
    <3>2. \A q \in Run : Occupies(q)' => q # r /\ Occupies(q) /\ pc'[q] = pc[q]
      BY <3>1
    <3> QED
      BY <3>1, <3>2
  <2>8. CASE Begin(r)
    <3>1. exec[r] = "none" /\ r \notin saw /\ pc[r] = "begin"
      BY <2>8 DEF Begin, Early
    <3>2. /\ pc'[r] \in {"sample", "mark", "busy"}
          /\ r \in Wait /\ route[r] \in AgentRoute => pc'[r] = "sample"
          /\ \A q \in Run : q # r => pc'[q] = pc[q]
          /\ UNCHANGED <<ckpt, issued, route, sampled, saw, late, exec, phase, faults, raced>>
      BY <2>8 DEF Begin
    <3>3. Clean' => Clean
      BY <2>8 DEF Begin, Registry!Begin
    <3> QED
      BY <3>1, <3>2, <3>3
  <2>9. CASE BeginRefused(r)
    BY <2>9 DEF BeginRefused
  <2>10. CASE SampleBefore(r)
    BY <2>10 DEF SampleBefore
  <2>11. CASE MarkRoute(r)
    BY <2>11 DEF MarkRoute, UpdateRoute
  <2>12. CASE MarkBusy(r)
    BY <2>12 DEF MarkBusy, UpdateStatus
  <2>13. CASE StartFails(r)
    BY <2>13 DEF StartFails, Registry!Release
  <2> QED
    BY <1>1, <2>1, <2>2, <2>3, <2>4, <2>5, <2>6, <2>7, <2>8, <2>9, <2>10, <2>11, <2>12,
       <2>13 DEF StartStep
<1>2. ASSUME NEW r \in Run, RunStep(r)
      PROVE  OwnInv'
  <2>1. CASE SeeInterrupt(r)
    BY <2>1 DEF SeeInterrupt
  <2>2. CASE RouteSettled(r)
    BY <2>2 DEF RouteSettled
  <2>3. CASE AbortWins(r)
    <3>1. /\ pc[r] = "run" /\ pc'[r] \in {"respond", "settle"}
          /\ \A q \in Run : q # r => pc'[q] = pc[q] /\ late'[q] = late[q]
          /\ UNCHANGED <<ckpt, issued, route, sampled, saw, exec, phase, faults, handle, raced>>
      BY <2>3 DEF AbortWins
    <3>2. Occupies(r)
      BY <3>1
    <3> QED
      BY <3>1, <3>2
  <2>4. CASE Respond(r)
    BY <2>4 DEF Respond, UpdateStatus, FreesSlot, Registry!Release
  <2>5. CASE Unwound(r)
    <3>1. /\ pc[r] = "detached" /\ pc'[r] = "settle" /\ \A q \in Run : q # r => pc'[q] = pc[q]
          /\ UNCHANGED <<ckpt, issued, route, sampled, saw, late, exec, phase, faults, handle, raced>>
      BY <2>5 DEF Unwound
    <3>2. \A q \in Run : Occupies(q)' => Occupies(q)
      BY <3>1
    <3> QED
      BY <3>1, <3>2
  <2>6. CASE Settle(r)
    BY <2>6 DEF Settle, AfterSettle, SawPark, Clearable, MayClear
  <2>7. CASE SettleReadFails(r)
    BY <2>7 DEF SettleReadFails, AfterSettle
  <2>8. CASE RecordParked(r)
    BY <2>8 DEF RecordParked, AfterSettle, UpdateParked
  <2>9. CASE ClearParked(r)
    BY <2>9 DEF ClearParked, AfterSettle, UpdateParked
  <2>10. CASE WriteStatus(r)
    BY <2>10 DEF WriteStatus, UpdateStatus, TerminalStatus
  <2>11. CASE SettleWriteFails(r)
    BY <2>11 DEF SettleWriteFails, AfterSettle
  <2>12. CASE Finish(r)
    BY <2>12 DEF Finish, ReleaseClaims, Deferred, Registry!Release
  <2>13. CASE ReleaseDeferred(r)
    BY <2>13 DEF ReleaseDeferred, ReleaseClaims, Registry!Release
  <2> QED
    BY <1>2, <2>1, <2>2, <2>3, <2>4, <2>5, <2>6, <2>7, <2>8, <2>9, <2>10, <2>11, <2>12,
       <2>13 DEF RunStep
<1>3. ASSUME NEW r \in Run, RouteStep(r)
      PROVE  OwnInv'
  <2>1. CASE GraphStarts(r)
    BY <2>1 DEF GraphStarts
  <2>2. CASE Park(r)
    <3>1. /\ exec[r] = "graph" /\ r \notin saw
          /\ ckpt'.pending = {Len(issued) + 1} /\ issued'[Len(issued) + 1].run = r
          /\ UNCHANGED <<pc, route, sampled, saw, late, phase, faults, handle, raced>>
      BY <2>2 DEF Park
    <3>2. Own(r)'
      BY <3>1
    <3>3. phase = "open" => Slot = r
      BY <3>1 DEF Settling
    <3>4. phase = "open" => \A q \in Run : Occupies(q) => q = r
      BY <3>3
    <3>5. pc[r] = "clear" => r \in Streaming
      BY <3>1 DEF Settling
    <3> QED
      BY <3>1, <3>2, <3>4, <3>5
  <2>3. CASE RouteEnds(r)
    <3>1. /\ exec'[r] \in {"ended", "broke"} /\ \A q \in Run : q # r => exec'[q] = exec[q]
          /\ UNCHANGED <<pc, ckpt, issued, route, sampled, saw, late, phase, faults, handle, raced>>
      BY <2>3 DEF RouteEnds
    <3> QED
      BY <3>1
  <2> QED
    BY <1>3, <2>1, <2>2, <2>3 DEF RouteStep
<1>4. ASSUME NEW r \in Run, Disconnect(r)
      PROVE  OwnInv'
  BY <1>4 DEF Disconnect, Registry!SourceAbort
<1>5. ASSUME NEW c \in Cancel, CancelStep(c)
      PROVE  OwnInv'
  <2>1. CASE CancelRequest(c)
    BY <2>1 DEF CancelRequest, Registry!TakeClaim
  <2>2. CASE CancelRun(c)
    BY <2>2 DEF CancelRun, Registry!CancelClaim, Registry!CancelEntry
  <2>3. CASE CancelNothing(c)
    BY <2>3 DEF CancelNothing
  <2> QED
    BY <1>5, <2>1, <2>2, <2>3 DEF CancelStep
<1>6. ASSUME NEW d \in Delete, DeleteStep(d)
      PROVE  OwnInv'
  <2>1. CASE DeleteRequest(d)
    BY <2>1 DEF DeleteRequest
  <2>2. CASE DeleteCheckpoints(d)
    BY <2>2 DEF DeleteCheckpoints
  <2>3. CASE DeleteRow(d)
    BY <2>3 DEF DeleteRow, MissingRow
  <2>4. CASE DeleteFails(d)
    BY <2>4 DEF DeleteFails
  <2> QED
    BY <1>6, <2>1, <2>2, <2>3, <2>4 DEF DeleteStep
<1>7. CASE Shutdown
  BY <1>7 DEF Shutdown, Registry!SourceAbort
<1>8. CASE Drained
  BY <1>8 DEF Drained
<1>9. CASE Crash
  BY <1>9 DEF Crash
<1>10. CASE UNCHANGED vars
  BY <1>10 DEF vars
<1> HIDE DEF SlotInv, HandleInv, AbortInv, LateInv, ExecInv, DataInv, RowType, IssuedInv,
        OwnInv, Regular, Clean, Own, Occupies, CtlType, Executing, Run, Request, Streaming,
        Resuming, AgUi, Leave, Goto, Fault, registryVars, storeVars, localVars, historyVars
<1> QED
  BY <1>1, <1>2, <1>3, <1>4, <1>5, <1>6, <1>7, <1>8, <1>9, <1>10 DEF Next

LEMMA RecordStep ==
    SlotInv /\ DataInv /\ RowInv /\ IssuedInv /\ OwnInv /\ RecordInv /\ [Next]_vars => RecordInv'
<1> SUFFICES ASSUME SlotInv, DataInv, RowInv, IssuedInv, OwnInv, RecordInv, [Next]_vars
             PROVE  RecordInv'
  OBVIOUS
<1> USE RuntimeAssumption DEF SlotInv, HandleInv, AbortInv, LateInv, ExecInv, DataInv,
        RowType, RowInv, IssuedInv, RecordInv, Regular, Clean, Settled, CtlType, Executing,
        Run, Request, Streaming, Resuming, AgUi, Leave, Goto, Fault, registryVars,
        storeVars, localVars, historyVars
<1>1. ASSUME NEW r \in Run, StartStep(r)
      PROVE  RecordInv'
  <2>1. CASE Admit(r)
    BY <2>1 DEF Admit
  <2>2. CASE Refuse(r)
    <3>1. pc[r] \in Early /\ exec[r] = "none"
      BY <2>2 DEF Refuse, Early
    <3>2. \A i \in ckpt.pending : issued[i].run # r
      BY <3>1
    <3>3. /\ \A q \in Run : q # r => pc'[q] = pc[q]
          /\ UNCHANGED <<row, ckpt, issued, saw, killed, phase, faults, handle>>
          /\ raced \subseteq raced'
      BY <2>2 DEF Refuse
    <3> QED
      BY <3>2, <3>3
  <2>3. CASE TryClaim(r)
    <3>1. pc[r] \in Early /\ exec[r] = "none"
      BY <2>3 DEF TryClaim, Early
    <3>2. \A i \in ckpt.pending : issued[i].run # r
      BY <3>1
    <3>3. /\ \A q \in Run : q # r => pc'[q] = pc[q]
          /\ UNCHANGED <<row, ckpt, issued, saw, killed, phase, faults, handle>>
          /\ raced \subseteq raced'
      BY <2>3 DEF TryClaim
    <3> QED
      BY <3>2, <3>3
  <2>4. CASE ReadPending(r)
    <3>1. pc[r] \in Early /\ exec[r] = "none"
      BY <2>4 DEF ReadPending, Early
    <3>2. \A i \in ckpt.pending : issued[i].run # r
      BY <3>1
    <3>3. /\ \A q \in Run : q # r => pc'[q] = pc[q]
          /\ UNCHANGED <<row, ckpt, issued, saw, killed, phase, faults, handle>>
          /\ raced \subseteq raced'
      BY <2>4 DEF ReadPending
    <3> QED
      BY <3>2, <3>3
  <2>5. CASE RejectResume(r)
    <3>1. pc[r] \in Early /\ exec[r] = "none"
      BY <2>5 DEF RejectResume, Early
    <3>2. \A i \in ckpt.pending : issued[i].run # r
      BY <3>1
    <3>3. /\ \A q \in Run : q # r => pc'[q] = pc[q]
          /\ UNCHANGED <<row, ckpt, issued, saw, killed, phase, faults, handle>>
          /\ raced \subseteq raced'
      BY <2>5 DEF RejectResume
    <3> QED
      BY <3>2, <3>3
  <2>6. CASE Load(r)
    BY <2>6 DEF Load
  <2>7. CASE Create(r)
    <3>1. pc[r] = "create" /\ exec[r] = "none"
      BY <2>7 DEF Create, Early
    <3>2. \A i \in ckpt.pending : issued[i].run # r
      BY <3>1
    <3>3. /\ \A q \in Run : q # r => pc'[q] = pc[q]
          /\ UNCHANGED <<ckpt, issued, saw, killed, phase, faults, handle, raced>>
          /\ row' = row \/ ~row.exists
      BY <2>7 DEF Create
    <3>4. Regular /\ ~row.exists => ckpt.pending = {}
      OBVIOUS
    <3> QED
      BY <3>2, <3>3, <3>4
  <2>8. CASE Begin(r)
    BY <2>8 DEF Begin, Registry!Begin
  <2>9. CASE BeginRefused(r)
    <3>1. pc[r] \in Early /\ exec[r] = "none"
      BY <2>9 DEF BeginRefused, Early
    <3>2. \A i \in ckpt.pending : issued[i].run # r
      BY <3>1
    <3>3. /\ \A q \in Run : q # r => pc'[q] = pc[q]
          /\ UNCHANGED <<row, ckpt, issued, saw, killed, phase, faults, handle>>
          /\ raced \subseteq raced'
      BY <2>9 DEF BeginRefused
    <3> QED
      BY <3>2, <3>3
  <2>10. CASE SampleBefore(r)
    BY <2>10 DEF SampleBefore
  <2>11. CASE MarkRoute(r)
    BY <2>11 DEF MarkRoute, UpdateRoute
  <2>12. CASE MarkBusy(r)
    BY <2>12 DEF MarkBusy, UpdateStatus
  <2>13. CASE StartFails(r)
    BY <2>13 DEF StartFails, Registry!Release
  <2> QED
    BY <1>1, <2>1, <2>2, <2>3, <2>4, <2>5, <2>6, <2>7, <2>8, <2>9, <2>10, <2>11, <2>12,
       <2>13 DEF StartStep
<1>2. ASSUME NEW r \in Run, RunStep(r)
      PROVE  RecordInv'
  <2>1. CASE SeeInterrupt(r)
    BY <2>1 DEF SeeInterrupt
  <2>2. CASE RouteSettled(r)
    BY <2>2 DEF RouteSettled
  <2>3. CASE AbortWins(r)
    BY <2>3 DEF AbortWins
  <2>4. CASE Respond(r)
    BY <2>4 DEF Respond, UpdateStatus, FreesSlot, Registry!Release
  <2>5. CASE Unwound(r)
    BY <2>5 DEF Unwound
  <2>6. CASE Settle(r)
    BY <2>6 DEF Settle, AfterSettle, SawPark, Clearable, MayClear
  <2>7. CASE SettleReadFails(r)
    BY <2>7 DEF SettleReadFails, AfterSettle
  <2>8. CASE RecordParked(r)
    <3>1. Regular => Own(r)
      BY <2>8 DEF RecordParked, OwnInv, Occupies
    <3>2. \A i \in ckpt.pending : issued[i].run = r => route[r] = issued[i].route
      OBVIOUS
    <3>3. /\ row'.exists = row.exists /\ (row.exists => row'.parked = route[r])
          /\ UNCHANGED <<ckpt, issued, saw, killed, phase, faults, handle, raced>>
      BY <2>8 DEF RecordParked, UpdateParked
    <3> QED
      BY <3>1, <3>2, <3>3 DEF Own
  <2>9. CASE ClearParked(r)
    <3>1. Regular => Own(r) /\ (ckpt.pending = {} \/ r \in Streaming \ saw)
      BY <2>9 DEF ClearParked, OwnInv, Occupies
    <3>2. /\ row'.exists = row.exists
          /\ UNCHANGED <<ckpt, issued, saw, killed, phase, faults, handle, raced>>
      BY <2>9 DEF ClearParked, UpdateParked
    <3> QED
      BY <3>1, <3>2 DEF Own
  <2>10. CASE WriteStatus(r)
    BY <2>10 DEF WriteStatus, UpdateStatus, TerminalStatus
  <2>11. CASE SettleWriteFails(r)
    BY <2>11 DEF SettleWriteFails, AfterSettle
  <2>12. CASE Finish(r)
    BY <2>12 DEF Finish, ReleaseClaims, Deferred, Registry!Release
  <2>13. CASE ReleaseDeferred(r)
    BY <2>13 DEF ReleaseDeferred, ReleaseClaims, Registry!Release
  <2> QED
    BY <1>2, <2>1, <2>2, <2>3, <2>4, <2>5, <2>6, <2>7, <2>8, <2>9, <2>10, <2>11, <2>12,
       <2>13 DEF RunStep
<1>3. ASSUME NEW r \in Run, RouteStep(r)
      PROVE  RecordInv'
  <2>1. CASE GraphStarts(r)
    BY <2>1 DEF GraphStarts
  <2>2. CASE Park(r)
    <3>1. /\ exec[r] = "graph" /\ r \notin saw
          /\ issued' = Append(issued, [route |-> route[r], run |-> r])
          /\ ckpt'.pending = {Len(issued) + 1}
          /\ UNCHANGED <<row, pc, saw, killed, phase, faults, handle, raced>>
      BY <2>2 DEF Park
    <3>2. issued'[Len(issued) + 1].run = r
      BY <3>1
    <3>3. phase = "open" => ~Settled(r) \/ r \in Streaming
      BY <3>1 DEF Settling
    <3> QED
      BY <3>1, <3>2, <3>3
  <2>3. CASE RouteEnds(r)
    BY <2>3 DEF RouteEnds
  <2> QED
    BY <1>3, <2>1, <2>2, <2>3 DEF RouteStep
<1>4. ASSUME NEW r \in Run, Disconnect(r)
      PROVE  RecordInv'
  BY <1>4 DEF Disconnect, Registry!SourceAbort
<1>5. ASSUME NEW c \in Cancel, CancelStep(c)
      PROVE  RecordInv'
  <2>1. CASE CancelRequest(c)
    BY <2>1 DEF CancelRequest, Registry!TakeClaim
  <2>2. CASE CancelRun(c)
    BY <2>2 DEF CancelRun, Registry!CancelClaim, Registry!CancelEntry
  <2>3. CASE CancelNothing(c)
    BY <2>3 DEF CancelNothing
  <2> QED
    BY <1>5, <2>1, <2>2, <2>3 DEF CancelStep
<1>6. ASSUME NEW d \in Delete, DeleteStep(d)
      PROVE  RecordInv'
  <2>1. CASE DeleteRequest(d)
    BY <2>1 DEF DeleteRequest
  <2>2. CASE DeleteCheckpoints(d)
    BY <2>2 DEF DeleteCheckpoints
  <2>3. CASE DeleteRow(d)
    BY <2>3 DEF DeleteRow, MissingRow
  <2>4. CASE DeleteFails(d)
    BY <2>4 DEF DeleteFails
  <2> QED
    BY <1>6, <2>1, <2>2, <2>3, <2>4 DEF DeleteStep
<1>7. CASE Shutdown
  BY <1>7 DEF Shutdown, Registry!SourceAbort
<1>8. CASE Drained
  BY <1>8 DEF Drained
<1>9. CASE Crash
  BY <1>9 DEF Crash
<1>10. CASE UNCHANGED vars
  BY <1>10 DEF vars
<1> HIDE DEF SlotInv, HandleInv, AbortInv, LateInv, ExecInv, DataInv, RowType, RowInv,
        IssuedInv, RecordInv, Regular, Clean, Settled, CtlType, Executing, Run, Request,
        Streaming, Resuming, AgUi, Leave, Goto, Fault, registryVars, storeVars, localVars,
        historyVars
<1> QED
  BY <1>1, <1>2, <1>3, <1>4, <1>5, <1>6, <1>7, <1>8, <1>9, <1>10 DEF Next

THEOREM ParkInvariant == Spec => [](IssuedInv /\ OwnInv /\ RecordInv)
<1>1. Init => IssuedInv /\ OwnInv /\ RecordInv
  <2> SUFFICES ASSUME Init
               PROVE  IssuedInv /\ OwnInv /\ RecordInv
    OBVIOUS
  <2>1. /\ \A r \in Run : sampled[r] = {} /\ pc[r] = "new"
        /\ saw = {}
        /\ \A i \in 1..Len(issued) : issued[i].run = NoRun
    BY DEF Init, Run, Request
  <2>2. row.exists => \A i \in ckpt.pending : row.parked = issued[i].route
    BY DEF Init, ParkedRow, MissingRow
  <2> QED
    BY <2>1, <2>2, RuntimeAssumption DEF IssuedInv, OwnInv, RecordInv, Occupies, Run
<1>2. /\ SlotInv /\ DataInv /\ IssuedInv /\ [Next]_vars => IssuedInv'
      /\ SlotInv /\ DataInv /\ IssuedInv /\ OwnInv /\ [Next]_vars => OwnInv'
      /\ SlotInv /\ DataInv /\ RowInv /\ IssuedInv /\ OwnInv /\ RecordInv /\ [Next]_vars
           => RecordInv'
  BY IssuedStep, OwnStep, RecordStep
<1> QED
  BY <1>1, <1>2, SlotInvariant, DataInvariant, DeleteInvariant, PTL DEF Spec

(* A prompt whose turn saw it stays gated on the route that parked it,     *)
(* whatever runs since (settleParkedRoute and its sampled values).         *)
THEOREM ParksAreRecorded == Spec => []ParkRecorded
<1>1. DataInv /\ RecordInv => ParkRecorded
  BY RuntimeAssumption DEF DataInv, RecordInv, ParkRecorded, Regular, Clean
<1> QED
  BY <1>1, DataInvariant, ParkInvariant, PTL

-----------------------------------------------------------------------------
(* The refinement of ThreadTurns.  The mapping, by name.                   *)
TurnNow == IF \E r \in Run : Executing(r)
           THEN CHOOSE r \in Run : Executing(r) ELSE NoRun
TurnsTaken == {r \in Run : exec[r] # "none"}

(* There is one candidate for the turn.                                    *)
TurnExact == /\ \A r \in Run : Executing(r) => TurnNow = r
             /\ (\A r \in Run : ~Executing(r)) => TurnNow = NoRun

LEMMA TurnIsExact == SlotInv /\ phase = "open" => TurnExact
<1> SUFFICES ASSUME SlotInv, phase = "open" PROVE TurnExact
  OBVIOUS
<1>1. ASSUME NEW r \in Run, Executing(r) PROVE TurnNow = r
  <2>1. SlotCoversExecution
    BY RuntimeAssumption
       DEF SlotInv, HandleInv, ExecInv, SlotCoversExecution, Occupies, AbortInv, LateInv,
           Settling, Streaming, AgUi
  <2>2. \A x \in Run : Executing(x) => x = r
    BY <1>1, <2>1 DEF SlotCoversExecution
  <2>3. \E x \in Run : Executing(x)
    BY <1>1
  <2>4. TurnNow = CHOOSE x \in Run : Executing(x)
    BY <2>3 DEF TurnNow
  <2>5. TurnNow \in Run /\ Executing(TurnNow)
    BY <2>3, <2>4
  <2> QED
    BY <2>2, <2>5
<1>2. ASSUME \A r \in Run : ~Executing(r) PROVE TurnNow = NoRun
  BY <1>2 DEF TurnNow
<1> QED
  BY <1>1, <1>2 DEF TurnExact

(* Only these steps touch a route.                                         *)
LEMMA RouteTouched ==
    ASSUME [Next]_vars
    PROVE  \/ UNCHANGED exec
           \/ \E r \in Run : MarkBusy(r) \/ RouteStep(r)
           \/ Crash
<1>1. ASSUME NEW r \in Run, StartStep(r) PROVE MarkBusy(r) \/ UNCHANGED exec
  BY <1>1 DEF StartStep, Admit, Refuse, TryClaim, ReadPending, RejectResume, Load, Create,
     Begin, BeginRefused, SampleBefore, MarkRoute, StartFails
<1>2. ASSUME NEW r \in Run, RunStep(r) PROVE UNCHANGED exec
  BY <1>2 DEF RunStep, SeeInterrupt, RouteSettled, AbortWins, Respond, Unwound, Settle,
     SettleReadFails, RecordParked, ClearParked, WriteStatus, SettleWriteFails, Finish,
     ReleaseDeferred
<1>3. ASSUME NEW r \in Run, Disconnect(r) PROVE UNCHANGED exec
  BY <1>3 DEF Disconnect
<1>4. ASSUME NEW c \in Cancel, CancelStep(c) PROVE UNCHANGED exec
  BY <1>4 DEF CancelStep, CancelRequest, CancelRun, CancelNothing
<1>5. ASSUME NEW d \in Delete, DeleteStep(d) PROVE UNCHANGED exec
  BY <1>5 DEF DeleteStep, DeleteRequest, DeleteCheckpoints, DeleteRow, DeleteFails
<1>6. CASE Shutdown \/ Drained
  BY <1>6 DEF Shutdown, Drained
<1>7. CASE UNCHANGED vars
  BY <1>7 DEF vars
<1> QED
  BY <1>1, <1>2, <1>3, <1>4, <1>5, <1>6, <1>7 DEF Next

LEMMA TurnsStep ==
    SlotInv /\ DataInv /\ phase = "open" /\ TurnExact /\ TurnExact' /\ [Next]_vars
        => [Turns!Next]_(Turns!turnVars)
<1> SUFFICES ASSUME SlotInv, DataInv, phase = "open", TurnExact, TurnExact', [Next]_vars
             PROVE  [Turns!Next]_(Turns!turnVars)
  OBVIOUS
<1> DEFINE Same == TurnNow' = TurnNow /\ TurnsTaken' = TurnsTaken
           Starts(r) == /\ TurnNow = NoRun /\ r \notin TurnsTaken
                        /\ TurnNow' = r /\ TurnsTaken' = TurnsTaken \cup {r}
           Ends == TurnNow # NoRun /\ TurnNow' = NoRun /\ TurnsTaken' = TurnsTaken
<1>1. Same => UNCHANGED Turns!turnVars
  BY Zenon DEF Turns!turnVars, TurnNow, TurnsTaken
<1>2. \A r \in Run : Starts(r) => Turns!Next
  BY Zenon DEF Turns!Next, Turns!Start, TurnNow, TurnsTaken
<1>3. Ends => Turns!Next
  BY Zenon DEF Turns!Next, Turns!End, TurnNow, TurnsTaken
<1>4. CASE UNCHANGED exec
  <2>1. Same
    BY <1>4 DEF TurnNow, TurnsTaken, Executing
  <2> QED
    BY <1>1, <2>1
<1> HIDE DEF Same, Starts, Ends
<1>5. exec \in [Run -> {"none", "started", "graph", "parked", "ended", "broke"}] /\ NoRun \notin Run
  BY RuntimeAssumption DEF SlotInv, CtlType, Run
<1>6. ASSUME NEW r \in Run, MarkBusy(r) PROVE Starts(r)
  <2>1. pc[r] = "busy" /\ exec' = [exec EXCEPT ![r] = "started"]
    BY <1>6 DEF MarkBusy
  <2>2. exec[r] = "none"
    BY <2>1 DEF DataInv
  <2>3. Slot = r
    BY <2>1 DEF SlotInv, HandleInv, Occupies, LateInv, Early
  <2>4. \A x \in Run : ~Executing(x)
    <3>1. SlotCoversExecution
      BY RuntimeAssumption
         DEF SlotInv, HandleInv, ExecInv, SlotCoversExecution, Occupies, AbortInv, LateInv,
             Settling, Streaming, AgUi
    <3> QED
      BY <2>2, <2>3, <3>1 DEF SlotCoversExecution, Executing
  <2>5. TurnNow = NoRun
    BY <2>4 DEF TurnExact
  <2>6. exec'[r] = "started" /\ \A x \in Run : x # r => exec'[x] = exec[x]
    BY <1>5, <2>1
  <2>7. TurnNow' = r
    <3>1. Executing(r)'
      BY <2>6 DEF Executing
    <3> QED
      BY <3>1 DEF TurnExact
  <2>8. r \notin TurnsTaken /\ TurnsTaken' = TurnsTaken \cup {r}
    BY <2>2, <2>6 DEF TurnsTaken
  <2> QED
    BY <2>5, <2>7, <2>8 DEF Starts
<1>7. ASSUME NEW r \in Run, RouteStep(r) PROVE Same \/ Ends
  <2>1. Executing(r) /\ \E e \in {"graph", "parked", "ended", "broke"} : exec' = [exec EXCEPT ![r] = e]
    BY <1>7 DEF RouteStep, GraphStarts, Park, RouteEnds, Executing
  <2>2. TurnNow = r
    BY <2>1 DEF TurnExact
  <2>3. exec'[r] \in {"graph", "parked", "ended", "broke"} /\ \A x \in Run : x # r => exec'[x] = exec[x]
    BY <1>5, <2>1
  <2>4. TurnsTaken' = TurnsTaken
    BY <2>1, <2>3 DEF TurnsTaken, Executing
  <2>5. CASE Executing(r)'
    BY <2>2, <2>4, <2>5 DEF Same, TurnExact
  <2>6. CASE ~Executing(r)'
    <3>1. \A x \in Run : Executing(x) => x = r
      BY <2>2 DEF TurnExact
    <3>2. \A x \in Run : ~Executing(x)'
      BY <2>3, <2>6, <3>1 DEF Executing
    <3>3. TurnNow' = NoRun
      BY <3>2 DEF TurnExact
    <3> QED
      BY <1>5, <2>2, <2>4, <3>3 DEF Ends
  <2> QED
    BY <2>5, <2>6
<1>8. CASE Crash
  <2>1. exec' = [x \in Run |-> IF Executing(x) THEN "broke" ELSE exec[x]]
    BY <1>8 DEF Crash
  <2>2. \A x \in Run : ~Executing(x)'
    BY <2>1 DEF Executing
  <2>3. TurnNow' = NoRun
    BY <2>2 DEF TurnExact
  <2>4. TurnsTaken' = TurnsTaken
    BY <2>1 DEF TurnsTaken, Executing
  <2> QED
    BY <1>1, <1>3, <2>3, <2>4 DEF Same, Ends
<1> QED
  BY <1>1, <1>2, <1>3, <1>4, <1>6, <1>7, <1>8, RouteTouched

(* While no shutdown is possible, the handlers implement ThreadTurns up to *)
(* its fairness: every step of theirs starts the turn of a run that has    *)
(* had none, when no other run has the turn, ends the turn of the one that *)
(* has it, or leaves the turns alone.                                      *)
THEOREM HandlersTakeTurns ==
    ASSUME ~MayShutdown
    PROVE  Spec => Turns!Init /\ [][Turns!Next]_(Turns!turnVars)
<1>1. Init => phase = "open" /\ Turns!Init
  <2> SUFFICES ASSUME Init PROVE phase = "open" /\ Turns!Init
    OBVIOUS
  <2>1. \A r \in Run : ~Executing(r) /\ exec[r] = "none"
    BY DEF Init, Executing
  <2>2. TurnNow = NoRun /\ TurnsTaken = {}
    BY <2>1 DEF TurnNow, TurnsTaken
  <2>3. Turns!Init
    BY <2>2, Zenon DEF Turns!Init, TurnNow, TurnsTaken
  <2> QED
    BY <2>3 DEF Init
<1>2. phase = "open" /\ [Next]_vars => (phase = "open")'
  <2> SUFFICES ASSUME phase = "open", [Next]_vars PROVE phase' = "open"
    OBVIOUS
  <2>1. ASSUME NEW r \in Run, StartStep(r) PROVE UNCHANGED phase
    BY <2>1 DEF StartStep, Admit, Refuse, TryClaim, ReadPending, RejectResume, Load, Create,
       Begin, BeginRefused, SampleBefore, MarkRoute, MarkBusy, StartFails
  <2>2. ASSUME NEW r \in Run, RunStep(r) PROVE UNCHANGED phase
    BY <2>2 DEF RunStep, SeeInterrupt, RouteSettled, AbortWins, Respond, Unwound, Settle,
       SettleReadFails, RecordParked, ClearParked, WriteStatus, SettleWriteFails, Finish,
       ReleaseDeferred
  <2>3. ASSUME NEW r \in Run, RouteStep(r) \/ Disconnect(r) PROVE UNCHANGED phase
    BY <2>3 DEF RouteStep, GraphStarts, Park, RouteEnds, Disconnect
  <2>4. ASSUME NEW c \in Cancel, CancelStep(c) PROVE UNCHANGED phase
    BY <2>4 DEF CancelStep, CancelRequest, CancelRun, CancelNothing
  <2>5. ASSUME NEW d \in Delete, DeleteStep(d) PROVE UNCHANGED phase
    BY <2>5 DEF DeleteStep, DeleteRequest, DeleteCheckpoints, DeleteRow, DeleteFails
  <2>6. ~Shutdown /\ ~Drained
    BY DEF Shutdown, Drained
  <2>7. CASE Crash \/ UNCHANGED vars
    BY <2>7 DEF Crash, vars
  <2> QED
    BY <2>1, <2>2, <2>3, <2>4, <2>5, <2>6, <2>7 DEF Next
<1> QED
  BY <1>1, <1>2, SlotInvariant, DataInvariant, TurnIsExact, TurnsStep, PTL DEF Spec

-----------------------------------------------------------------------------
(* Every request comes to its end, for any number of requests.  A run is   *)
(* nearer to its end the smaller ToLeave is: no step of anybody takes it   *)
(* away from there (NextFalls), and the step it is owed by the fairness of *)
(* where it is takes it nearer (StartFalls, RunFalls, RouteFalls), so that *)
(* it gets from each distance to a smaller one (OneDown).  That a fair     *)
(* step can be taken is the hypothesis NobodyIsStuck, which is about       *)
(* ENABLED and left to TLC.                                                *)

(* How far a route is from its end, and a run from its own.  A failed      *)
(* write sends a settle back to its start, but only once.                  *)
ToUnwind(r) ==
    IF exec[r] = "started" THEN 3 ELSE
    IF exec[r] = "graph" THEN 2 ELSE
    IF exec[r] = "parked" THEN 1 ELSE 0

ToLeave(r) ==
    IF pc[r] = "claim" THEN 29 ELSE
    IF pc[r] = "read" THEN 28 ELSE
    IF pc[r] = "load" THEN 27 ELSE
    IF pc[r] = "create" THEN 26 ELSE
    IF pc[r] = "begin" THEN 25 ELSE
    IF pc[r] = "sample" THEN 24 ELSE
    IF pc[r] = "mark" THEN 23 ELSE
    IF pc[r] = "busy" THEN 22 ELSE
    IF pc[r] = "run" THEN (IF r \in Streaming \ saw /\ Executing(r) THEN 18 ELSE 17) + ToUnwind(r) ELSE
    IF pc[r] = "respond" THEN 16 ELSE
    IF pc[r] = "detached" THEN 12 + ToUnwind(r) ELSE
    IF pc[r] = "settle" THEN (IF r \in failed THEN 8 ELSE 11) ELSE
    IF pc[r] \in {"record", "clear"} THEN (IF r \in failed THEN 7 ELSE 10) ELSE
    IF pc[r] = "status" THEN (IF r \in failed THEN 6 ELSE 9) ELSE
    IF pc[r] = "finish" THEN 5 ELSE
    IF pc[r] = "held" THEN 1 + ToUnwind(r) ELSE
    IF pc[r] = "done" THEN 0 ELSE 30

(* The distance is a natural, and 0 at the end only.                       *)
LEMMA RankType == \A r \in Run : ToLeave(r) \in 0..30
BY DEF ToLeave, ToUnwind

LEMMA RankZero == \A r \in Run : ToLeave(r) = 0 => pc[r] = "done"
BY DEF ToLeave, ToUnwind

LEMMA NextRankType == ASSUME NEW r \in Run PROVE ToLeave(r)' \in 0..30
BY DEF ToLeave, ToUnwind

(* The handler's own steps take the run nearer to its end.                 *)
LEMMA StartFalls ==
    ASSUME TypeOK, NEW r \in Run, StartRun(r)
    PROVE  pc'[r] # "new" /\ ToLeave(r)' < ToLeave(r)
<1> USE DEF StartRun, ToLeave, ToUnwind, Goto, Leave
<1>0. /\ pc \in [Request -> Locations \cup {"authorize", "delckpt", "delrow"}] /\ r \in Request
      /\ exec \in [Run -> {"none", "started", "graph", "parked", "ended", "broke"}]
      /\ pc[r] # "new"
  BY DEF TypeOK, Request
<1>1. CASE Admit(r) BY <1>0, <1>1 DEF Admit
<1>2. CASE Refuse(r) BY <1>0, <1>2 DEF Refuse
<1>3. CASE TryClaim(r) BY <1>0, <1>3 DEF TryClaim
<1>4. CASE ReadPending(r) BY <1>0, <1>4 DEF ReadPending
<1>5. CASE RejectResume(r) BY <1>0, <1>5 DEF RejectResume
<1>6. CASE Load(r) BY <1>0, <1>6 DEF Load
<1>7. CASE Create(r) BY <1>0, <1>7 DEF Create
<1>8. CASE Begin(r) BY <1>0, <1>8 DEF Begin
<1>9. CASE BeginRefused(r) BY <1>0, <1>9 DEF BeginRefused
<1>10. CASE SampleBefore(r) BY <1>0, <1>10 DEF SampleBefore
<1>11. CASE MarkRoute(r) BY <1>0, <1>11 DEF MarkRoute
<1>12. CASE MarkBusy(r) BY <1>0, <1>12 DEF MarkBusy, Executing
<1>13. CASE StartFails(r) BY <1>0, <1>13 DEF StartFails
<1> QED BY <1>1, <1>2, <1>3, <1>4, <1>5, <1>6, <1>7, <1>8, <1>9, <1>10, <1>11, <1>12, <1>13
        DEF StartStep

LEMMA RunFalls ==
    ASSUME TypeOK, NEW r \in Run, RunStep(r)
    PROVE  pc'[r] # "new" /\ ToLeave(r)' < ToLeave(r)
<1> USE DEF ToLeave, ToUnwind, Goto, Leave, Executing, localVars
<1>0. /\ pc \in [Request -> Locations \cup {"authorize", "delckpt", "delrow"}] /\ r \in Request
      /\ exec \in [Run -> {"none", "started", "graph", "parked", "ended", "broke"}]
  BY DEF TypeOK, Request
<1>1. CASE SeeInterrupt(r) BY <1>0, <1>1 DEF SeeInterrupt
<1>2. CASE RouteSettled(r) BY <1>0, <1>2 DEF RouteSettled
<1>3. CASE AbortWins(r) BY <1>0, <1>3 DEF AbortWins
<1>4. CASE Respond(r) BY <1>0, <1>4 DEF Respond
<1>5. CASE Unwound(r) BY <1>0, <1>5 DEF Unwound
<1>6. CASE Settle(r) BY <1>0, <1>6 DEF Settle, AfterSettle
<1>7. CASE SettleReadFails(r) BY <1>0, <1>7 DEF SettleReadFails, AfterSettle
<1>8. CASE RecordParked(r) BY <1>0, <1>8 DEF RecordParked, AfterSettle
<1>9. CASE ClearParked(r) BY <1>0, <1>9 DEF ClearParked, AfterSettle
<1>10. CASE WriteStatus(r) BY <1>0, <1>10 DEF WriteStatus
<1>11. CASE SettleWriteFails(r) BY <1>0, <1>11 DEF SettleWriteFails, AfterSettle, Retries
<1>12. CASE Finish(r) BY <1>0, <1>12 DEF Finish, ReleaseClaims
<1>13. CASE ReleaseDeferred(r) BY <1>0, <1>13 DEF ReleaseDeferred, ReleaseClaims
<1> QED BY <1>1, <1>2, <1>3, <1>4, <1>5, <1>6, <1>7, <1>8, <1>9, <1>10, <1>11, <1>12, <1>13
        DEF RunStep

(* A step that takes r no nearer to its end leaves what r waits for.       *)
Stays(r) ==
    /\ pc'[r] = pc[r]
    /\ WaitsForRoute(r)' <=> WaitsForRoute(r)
    /\ ToLeave(r)' = ToLeave(r)

(* So do the steps of a route that the handler waits for.                  *)
LEMMA RouteFalls ==
    ASSUME TypeOK, NEW r \in Run, RouteStep(r)
    PROVE  /\ pc'[r] = pc[r]
           /\ ToLeave(r)' < ToLeave(r) \/ Stays(r)
           /\ WaitsForRoute(r) => ToLeave(r)' < ToLeave(r)
<1>0. /\ exec \in [Run -> {"none", "started", "graph", "parked", "ended", "broke"}]
  BY DEF TypeOK, Request
<1>1. /\ pc' = pc /\ saw' = saw /\ failed' = failed
      /\ ToUnwind(r)' < ToUnwind(r) /\ Executing(r)
  BY <1>0 DEF RouteStep, GraphStarts, Park, RouteEnds, localVars, ToUnwind, Executing
<1>2. ToUnwind(r) \in Nat /\ ToUnwind(r)' \in Nat
  BY DEF ToUnwind
<1>3. CASE pc[r] \in {"run", "detached", "held"}
  BY <1>1, <1>2, <1>3 DEF ToLeave, Executing
<1>4. CASE pc[r] \notin {"run", "detached", "held"}
  BY <1>1, <1>4 DEF ToLeave, WaitsForRoute, Stays
<1> QED BY <1>1, <1>3, <1>4

(* Nothing the distance of r depends on has changed.                       *)
Untouched(r) ==
    /\ pc'[r] = pc[r] /\ exec'[r] = exec[r]
    /\ r \in saw' <=> r \in saw
    /\ r \in failed' <=> r \in failed

LEMMA UntouchedStays ==
    ASSUME NEW r \in Run, Untouched(r) PROVE Stays(r)
BY DEF Untouched, Stays, ToLeave, ToUnwind, Executing, WaitsForRoute

(* A step of another run does not touch r.                                 *)
LEMMA OthersLeave ==
    ASSUME TypeOK, NEW r \in Run, NEW s \in Run, s # r,
           StartStep(s) \/ RunStep(s) \/ RouteStep(s)
    PROVE  Untouched(r)
<1> USE DEF Goto, Leave, localVars, Untouched
<1>0. /\ pc \in [Request -> Locations \cup {"authorize", "delckpt", "delrow"}]
      /\ r \in Request /\ s \in Request
      /\ exec \in [Run -> {"none", "started", "graph", "parked", "ended", "broke"}]
  BY DEF TypeOK, Request
<1>1. CASE StartStep(s)
  BY <1>0, <1>1 DEF StartStep, Admit, Refuse, TryClaim, ReadPending, RejectResume, Load, Create,
     Begin, BeginRefused, SampleBefore, MarkRoute, MarkBusy, StartFails
<1>2. CASE RunStep(s)
  BY <1>0, <1>2 DEF RunStep, SeeInterrupt, RouteSettled, AbortWins, Respond, Unwound, Settle,
     SettleReadFails, RecordParked, ClearParked, WriteStatus, SettleWriteFails, Finish,
     ReleaseDeferred, ReleaseClaims
<1>3. CASE RouteStep(s)
  BY <1>0, <1>3 DEF RouteStep, GraphStarts, Park, RouteEnds
<1> QED BY <1>1, <1>2, <1>3

(* No step takes a run away from its end.                                  *)
LEMMA NextFalls ==
    ASSUME TypeOK, [Next]_vars, NEW r \in Run, pc[r] # "new"
    PROVE  pc'[r] # "new" /\ (ToLeave(r)' < ToLeave(r) \/ Stays(r))
<1> USE DEF localVars
<1>0. /\ pc \in [Request -> Locations \cup {"authorize", "delckpt", "delrow"}] /\ r \in Request
      /\ \A q \in Cancel \cup Delete : q # r /\ q \in Request
      /\ ToLeave(r) \in 0..30 /\ ToLeave(r)' \in 0..30
  BY RuntimeAssumption, RankType, NextRankType DEF TypeOK, Request
<1>1. CASE Untouched(r)
  BY <1>0, <1>1, UntouchedStays DEF Stays
<1>2. ASSUME NEW s \in Run, StartStep(s) \/ RunStep(s) \/ RouteStep(s)
      PROVE  pc'[r] # "new" /\ (ToLeave(r)' < ToLeave(r) \/ Stays(r))
  <2>1. CASE s # r BY <1>1, <1>2, <2>1, OthersLeave
  <2>2. CASE s = r
    BY <1>0, <1>2, <2>2, StartFalls, RunFalls, RouteFalls DEF StartRun
  <2> QED BY <2>1, <2>2
<1>3. CASE \E s \in Run : Disconnect(s)
  BY <1>1, <1>3 DEF Disconnect, Untouched
<1>4. CASE \E c \in Cancel : CancelStep(c)
  BY <1>0, <1>1, <1>4 DEF CancelStep, CancelRequest, CancelRun, CancelNothing, Goto, Untouched
<1>5. CASE \E d \in Delete : DeleteStep(d)
  BY <1>0, <1>1, <1>5 DEF DeleteStep, DeleteRequest, DeleteCheckpoints, DeleteRow, DeleteFails,
     Goto, Untouched
<1>6. CASE Shutdown \/ Drained
  BY <1>1, <1>6 DEF Shutdown, Drained, Untouched
<1>7. CASE Crash
  <2>1. pc'[r] = "done" BY <1>0, <1>7 DEF Crash
  <2>2. ToLeave(r)' = 0 BY <2>1 DEF ToLeave
  <2>3. ToLeave(r) # 0 \/ Stays(r) BY <1>0, <1>7, <2>1, <2>2, RankZero DEF Stays, WaitsForRoute
  <2> QED BY <1>0, <2>1, <2>2, <2>3
<1>8. CASE UNCHANGED vars
  BY <1>1, <1>8 DEF vars, Untouched
<1> QED BY <1>2, <1>3, <1>4, <1>5, <1>6, <1>7, <1>8 DEF Next

(* An admitted run that is nearer than k to its end, or just there.        *)
Lower(r, k) == pc[r] # "new" /\ ToLeave(r) < k
At(r, k) == pc[r] # "new" /\ ToLeave(r) = k
Descends(r, k) == At(r, k) ~> Lower(r, k)

(* The fairness of one run.                                                *)
LEMMA FairEach == \A r \in Run : FairSpec => Spec /\ RunFair(r) /\ RouteFair(r)
BY DEF FairSpec, HandlerFairness, RouteFairness

LEMMA NextLowers ==
    ASSUME TypeOK, [Next]_vars, NEW r \in Run, NEW k \in 1..30, At(r, k)
    PROVE  Lower(r, k)' \/ (At(r, k)' /\ Stays(r))
<1>1. ToLeave(r) = k /\ pc[r] # "new" BY DEF At
<1>2. pc'[r] # "new" /\ (ToLeave(r)' < ToLeave(r) \/ Stays(r)) BY <1>1, NextFalls
<1>3. CASE Stays(r) BY <1>1, <1>2, <1>3 DEF Stays, At
<1>4. CASE ToLeave(r)' < ToLeave(r) BY <1>1, <1>2, <1>4 DEF Lower
<1> QED BY <1>2, <1>3, <1>4

(* From the distance k a run gets nearer: by a step of its own before its  *)
(* route starts, by the route's when it waits for it, by its own after.    *)
LEMMA OneDown ==
    ASSUME NEW r \in Run, NEW k \in 1..30
    PROVE  FairSpec /\ []NobodyIsStuck => Descends(r, k)
<1> DEFINE S == At(r, k) /\ pc[r] \in StartPlaces
           W == At(r, k) /\ WaitsForRoute(r)
           O == At(r, k) /\ pc[r] \notin StartPlaces /\ ~WaitsForRoute(r)
           Q == Lower(r, k)
<1>0. At(r, k) => pc[r] \notin {"new", "done"}
  BY DEF At, ToLeave
<1>1. TypeOK /\ S /\ [Next]_vars => S' \/ Q'
  BY NextLowers DEF Stays
<1>2. TypeOK /\ S /\ <<StartRun(r)>>_vars => Q'
  BY StartFalls DEF At, Lower
<1>3. NobodyIsStuck /\ S => ENABLED <<StartRun(r)>>_vars
  BY DEF NobodyIsStuck
<1>4. Spec /\ RunFair(r) /\ []NobodyIsStuck => (S ~> Q)
  BY <1>1, <1>2, <1>3, RuntimeTyped, PTL DEF Spec, RunFair
<1>5. TypeOK /\ W /\ [Next]_vars => W' \/ Q'
  BY NextLowers DEF Stays
<1>6. TypeOK /\ W /\ <<RouteEnds(r)>>_vars => Q'
  BY RouteFalls DEF At, Lower, RouteStep
<1>7. NobodyIsStuck /\ W => ENABLED <<RouteEnds(r)>>_vars
  BY DEF NobodyIsStuck
<1>8. Spec /\ RouteFair(r) /\ []NobodyIsStuck => (W ~> Q)
  BY <1>5, <1>6, <1>7, RuntimeTyped, PTL DEF Spec, RouteFair
<1>9. TypeOK /\ O /\ [Next]_vars => O' \/ Q'
  BY NextLowers DEF Stays
<1>10. TypeOK /\ O /\ <<RunStep(r)>>_vars => Q'
  BY RunFalls DEF At, Lower
<1>11. NobodyIsStuck /\ O => ENABLED <<RunStep(r)>>_vars
  BY <1>0 DEF NobodyIsStuck
<1>12. Spec /\ RunFair(r) /\ []NobodyIsStuck => (O ~> Q)
  BY <1>9, <1>10, <1>11, RuntimeTyped, PTL DEF Spec, RunFair
<1>13. At(r, k) => S \/ W \/ O
  OBVIOUS
<1>14. FairSpec => Spec /\ RunFair(r) /\ RouteFair(r)
  BY FairEach
<1> HIDE DEF S, W, O, Q
<1>15. FairSpec /\ []NobodyIsStuck => (At(r, k) ~> Q)
  BY <1>4, <1>8, <1>12, <1>13, <1>14, PTL
<1> QED BY <1>15 DEF Descends, Q

(* What every admitted request comes to.                                   *)
Ends(q) == pc[q] # "new" ~> pc[q] = "done"

Nears(r, j, k) == Lower(r, j) ~> Lower(r, k)

LEMMA Nearer ==
    ASSUME NEW r \in Run, NEW j \in 1..31, NEW k \in 1..30, j = k + 1
    PROVE  FairSpec /\ []NobodyIsStuck => Nears(r, j, k)
<1>1. Lower(r, j) => Lower(r, k) \/ At(r, k)
  BY RankType DEF Lower, At
<1>2. FairSpec /\ []NobodyIsStuck => Descends(r, k)
  BY OneDown
<1> QED BY <1>1, <1>2, PTL DEF Descends, Nears

(* The greatest distance is 30, so there are thirty times to go.           *)
LEMMA AllTheWay ==
    ASSUME NEW r \in Run
    PROVE  FairSpec /\ []NobodyIsStuck => Ends(r)
<1> DEFINE Hyp == FairSpec /\ []NobodyIsStuck
<1>1. Hyp =>
      /\ Nears(r, 31, 30) /\ Nears(r, 30, 29)
      /\ Nears(r, 29, 28) /\ Nears(r, 28, 27)
      /\ Nears(r, 27, 26) /\ Nears(r, 26, 25)
      /\ Nears(r, 25, 24) /\ Nears(r, 24, 23)
      /\ Nears(r, 23, 22) /\ Nears(r, 22, 21)
  BY Nearer
<1>2. Hyp => Nears(r, 31, 21)
  BY <1>1, PTL DEF Nears
<1>3. Hyp =>
      /\ Nears(r, 21, 20) /\ Nears(r, 20, 19)
      /\ Nears(r, 19, 18) /\ Nears(r, 18, 17)
      /\ Nears(r, 17, 16) /\ Nears(r, 16, 15)
      /\ Nears(r, 15, 14) /\ Nears(r, 14, 13)
      /\ Nears(r, 13, 12) /\ Nears(r, 12, 11)
  BY Nearer
<1>4. Hyp => Nears(r, 21, 11)
  BY <1>3, PTL DEF Nears
<1>5. Hyp =>
      /\ Nears(r, 11, 10) /\ Nears(r, 10, 9)
      /\ Nears(r, 9, 8) /\ Nears(r, 8, 7)
      /\ Nears(r, 7, 6) /\ Nears(r, 6, 5)
      /\ Nears(r, 5, 4) /\ Nears(r, 4, 3)
      /\ Nears(r, 3, 2) /\ Nears(r, 2, 1)
  BY Nearer
<1>6. Hyp => Nears(r, 11, 1)
  BY <1>5, PTL DEF Nears
<1>7. pc[r] # "new" => Lower(r, 31)
  BY RankType DEF Lower
<1>8. Lower(r, 1) => pc[r] = "done"
  BY RankType, RankZero DEF Lower
<1> QED BY <1>2, <1>4, <1>6, <1>7, <1>8, PTL DEF Nears, Ends

(* Cancels and deletions are not touched by anybody else's steps.          *)
LEMMA OthersPass ==
    ASSUME TypeOK, [Next]_vars, NEW q \in Cancel \cup Delete, pc[q] # "new"
    PROVE  \/ pc'[q] = pc[q] \/ pc'[q] = "done"
           \/ q \in Delete /\ pc[q] = "delckpt" /\ pc'[q] = "delrow"
<1>0. /\ pc \in [Request -> Locations \cup {"authorize", "delckpt", "delrow"}] /\ q \in Request
      /\ \A r \in Run : q # r /\ r \in Request
  BY RuntimeAssumption DEF TypeOK, Request
<1> USE DEF Goto, Leave, localVars
<1>1. CASE \E r \in Run : StartStep(r)
  BY <1>0, <1>1 DEF StartStep, Admit, Refuse, TryClaim, ReadPending, RejectResume, Load, Create,
     Begin, BeginRefused, SampleBefore, MarkRoute, MarkBusy, StartFails
<1>2. CASE \E r \in Run : RunStep(r)
  BY <1>0, <1>2 DEF RunStep, SeeInterrupt, RouteSettled, AbortWins, Respond, Unwound, Settle,
     SettleReadFails, RecordParked, ClearParked, WriteStatus, SettleWriteFails, Finish,
     ReleaseDeferred, ReleaseClaims
<1>3. CASE \E r \in Run : RouteStep(r) \/ Disconnect(r)
  BY <1>3 DEF RouteStep, GraphStarts, Park, RouteEnds, Disconnect
<1>4. CASE \E c \in Cancel : CancelStep(c)
  BY <1>0, <1>4 DEF CancelStep, CancelRequest, CancelRun, CancelNothing, Request
<1>5. CASE \E d \in Delete : DeleteStep(d)
  BY <1>0, <1>5 DEF DeleteStep, DeleteRequest, DeleteCheckpoints, DeleteRow, DeleteFails, Request
<1>6. CASE Shutdown \/ Drained
  BY <1>6 DEF Shutdown, Drained
<1>7. CASE Crash
  BY <1>0, <1>7 DEF Crash
<1>8. CASE UNCHANGED vars
  BY <1>8 DEF vars
<1> QED BY <1>1, <1>2, <1>3, <1>4, <1>5, <1>6, <1>7, <1>8 DEF Next

(* A cancel has one step to take after it was admitted, a DELETE two.      *)
LEMMA CancelsEnd ==
    ASSUME NEW c \in Cancel
    PROVE  FairSpec /\ []NobodyIsStuck => Ends(c)
<1> DEFINE P == pc[c] \notin {"new", "done"}
           Q == pc[c] = "done"
<1>1. TypeOK /\ P /\ [Next]_vars => P' \/ Q'
  BY OthersPass
<1>2. TypeOK /\ P /\ <<Cancels(c)>>_vars => Q'
  BY DEF TypeOK, Request, Cancels, CancelStep, CancelRequest, CancelRun, CancelNothing, Goto
<1>3. NobodyIsStuck /\ P => ENABLED <<Cancels(c)>>_vars
  BY DEF NobodyIsStuck
<1>4. FairSpec => Spec /\ CancelFair(c)
  BY DEF FairSpec, HandlerFairness
<1>5. Spec /\ CancelFair(c) /\ []NobodyIsStuck => (P ~> Q)
  BY <1>1, <1>2, <1>3, RuntimeTyped, PTL DEF Spec, CancelFair
<1>6. pc[c] # "new" => P \/ Q
  OBVIOUS
<1> HIDE DEF P
<1> QED BY <1>4, <1>5, <1>6, PTL DEF Ends

LEMMA DeletesEnd ==
    ASSUME NEW d \in Delete
    PROVE  FairSpec /\ []NobodyIsStuck => Ends(d)
<1> DEFINE P == pc[d] \notin {"new", "delrow", "done"}
           R == pc[d] = "delrow"
           Q == pc[d] = "done"
<1>1. TypeOK /\ P /\ [Next]_vars => P' \/ (R \/ Q)'
  BY OthersPass
<1>2. TypeOK /\ P /\ <<Deletes(d)>>_vars => (R \/ Q)'
  BY DEF TypeOK, Request, Deletes, DeleteStep, DeleteRequest, DeleteCheckpoints, DeleteRow,
     DeleteFails, Goto
<1>3. TypeOK /\ R /\ [Next]_vars => R' \/ Q'
  BY OthersPass
<1>4. TypeOK /\ R /\ <<Deletes(d)>>_vars => Q'
  BY DEF TypeOK, Request, Deletes, DeleteStep, DeleteRequest, DeleteCheckpoints, DeleteRow,
     DeleteFails, Goto
<1>5. NobodyIsStuck /\ (P \/ R) => ENABLED <<Deletes(d)>>_vars
  BY DEF NobodyIsStuck
<1>6. FairSpec => Spec /\ DeleteFair(d)
  BY DEF FairSpec, HandlerFairness
<1>7. Spec /\ DeleteFair(d) /\ []NobodyIsStuck => (P ~> R \/ Q) /\ (R ~> Q)
  BY <1>1, <1>2, <1>3, <1>4, <1>5, RuntimeTyped, PTL DEF Spec, DeleteFair
<1>8. pc[d] # "new" => P \/ R \/ Q
  OBVIOUS
<1> HIDE DEF P, R
<1> QED BY <1>6, <1>7, <1>8, PTL DEF Ends

RequestsEnd == \A q \in Request : Ends(q)

(* Every request that was admitted comes to its end (each handler of       *)
(* runtime-fetch-core.ts returns, whatever the others do).                 *)
THEOREM EveryRequestEnds ==
    FairSpec /\ []NobodyIsStuck => RequestsEnd
<1>1. ASSUME NEW q \in Request PROVE FairSpec /\ []NobodyIsStuck => Ends(q)
  <2>1. CASE q \in Run BY <2>1, AllTheWay
  <2>2. CASE q \in Cancel BY <2>2, CancelsEnd
  <2>3. CASE q \in Delete BY <2>3, DeletesEnd
  <2> QED BY <2>1, <2>2, <2>3 DEF Request
<1> QED BY <1>1 DEF RequestsEnd

(* Every admitted request is answered.                                     *)
AnsweredInTheEnd(q) == pc[q] # "new" ~> Answered(q)

(* So each is answered (the response of every endpoint is sent).           *)
THEOREM RequestsAreAnswered ==
    FairSpec /\ []NobodyIsStuck => EveryRequestAnswered
<1>1. ASSUME NEW q \in Request PROVE FairSpec /\ []NobodyIsStuck => AnsweredInTheEnd(q)
  <2>1. FairSpec /\ []NobodyIsStuck => Ends(q)
    BY EveryRequestEnds DEF RequestsEnd
  <2>2. pc[q] = "done" => Answered(q)
    BY DEF Answered
  <2> QED BY <2>1, <2>2, PTL DEF Ends, AnsweredInTheEnd
<1> QED BY <1>1 DEF EveryRequestAnswered, AnsweredInTheEnd

(* A resume claim is held only between its claim and the end of its run.   *)
ClaimInv == \A r \in Run : resumeClaim = r => pc[r] \notin {"new", "claim", "done"}

LEMMA ClaimStep == TypeOK /\ ClaimInv /\ [Next]_vars => ClaimInv'
<1> SUFFICES ASSUME TypeOK, ClaimInv, [Next]_vars, NEW r \in Run, resumeClaim' = r
             PROVE  pc'[r] \notin {"new", "claim", "done"}
  BY DEF ClaimInv
<1>0. /\ pc \in [Request -> Locations \cup {"authorize", "delckpt", "delrow"}] /\ r \in Request
      /\ \A q \in Cancel \cup Delete : q # r /\ q \in Request
      /\ r # NoRun /\ \A s \in Run : s \in Request
  BY RuntimeAssumption DEF TypeOK, Request
<1>1. resumeClaim = r => pc[r] \notin {"new", "claim", "done"}
  BY DEF ClaimInv
<1> USE DEF Goto, Leave
<1>2. CASE \E s \in Run : StartStep(s)
  <2> PICK s \in Run : StartStep(s) BY <1>2
  <2>1. CASE Admit(s) BY <1>0, <1>1, <2>1 DEF Admit
  <2>2. CASE Refuse(s) BY <1>0, <1>1, <2>2 DEF Refuse
  <2>3. CASE TryClaim(s) BY <1>0, <1>1, <2>3 DEF TryClaim
  <2>4. CASE ReadPending(s) BY <1>0, <1>1, <2>4 DEF ReadPending
  <2>5. CASE RejectResume(s) BY <1>0, <1>1, <2>5 DEF RejectResume
  <2>6. CASE Load(s) BY <1>0, <1>1, <2>6 DEF Load
  <2>7. CASE Create(s) BY <1>0, <1>1, <2>7 DEF Create
  <2>8. CASE Begin(s) BY <1>0, <1>1, <2>8 DEF Begin
  <2>9. CASE BeginRefused(s) BY <1>0, <1>1, <2>9 DEF BeginRefused
  <2>10. CASE SampleBefore(s) BY <1>0, <1>1, <2>10 DEF SampleBefore
  <2>11. CASE MarkRoute(s) BY <1>0, <1>1, <2>11 DEF MarkRoute
  <2>12. CASE MarkBusy(s) BY <1>0, <1>1, <2>12 DEF MarkBusy
  <2>13. CASE StartFails(s) BY <1>0, <1>1, <2>13 DEF StartFails
  <2> QED BY <2>1, <2>2, <2>3, <2>4, <2>5, <2>6, <2>7, <2>8, <2>9, <2>10, <2>11, <2>12, <2>13
          DEF StartStep
<1>3. CASE \E s \in Run : RunStep(s)
  BY <1>0, <1>1, <1>3 DEF RunStep, SeeInterrupt, RouteSettled, AbortWins, Respond, Unwound,
     Settle, SettleReadFails, RecordParked, ClearParked, WriteStatus, SettleWriteFails, Finish,
     ReleaseDeferred, ReleaseClaims, AfterSettle
<1>4. CASE \E s \in Run : RouteStep(s) \/ Disconnect(s)
  BY <1>1, <1>4 DEF RouteStep, GraphStarts, Park, RouteEnds, Disconnect
<1>5. CASE \E c \in Cancel : CancelStep(c)
  BY <1>0, <1>1, <1>5 DEF CancelStep, CancelRequest, CancelRun, CancelNothing
<1>6. CASE \E d \in Delete : DeleteStep(d)
  BY <1>0, <1>1, <1>6 DEF DeleteStep, DeleteRequest, DeleteCheckpoints, DeleteRow, DeleteFails
<1>7. CASE Shutdown \/ Drained
  BY <1>1, <1>7 DEF Shutdown, Drained
<1>8. CASE Crash
  BY <1>0, <1>1, <1>8 DEF Crash
<1>9. CASE UNCHANGED vars
  BY <1>1, <1>9 DEF vars
<1> QED BY <1>2, <1>3, <1>4, <1>5, <1>6, <1>7, <1>8, <1>9 DEF Next

LEMMA ClaimInvariant == Spec => []ClaimInv
<1>1. Init => ClaimInv
  BY RuntimeAssumption DEF Init, ClaimInv
<1>2. TypeOK /\ ClaimInv /\ [Next]_vars => ClaimInv'
  BY ClaimStep
<1> QED BY <1>1, <1>2, RuntimeTyped, PTL DEF Spec

LetsGo(r) == Slot = r \/ resumeClaim = r ~> Slot # r /\ resumeClaim # r

(* Whoever holds the slot or the resume claim gives both back (the finally *)
(* of each endpoint, and the deferred release).                            *)
THEOREM SlotsAreGivenBack ==
    FairSpec /\ []NobodyIsStuck => HoldersLetGo
<1>1. ASSUME NEW r \in Run PROVE FairSpec /\ []NobodyIsStuck => LetsGo(r)
  <2>1. FairSpec /\ []NobodyIsStuck => Ends(r)
    BY EveryRequestEnds DEF RequestsEnd, Request
  <2>2. FairSpec => Spec
    BY DEF FairSpec
  <2>3. SlotMatchesHandlers /\ ClaimInv /\ (Slot = r \/ resumeClaim = r) => pc[r] # "new"
    BY DEF SlotMatchesHandlers, ClaimInv, Occupies
  <2>4. SlotMatchesHandlers /\ ClaimInv /\ pc[r] = "done" => Slot # r /\ resumeClaim # r
    BY DEF SlotMatchesHandlers, ClaimInv, Occupies
  <2> QED BY <2>1, <2>2, <2>3, <2>4, SlotIsExact, ClaimInvariant, PTL DEF Ends, LetsGo
<1> QED BY <1>1 DEF HoldersLetGo, LetsGo

-----------------------------------------------------------------------------
(* The registry by itself, for every set of threads, runs and claims,      *)
(* however its methods are called.                                         *)
CONSTANTS Threads, Runs, Claims

Reg == INSTANCE RunRegistry WITH Thread <- Threads, Run <- Runs, Claim <- Claims

(* The state of the registry keeps its type.                               *)
LEMMA RegistryTypeStep == Reg!TypeOK /\ [Reg!Next]_(Reg!registryVars) => Reg!TypeOK'
<1> SUFFICES ASSUME Reg!TypeOK, [Reg!Next]_(Reg!registryVars)
             PROVE  Reg!TypeOK'
  OBVIOUS
<1>1. ASSUME NEW r \in Runs, NEW t \in Threads, Reg!Begin(t, r)
      PROVE  Reg!TypeOK'
  BY <1>1 DEF Reg!Begin, Reg!TypeOK
<1>2. ASSUME NEW r \in Runs, Reg!Release(r)
      PROVE  Reg!TypeOK'
  <2>1. entries' \in [Threads -> Runs \cup {NoRun}]
    BY <1>2 DEF Reg!Release, Reg!TypeOK
  <2> QED
    BY <1>2, <2>1 DEF Reg!Release, Reg!TypeOK
<1>3. ASSUME NEW S \in SUBSET Runs, Reg!SourceAbort(S)
      PROVE  Reg!TypeOK'
  BY <1>3 DEF Reg!SourceAbort, Reg!TypeOK
<1>4. ASSUME NEW c \in Claims, NEW t \in Threads, Reg!TakeClaim(c, t)
      PROVE  Reg!TypeOK'
  BY <1>4 DEF Reg!TakeClaim, Reg!TypeOK
<1>5. ASSUME NEW r \in Runs, Reg!CancelEntry(r)
      PROVE  Reg!TypeOK'
  BY <1>5 DEF Reg!CancelEntry, Reg!TypeOK
<1>6. ASSUME NEW c \in Claims, Reg!CancelClaim(c)
      PROVE  Reg!TypeOK'
  BY <1>5, <1>6 DEF Reg!CancelClaim, Reg!Bound, Reg!TypeOK
<1>7. ASSUME NEW t \in Threads, Reg!CancelThread(t)
      PROVE  Reg!TypeOK'
  BY <1>5, <1>7 DEF Reg!CancelThread, Reg!TypeOK
<1>8. CASE UNCHANGED Reg!registryVars
  BY <1>8 DEF Reg!registryVars, Reg!TypeOK
<1> QED
  BY <1>1, <1>2, <1>3, <1>4, <1>6, <1>7, <1>8 DEF Reg!Next

(* A slot and the handle of the run in it stay in step.                    *)
LEMMA RegistryEntryStep ==
    Reg!RegistryAssumption /\ Reg!TypeOK /\ Reg!EntryIffHeld /\ [Reg!Next]_(Reg!registryVars)
        => Reg!EntryIffHeld'
<1> SUFFICES ASSUME Reg!RegistryAssumption, Reg!TypeOK, Reg!EntryIffHeld,
                    [Reg!Next]_(Reg!registryVars)
             PROVE  Reg!EntryIffHeld'
  OBVIOUS
<1>1. ASSUME NEW r \in Runs, NEW t \in Threads, Reg!Begin(t, r)
      PROVE  Reg!EntryIffHeld'
  BY <1>1 DEF Reg!RegistryAssumption, Reg!Begin, Reg!TypeOK, Reg!EntryIffHeld
<1>2. ASSUME NEW r \in Runs, Reg!Release(r)
      PROVE  Reg!EntryIffHeld'
  BY <1>2 DEF Reg!RegistryAssumption, Reg!Release, Reg!TypeOK, Reg!EntryIffHeld
<1>3. ASSUME NEW S \in SUBSET Runs, Reg!SourceAbort(S)
      PROVE  Reg!EntryIffHeld'
  BY <1>3 DEF Reg!RegistryAssumption, Reg!SourceAbort, Reg!TypeOK, Reg!EntryIffHeld
<1>4. ASSUME NEW c \in Claims, NEW t \in Threads, Reg!TakeClaim(c, t)
      PROVE  Reg!EntryIffHeld'
  BY <1>4 DEF Reg!RegistryAssumption, Reg!TakeClaim, Reg!TypeOK, Reg!EntryIffHeld
<1>5. ASSUME NEW r \in Runs \cup {NoRun}, Reg!CancelEntry(r)
      PROVE  Reg!EntryIffHeld'
  BY <1>5 DEF Reg!RegistryAssumption, Reg!CancelEntry, Reg!TypeOK, Reg!EntryIffHeld
<1>6. ASSUME NEW c \in Claims, Reg!CancelClaim(c)
      PROVE  Reg!EntryIffHeld'
  BY <1>5, <1>6 DEF Reg!RegistryAssumption, Reg!CancelClaim, Reg!TypeOK, Reg!EntryIffHeld
<1>7. ASSUME NEW t \in Threads, Reg!CancelThread(t)
      PROVE  Reg!EntryIffHeld'
  BY <1>5, <1>7 DEF Reg!RegistryAssumption, Reg!CancelThread, Reg!TypeOK, Reg!EntryIffHeld
<1>8. CASE UNCHANGED Reg!registryVars
  BY <1>8 DEF Reg!RegistryAssumption, Reg!registryVars, Reg!TypeOK, Reg!EntryIffHeld
<1> QED
  BY <1>1, <1>2, <1>3, <1>4, <1>6, <1>7, <1>8 DEF Reg!Next

(* A live run follows its source signal, and nothing else but a cancel     *)
(* aborts a run.                                                           *)
LEMMA RegistryAbortStep ==
    Reg!TypeOK /\ Reg!EntryIffHeld /\ Reg!AbortTracksSources
        /\ [Reg!Next]_(Reg!registryVars) => Reg!AbortTracksSources'
<1> SUFFICES ASSUME Reg!TypeOK, Reg!EntryIffHeld, Reg!AbortTracksSources,
                    [Reg!Next]_(Reg!registryVars)
             PROVE  Reg!AbortTracksSources'
  OBVIOUS
<1>1. ASSUME NEW r \in Runs, NEW t \in Threads, Reg!Begin(t, r)
      PROVE  Reg!AbortTracksSources'
  BY <1>1 DEF Reg!Begin, Reg!TypeOK, Reg!AbortTracksSources
<1>2. ASSUME NEW r \in Runs, Reg!Release(r)
      PROVE  Reg!AbortTracksSources'
  BY <1>2 DEF Reg!Release, Reg!TypeOK, Reg!AbortTracksSources
<1>3. ASSUME NEW S \in SUBSET Runs, Reg!SourceAbort(S)
      PROVE  Reg!AbortTracksSources'
  BY <1>3 DEF Reg!SourceAbort, Reg!TypeOK, Reg!AbortTracksSources
<1>4. ASSUME NEW c \in Claims, NEW t \in Threads, Reg!TakeClaim(c, t)
      PROVE  Reg!AbortTracksSources'
  BY <1>4 DEF Reg!TakeClaim, Reg!TypeOK, Reg!AbortTracksSources
<1>5. ASSUME NEW r \in Runs, Reg!CancelEntry(r)
      PROVE  Reg!AbortTracksSources'
  BY <1>5 DEF Reg!CancelEntry, Reg!TypeOK, Reg!AbortTracksSources
<1>6. ASSUME NEW c \in Claims, Reg!CancelClaim(c)
      PROVE  Reg!AbortTracksSources'
  BY <1>5, <1>6 DEF Reg!CancelClaim, Reg!Bound, Reg!TypeOK, Reg!AbortTracksSources
<1>7. ASSUME NEW t \in Threads, Reg!CancelThread(t)
      PROVE  Reg!AbortTracksSources'
  BY <1>5, <1>7 DEF Reg!CancelThread, Reg!TypeOK, Reg!AbortTracksSources
<1>8. CASE UNCHANGED Reg!registryVars
  BY <1>8 DEF Reg!registryVars, Reg!TypeOK, Reg!AbortTracksSources
<1> QED
  BY <1>1, <1>2, <1>3, <1>4, <1>6, <1>7, <1>8 DEF Reg!Next

RegistryInv == Reg!TypeOK /\ Reg!EntryIffHeld /\ Reg!AbortTracksSources

LEMMA RegistryInvInit == Reg!RegistryAssumption /\ Reg!Init => RegistryInv
  BY DEF Reg!RegistryAssumption, Reg!Init, RegistryInv, Reg!TypeOK, Reg!EntryIffHeld,
         Reg!AbortTracksSources

LEMMA RegistryInvStep ==
    Reg!RegistryAssumption /\ RegistryInv /\ [Reg!Next]_(Reg!registryVars) => RegistryInv'
  BY RegistryTypeStep, RegistryEntryStep, RegistryAbortStep DEF RegistryInv

(* However the methods of the registry are called, a run holds its         *)
(* thread's slot exactly while its handle is unreleased.                   *)
THEOREM SlotNamesLiveRun ==
    ASSUME Reg!RegistryAssumption
    PROVE  Reg!Spec => []Reg!EntryIffHeld
<1>1. RegistryInv => Reg!EntryIffHeld
  BY DEF RegistryInv
<1>2. Reg!Init => RegistryInv
  BY RegistryInvInit
<1>3. RegistryInv /\ [Reg!Next]_(Reg!registryVars) => RegistryInv'
  BY RegistryInvStep
<1> QED
  BY <1>1, <1>2, <1>3, PTL DEF Reg!Spec

(* However the methods of the registry are called, every part of its state *)
(* has its type.                                                           *)
THEOREM RegistryTyped ==
    ASSUME Reg!RegistryAssumption
    PROVE  Reg!Spec => []Reg!TypeOK
<1>1. RegistryInv => Reg!TypeOK
  BY DEF RegistryInv
<1>2. Reg!Init => RegistryInv
  BY RegistryInvInit
<1>3. RegistryInv /\ [Reg!Next]_(Reg!registryVars) => RegistryInv'
  BY RegistryInvStep
<1> QED
  BY <1>1, <1>2, <1>3, PTL DEF Reg!Spec

(* A run is aborted exactly by its own sources.                            *)
THEOREM AbortsFollowSources ==
    ASSUME Reg!RegistryAssumption
    PROVE  Reg!Spec => []Reg!AbortTracksSources
<1>1. RegistryInv => Reg!AbortTracksSources
  BY DEF RegistryInv
<1>2. Reg!Init => RegistryInv
  BY RegistryInvInit
<1>3. RegistryInv /\ [Reg!Next]_(Reg!registryVars) => RegistryInv'
  BY RegistryInvStep
<1> QED
  BY <1>1, <1>2, <1>3, PTL DEF Reg!Spec

(* No step cancels a run that does not hold its slot: neither a claim that *)
(* outlived the run it observed nor a cancel by thread id.                 *)
THEOREM RegistryCancelsHit ==
    ASSUME Reg!RegistryAssumption
    PROVE  Reg!Spec => Reg!CancelHitsHolder
<1> DEFINE Hits == \A r \in cancelled' \ cancelled :
                      handle[r] = "held" /\ entries[threadOf[r]] = r
<1>1. RegistryInv /\ [Reg!Next]_(Reg!registryVars) => [Hits]_(Reg!registryVars)
  <2> SUFFICES ASSUME RegistryInv, [Reg!Next]_(Reg!registryVars), NEW x \in cancelled' \ cancelled
               PROVE  handle[x] = "held" /\ entries[threadOf[x]] = x
    OBVIOUS
  <2> USE DEF Reg!RegistryAssumption, RegistryInv, Reg!TypeOK, Reg!EntryIffHeld
  <2>1. ASSUME NEW r \in Runs, NEW t \in Threads, entries[t] = r, Reg!CancelEntry(r)
        PROVE  handle[x] = "held" /\ entries[threadOf[x]] = x
    BY <2>1 DEF Reg!CancelEntry
  <2>2. ASSUME NEW c \in Claims, Reg!CancelClaim(c)
        PROVE  handle[x] = "held" /\ entries[threadOf[x]] = x
    BY <2>2 DEF Reg!CancelClaim, Reg!Bound, Reg!CancelEntry
  <2>3. ASSUME NEW t \in Threads, Reg!CancelThread(t)
        PROVE  handle[x] = "held" /\ entries[threadOf[x]] = x
    BY <2>1, <2>3 DEF Reg!CancelThread
  <2>4. \/ \E c \in Claims : Reg!CancelClaim(c)
        \/ \E t \in Threads : Reg!CancelThread(t)
    BY DEF Reg!Next, Reg!Begin, Reg!Release, Reg!SourceAbort, Reg!TakeClaim, Reg!registryVars
  <2> QED
    BY <2>2, <2>3, <2>4
<1>2. Reg!Init => RegistryInv
  BY RegistryInvInit
<1>3. RegistryInv /\ [Reg!Next]_(Reg!registryVars) => RegistryInv'
  BY RegistryInvStep
<1> QED
  BY <1>1, <1>2, <1>3, PTL DEF Reg!Spec, Reg!CancelHitsHolder
=============================================================================
