----------------------- MODULE RequestLifetime_proofs -----------------------
(***************************************************************************)
(* For any requests, runs and callers of close(): the counters of the      *)
(* drain are exact, the stores of a request outlive their users, no run    *)
(* escapes the shutdown, and the first close() leaves the handler quiet.   *)
(***************************************************************************)
EXTENDS RequestLifetime, FiniteSetTheorems, TLAPS

Record == [built : BOOLEAN, bodySettled : BOOLEAN, settled : BOOLEAN,
           pendingRuns : Nat, ctl : {"none", "live", "aborted"}]

(* A request's lifetime record follows its response: empty until the       *)
(* stores are there, open while the handler or the stream runs.            *)
BodyMatchesRequest ==
    \A q \in Request :
        /\ req[q] \in {"new", "stores"} => lifetime[q] = NoLifetime
        /\ req[q] \in {"dispatch", "streaming"} => ~lifetime[q].bodySettled
        /\ lifetime[q].settled <=> disposal[q] # "none"
        /\ lifetime[q].settled => lifetime[q].bodySettled /\ lifetime[q].pendingRuns = 0
        /\ lifetime[q].bodySettled => req[q] \in {"settled", "done"}

(* A run that holds its slot belongs to a request that has not settled,    *)
(* and listens to that request's controller; one that no longer holds it   *)
(* executes only because the shutdown aborted it.                          *)
RunsListenToTheirRequest ==
    /\ \A w \in held :
          /\ owner[w] \in Request
          /\ lifetime[owner[w]].ctl = "live" \/
                (lifetime[owner[w]].ctl = "aborted" /\ w \in aborted)
    /\ \A w \in executing : owner[w] \in Request /\ (w \in held \/ w \in aborted)
    /\ \A w \in Run : owner[w] = NoRequest => w \notin held /\ w \notin executing

(* Only close() aborts a controller, and it leaves none live.              *)
ClosedMeansAborted ==
    closed => \A q \in Request : lifetime[q].ctl = "live" => lifetime[q].settled

(* The closer that drains is the first one; once it is past its drain, and *)
(* did not give up, nothing is under way.                                  *)
FirstClosesIt ==
    /\ \A c \in first : closed /\ closer[c] # "new"
    /\ \A c \in Closer : closer[c] = "draining" => c \in first
    /\ FirstCloseLeavesQuiet

LInv ==
    /\ TypeOK /\ BodyMatchesRequest /\ RunsListenToTheirRequest
    /\ LiveControllersExact /\ ClosedMeansAborted
IInv == LInv /\ CountersAreExact /\ FirstClosesIt

LEMMA InitTypeOK == Init => TypeOK
<1> SUFFICES ASSUME Init PROVE TypeOK OBVIOUS
<1>1. NoLifetime \in Record BY DEF NoLifetime, Record
<1>2. lifetime \in [Request -> Record] BY <1>1 DEF Init
<1>3. /\ req \in [Request -> {"new", "stores", "dispatch", "streaming", "settled", "done"}]
      /\ disposal \in [Request -> {"none", "running", "done"}]
      /\ owner \in [Run -> Request \cup {NoRequest}]
      /\ closer \in [Closer -> {"new", "draining", "releasing", "returned"}]
  BY DEF Init
<1> QED BY <1>2, <1>3 DEF Init, TypeOK, Record

LEMMA InitIInv == Init => IInv
<1> SUFFICES ASSUME Init PROVE IInv OBVIOUS
<1>1. TypeOK BY InitTypeOK
<1>2. InFlight = {} /\ \A q \in Request : RunsOf(q) = {}
  BY DEF Init, InFlight, RunsOf
<1>3. CountersAreExact
  BY <1>2, FS_EmptySet DEF Init, CountersAreExact, NoLifetime
<1>4. BodyMatchesRequest /\ RunsListenToTheirRequest /\ LiveControllersExact
      /\ ClosedMeansAborted
  BY DEF Init, BodyMatchesRequest, RunsListenToTheirRequest, LiveControllersExact,
         ClosedMeansAborted, NoLifetime
<1>5. FirstClosesIt BY DEF Init, FirstClosesIt, FirstCloseLeavesQuiet
<1> QED BY <1>1, <1>3, <1>4, <1>5 DEF IInv, LInv

-----------------------------------------------------------------------------
(* A request that is in flight is counted, a run that is held is counted.  *)
LEMMA CountsArePositive ==
    ASSUME TypeOK, CountersAreExact
    PROVE /\ IsFiniteSet(InFlight) /\ \A q \in Request : IsFiniteSet(RunsOf(q))
          /\ \A q \in InFlight : active > 0
          /\ active = 0 => InFlight = {}
          /\ \A q \in Request : \A w \in RunsOf(q) : lifetime[q].pendingRuns > 0
          /\ \A q \in Request : lifetime[q].pendingRuns = 0 => RunsOf(q) = {}
<1>1. IsFiniteSet(InFlight) BY LifetimeAssumption, FS_Subset DEF InFlight
<1>2. ASSUME NEW q \in Request PROVE IsFiniteSet(RunsOf(q))
  <2>1. RunsOf(q) \subseteq Run BY DEF RunsOf, TypeOK
  <2> QED BY <2>1, LifetimeAssumption, FS_Subset
<1>3. active = 0 => InFlight = {}
  BY <1>1, FS_EmptySet DEF CountersAreExact
<1>4. ASSUME NEW q \in Request, lifetime[q].pendingRuns = 0 PROVE RunsOf(q) = {}
  BY <1>2, <1>4, FS_EmptySet DEF CountersAreExact
<1>5. \A q \in InFlight : active > 0
  BY <1>3 DEF TypeOK
<1>6. \A q \in Request : \A w \in RunsOf(q) : lifetime[q].pendingRuns > 0
  BY <1>4 DEF TypeOK
<1> QED BY <1>1, <1>2, <1>3, <1>4, <1>5, <1>6

-----------------------------------------------------------------------------
(* What a step does to the records: q's body is settled (b) and n of its   *)
(* runs are pending after it; the last of the two settles the request.     *)
Settling(q, b, n) ==
    LET ends == b /\ n = 0 /\ ~lifetime[q].settled IN
    /\ lifetime' \in [Request -> Record] /\ disposal' \in [Request -> {"none", "running", "done"}]
    /\ \A p \in Request : p # q => lifetime'[p] = lifetime[p] /\ disposal'[p] = disposal[p]
    /\ lifetime'[q].built = lifetime[q].built /\ lifetime'[q].ctl = lifetime[q].ctl
    /\ lifetime'[q].bodySettled = b /\ lifetime'[q].pendingRuns = n
    /\ ends => lifetime'[q].settled /\ disposal'[q] = "running" /\ liveCtls' = liveCtls \ {q}
    /\ ~ends => /\ lifetime'[q].settled = lifetime[q].settled
                /\ disposal'[q] = disposal[q] /\ liveCtls' = liveCtls

LEMMA SettleEffect ==
    ASSUME TypeOK, NEW q \in Request, NEW l \in Record, MaybeSettle(q, l),
           l.built = lifetime[q].built, l.ctl = lifetime[q].ctl,
           l.settled = lifetime[q].settled
    PROVE Settling(q, l.bodySettled, l.pendingRuns)
<1>1. lifetime \in [Request -> Record] /\ disposal \in [Request -> {"none", "running", "done"}]
  BY DEF TypeOK, Record
<1>2. CASE Ended(l) /\ ~l.settled
  <2> DEFINE k == [l EXCEPT !.settled = TRUE]
  <2>1. k \in Record /\ k.settled /\ k.built = l.built /\ k.ctl = l.ctl
        /\ k.bodySettled = l.bodySettled /\ k.pendingRuns = l.pendingRuns
    BY DEF Record
  <2>2. lifetime' = [lifetime EXCEPT ![q] = k] /\ liveCtls' = liveCtls \ {q}
        /\ disposal' = [disposal EXCEPT ![q] = "running"]
    BY <1>2 DEF MaybeSettle, CtlsAfter
  <2> HIDE DEF k
  <2> QED BY <1>1, <1>2, <2>1, <2>2 DEF Settling, Ended
<1>3. CASE ~(Ended(l) /\ ~l.settled)
  <2>1. lifetime' = [lifetime EXCEPT ![q] = l] /\ liveCtls' = liveCtls /\ disposal' = disposal
    BY <1>3 DEF MaybeSettle
  <2> QED BY <1>1, <1>3, <2>1 DEF Settling, Ended
<1> QED BY <1>2, <1>3

LEMMA BodyEffect ==
    ASSUME TypeOK, NEW q \in Request, SettleBody(q)
    PROVE Settling(q, TRUE, lifetime[q].pendingRuns)
<1> DEFINE l == [lifetime[q] EXCEPT !.bodySettled = TRUE]
<1>0. lifetime[q] \in Record BY DEF TypeOK, Record
<1>1. l \in Record /\ l.built = lifetime[q].built /\ l.ctl = lifetime[q].ctl
      /\ l.settled = lifetime[q].settled /\ l.bodySettled = TRUE
      /\ l.pendingRuns = lifetime[q].pendingRuns
  BY <1>0 DEF Record
<1>2. MaybeSettle(q, l) BY DEF SettleBody
<1> HIDE DEF l
<1>3. Settling(q, l.bodySettled, l.pendingRuns) BY <1>1, <1>2, SettleEffect
<1> QED BY <1>1, <1>3

LEMMA ReleaseEffect ==
    ASSUME IInv, NEW w \in Run, Release(w)
    PROVE /\ owner[w] \in Request /\ lifetime[owner[w]].pendingRuns - 1 \in Nat
          /\ Settling(owner[w], lifetime[owner[w]].bodySettled, lifetime[owner[w]].pendingRuns - 1)
<1> DEFINE q == owner[w]
           l == [lifetime[q] EXCEPT !.pendingRuns = @ - 1]
<1>0. TypeOK /\ q \in Request BY DEF IInv, LInv, Release, MayRelease, RunsListenToTheirRequest
<1>1. w \in RunsOf(q) BY DEF Release, MayRelease, RunsOf
<1>2. lifetime[q] \in Record BY <1>0 DEF TypeOK, Record
<1>3. lifetime[q].pendingRuns > 0 BY <1>0, <1>1, CountsArePositive DEF IInv
<1>4. lifetime[q].pendingRuns - 1 \in Nat BY <1>2, <1>3 DEF Record
<1>5. l \in Record /\ l.built = lifetime[q].built /\ l.ctl = lifetime[q].ctl
      /\ l.settled = lifetime[q].settled /\ l.bodySettled = lifetime[q].bodySettled
      /\ l.pendingRuns = lifetime[q].pendingRuns - 1
  BY <1>2, <1>4 DEF Record
<1>6. MaybeSettle(q, l) BY DEF Release
<1> HIDE DEF l, q
<1>7. Settling(q, l.bodySettled, l.pendingRuns) BY <1>0, <1>5, <1>6, SettleEffect
<1> QED BY <1>0, <1>4, <1>5, <1>7 DEF q

(* What getShutdownSignal and begin do to the record of q.                 *)
LEMMA SignalEffect ==
    ASSUME TypeOK, NEW q \in Request, BeginRefused(q) \/ \E w \in Run : Begin(w, q)
    PROVE /\ lifetime' \in [Request -> Record]
          /\ \A p \in Request : p # q => lifetime'[p] = lifetime[p]
          /\ lifetime'[q].built = lifetime[q].built
          /\ lifetime'[q].bodySettled = lifetime[q].bodySettled
          /\ lifetime'[q].settled = lifetime[q].settled
          /\ lifetime'[q].ctl = Signal(q)
          /\ (\E w \in Run : Begin(w, q)) =>
                lifetime'[q].pendingRuns = lifetime[q].pendingRuns + 1
          /\ BeginRefused(q) => lifetime'[q].pendingRuns = lifetime[q].pendingRuns
<1>1. lifetime \in [Request -> Record] BY DEF TypeOK, Record
<1>0. lifetime[q] \in Record BY <1>1
<1>2. Signal(q) \in {"none", "live", "aborted"}
  BY <1>1 DEF Signal, FreshCtl, Record
<1>3. CASE BeginRefused(q)
  <2> DEFINE k == [lifetime[q] EXCEPT !.ctl = Signal(q)]
  <2>1. k \in Record /\ k.built = lifetime[q].built /\ k.bodySettled = lifetime[q].bodySettled
        /\ k.settled = lifetime[q].settled /\ k.ctl = Signal(q)
        /\ k.pendingRuns = lifetime[q].pendingRuns
    BY <1>0, <1>2 DEF Record
  <2>2. lifetime' = [lifetime EXCEPT ![q] = k] BY <1>3 DEF BeginRefused
  <2>3. ~\E w \in Run : Begin(w, q)
    <3>1. owner' = owner BY <1>3 DEF BeginRefused, runVars
    <3> QED BY <3>1, LifetimeAssumption DEF Begin, TypeOK
  <2> HIDE DEF k
  <2> QED BY <1>1, <2>1, <2>2, <2>3
<1>4. CASE \E w \in Run : Begin(w, q)
  <2> DEFINE n == lifetime[q].pendingRuns + 1
             k == [built |-> lifetime[q].built, bodySettled |-> lifetime[q].bodySettled,
                   settled |-> lifetime[q].settled, pendingRuns |-> n, ctl |-> Signal(q)]
  <2>1. n \in Nat BY <1>0 DEF Record
  <2>2. k \in Record /\ k.built = lifetime[q].built /\ k.bodySettled = lifetime[q].bodySettled
        /\ k.settled = lifetime[q].settled /\ k.ctl = Signal(q)
        /\ k.pendingRuns = lifetime[q].pendingRuns + 1
    BY <1>0, <1>2, <2>1 DEF Record
  <2>6. PICK w \in Run : Begin(w, q) BY <1>4
  <2>7. lifetime' = [lifetime EXCEPT ![q].pendingRuns = @ + 1, ![q].ctl = Signal(q)]
    BY <2>6 DEF Begin
  <2> DEFINE L == lifetime'
  <2>5. L[q] = k
    BY <1>0, <1>1, <1>2, <2>1, <2>7 DEF Record
  <2>3. lifetime' = [lifetime EXCEPT ![q] = k] BY <1>1, <2>5, <2>7
  <2>4. ~BeginRefused(q) \/ lifetime[q].pendingRuns + 1 = lifetime[q].pendingRuns
    <3>1. BeginRefused(q) => owner' = owner BY DEF BeginRefused, runVars
    <3>2. \A v \in Run : Begin(v, q) => owner' # owner
      BY LifetimeAssumption DEF Begin, TypeOK
    <3> QED BY <1>4, <3>1, <3>2
  <2> HIDE DEF k
  <2> QED BY <1>1, <2>2, <2>3, <2>4
<1> QED BY <1>3, <1>4

(* close() changes nothing of a record but its controller.                 *)
LEMMA CloseEffect ==
    ASSUME TypeOK, NEW c \in Closer, Close(c)
    PROVE /\ lifetime' \in [Request -> Record]
          /\ \A q \in Request :
                /\ q \in liveCtls => lifetime'[q].ctl = "aborted"
                /\ q \notin liveCtls => lifetime'[q] = lifetime[q]
                /\ lifetime'[q].built = lifetime[q].built
                /\ lifetime'[q].bodySettled = lifetime[q].bodySettled
                /\ lifetime'[q].settled = lifetime[q].settled
                /\ lifetime'[q].pendingRuns = lifetime[q].pendingRuns
BY DEF TypeOK, Record, Close

LEMMA StepTypeOK ==
    ASSUME IInv, Next
    PROVE TypeOK'
<1> USE DEF TypeOK, runVars, closeVars
<1>0. TypeOK BY DEF IInv, LInv
<1>1. ASSUME NEW q \in Request, Arrive(q) PROVE TypeOK'
  BY <1>0, <1>1 DEF Arrive
<1>2. ASSUME NEW q \in Request, StoresFail(q) PROVE TypeOK'
  <2>1. active - 1 \in Nat BY <1>2, CountsArePositive DEF IInv, LInv, StoresFail, InFlight
  <2> QED BY <1>0, <1>2, <2>1 DEF StoresFail
<1>3. ASSUME NEW q \in Request, StoresReady(q) PROVE TypeOK'
  BY <1>0, <1>3 DEF StoresReady
<1>4. ASSUME NEW q \in Request, BeginRefused(q) PROVE TypeOK'
  <2>1. lifetime' \in [Request -> Record] BY <1>0, <1>4, SignalEffect
  <2> QED BY <1>0, <1>4, <2>1 DEF BeginRefused, Record
<1>5. ASSUME NEW q \in Request, Respond(q) PROVE TypeOK'
  <2>1. active - 1 \in Nat BY <1>5, CountsArePositive DEF IInv, LInv, Respond, InFlight
  <2>2. Settling(q, TRUE, lifetime[q].pendingRuns) BY <1>0, <1>5, BodyEffect DEF Respond
  <2>3. liveCtls' \subseteq Request BY <1>0, <2>2 DEF Settling
  <2> QED BY <1>0, <1>5, <2>1, <2>2, <2>3 DEF Respond, Settling, Record
<1>6. ASSUME NEW q \in Request, RespondStream(q) PROVE TypeOK'
  BY <1>0, <1>6 DEF RespondStream
<1>7. ASSUME NEW q \in Request, StreamSettles(q) PROVE TypeOK'
  <2>1. active - 1 \in Nat BY <1>7, CountsArePositive DEF IInv, LInv, StreamSettles, InFlight
  <2>2. Settling(q, TRUE, lifetime[q].pendingRuns) BY <1>0, <1>7, BodyEffect DEF StreamSettles
  <2>3. liveCtls' \subseteq Request BY <1>0, <2>2 DEF Settling
  <2> QED BY <1>0, <1>7, <2>1, <2>2, <2>3 DEF StreamSettles, Settling, Record
<1>8. ASSUME NEW q \in Request, StreamSettlesAgain(q) PROVE TypeOK'
  BY <1>0, <1>8 DEF StreamSettlesAgain, ActiveAfterSettle
<1>9. ASSUME NEW q \in Request, Disposed(q) PROVE TypeOK'
  BY <1>0, <1>9 DEF Disposed
<1>10. ASSUME NEW w \in Run, NEW q \in Request, Begin(w, q) PROVE TypeOK'
  <2>1. lifetime' \in [Request -> Record] BY <1>0, <1>10, SignalEffect
  <2> QED BY <1>0, <1>10, <2>1 DEF Begin, Record
<1>11. ASSUME NEW w \in Run, RouteEnds(w) PROVE TypeOK'
  BY <1>0, <1>11 DEF RouteEnds
<1>12. ASSUME NEW w \in Run, Release(w) PROVE TypeOK'
  <2>1. Settling(owner[w], lifetime[owner[w]].bodySettled, lifetime[owner[w]].pendingRuns - 1)
    BY <1>12, ReleaseEffect
  <2>2. liveCtls' \subseteq Request BY <1>0, <2>1 DEF Settling
  <2> QED BY <1>0, <1>12, <2>1, <2>2 DEF Release, MayRelease, Settling, Record
<1>13. ASSUME NEW c \in Closer, Close(c) PROVE TypeOK'
  <2>1. lifetime' \in [Request -> Record] BY <1>0, <1>13, CloseEffect
  <2> QED BY <1>0, <1>13, <2>1 DEF Close, Record
<1>14. ASSUME NEW c \in Closer, CloseAgain(c) PROVE TypeOK'
  BY <1>0, <1>14 DEF CloseAgain
<1>15. ASSUME NEW c \in Closer, Drain(c) PROVE TypeOK'
  BY <1>0, <1>15 DEF Drain, Drained
<1>16. ASSUME NEW c \in Closer, SandboxesReleased(c) PROVE TypeOK'
  BY <1>0, <1>16 DEF SandboxesReleased
<1> HIDE DEF TypeOK
<1> QED
  BY <1>1, <1>2, <1>3, <1>4, <1>5, <1>6, <1>7, <1>8, <1>9, <1>10, <1>11, <1>12,
       <1>13, <1>14, <1>15, <1>16 DEF Next

LEMMA StepBody ==
    ASSUME IInv, Next
    PROVE BodyMatchesRequest'
<1> USE LifetimeAssumption DEF LInv, TypeOK, BodyMatchesRequest,
     RunsListenToTheirRequest, LiveControllersExact, ClosedMeansAborted, NoLifetime,
     runVars, closeVars
<1>0. LInv BY DEF IInv
<1>1. ASSUME NEW q \in Request, Arrive(q) PROVE BodyMatchesRequest'
  BY <1>0, <1>1 DEF Arrive
<1>2. ASSUME NEW q \in Request, StoresFail(q) PROVE BodyMatchesRequest'
  BY <1>0, <1>2 DEF StoresFail
<1>3. ASSUME NEW q \in Request, StoresReady(q) PROVE BodyMatchesRequest'
  BY <1>0, <1>3 DEF StoresReady
<1>4. ASSUME NEW q \in Request, BeginRefused(q) PROVE BodyMatchesRequest'
  <2>1. /\ lifetime' \in [Request -> Record] /\ lifetime'[q].ctl = Signal(q)
        /\ \A p \in Request : p # q => lifetime'[p] = lifetime[p]
        /\ lifetime'[q].bodySettled = lifetime[q].bodySettled
        /\ lifetime'[q].settled = lifetime[q].settled
        /\ lifetime'[q].pendingRuns = lifetime[q].pendingRuns
    BY <1>0, <1>4, SignalEffect
  <2> HIDE DEF NoLifetime
  <2> QED BY <1>0, <1>4, <2>1 DEF BeginRefused, Signal, FreshCtl, RegistersCtl
<1>5. ASSUME NEW q \in Request, Respond(q) PROVE BodyMatchesRequest'
  <2>1. Settling(q, TRUE, lifetime[q].pendingRuns) BY <1>0, <1>5, BodyEffect DEF Respond
  <2> HIDE DEF NoLifetime
  <2> QED BY <1>0, <1>5, <2>1 DEF Respond, Settling
<1>6. ASSUME NEW q \in Request, RespondStream(q) PROVE BodyMatchesRequest'
  BY <1>0, <1>6 DEF RespondStream
<1>7. ASSUME NEW q \in Request, StreamSettles(q) PROVE BodyMatchesRequest'
  <2>1. Settling(q, TRUE, lifetime[q].pendingRuns) BY <1>0, <1>7, BodyEffect DEF StreamSettles
  <2> HIDE DEF NoLifetime
  <2> QED BY <1>0, <1>7, <2>1 DEF StreamSettles, Settling
<1>8. ASSUME NEW q \in Request, StreamSettlesAgain(q) PROVE BodyMatchesRequest'
  BY <1>0, <1>8 DEF StreamSettlesAgain, ActiveAfterSettle
<1>9. ASSUME NEW q \in Request, Disposed(q) PROVE BodyMatchesRequest'
  BY <1>0, <1>9 DEF Disposed
<1>10. ASSUME NEW w \in Run, NEW q \in Request, Begin(w, q) PROVE BodyMatchesRequest'
  <2>1. /\ lifetime' \in [Request -> Record] /\ lifetime'[q].ctl = Signal(q)
        /\ \A p \in Request : p # q => lifetime'[p] = lifetime[p]
        /\ lifetime'[q].bodySettled = lifetime[q].bodySettled
        /\ lifetime'[q].settled = lifetime[q].settled
    BY <1>0, <1>10, SignalEffect
  <2> HIDE DEF NoLifetime
  <2> QED BY <1>0, <1>10, <2>1 DEF Begin, Signal, FreshCtl, RegistersCtl
<1>11. ASSUME NEW w \in Run, RouteEnds(w) PROVE BodyMatchesRequest'
  BY <1>0, <1>11 DEF RouteEnds
<1>12. ASSUME NEW w \in Run, Release(w) PROVE BodyMatchesRequest'
  <2>1. PICK q \in Request : owner[w] = q /\ lifetime[q].pendingRuns - 1 \in Nat
          /\ Settling(q, lifetime[q].bodySettled, lifetime[q].pendingRuns - 1)
    BY <1>12, ReleaseEffect
  <2>2. w \in held /\ held' = held \ {w} /\ (w \in executing => w \in aborted)
        /\ executing' = executing /\ aborted' = aborted /\ owner' = owner /\ req' = req
        /\ closed' = closed
    BY <1>0, <1>12 DEF Release, MayRelease
  <2>3. lifetime[q].pendingRuns # 0 /\ ~lifetime[q].settled /\ req[q] \notin {"new", "stores"}
    BY <1>0, <2>1
  <2>4. /\ lifetime'[q].ctl = lifetime[q].ctl /\ lifetime'[q].bodySettled = lifetime[q].bodySettled
        /\ lifetime'[q].pendingRuns = lifetime[q].pendingRuns - 1
        /\ \A p \in Request : p # q => lifetime'[p] = lifetime[p] /\ disposal'[p] = disposal[p]
        /\ lifetime'[q].settled <=> disposal'[q] # "none"
        /\ lifetime'[q].settled => lifetime[q].bodySettled /\ lifetime[q].pendingRuns - 1 = 0
        /\ liveCtls' = {p \in liveCtls : p = q => ~lifetime'[q].settled}
    BY <1>0, <2>1, <2>3 DEF Settling
  <2> HIDE DEF NoLifetime
  <2> QED BY <1>0, <2>1, <2>2, <2>3, <2>4
<1>13. ASSUME NEW c \in Closer, Close(c) PROVE BodyMatchesRequest'
  <2>1. \A q \in Request :
           /\ q \in liveCtls => lifetime'[q].ctl = "aborted"
           /\ q \notin liveCtls => lifetime'[q] = lifetime[q]
           /\ lifetime'[q].bodySettled = lifetime[q].bodySettled
           /\ lifetime'[q].settled = lifetime[q].settled
           /\ lifetime'[q].pendingRuns = lifetime[q].pendingRuns
    BY <1>0, <1>13, CloseEffect
  <2>2. \A q \in Request : lifetime[q] = NoLifetime => q \notin liveCtls
    BY <1>0
  <2> HIDE DEF NoLifetime
  <2> QED BY <1>0, <1>13, <2>1, <2>2 DEF Close
<1>14. ASSUME NEW c \in Closer, CloseAgain(c) PROVE BodyMatchesRequest'
  BY <1>0, <1>14 DEF CloseAgain
<1>15. ASSUME NEW c \in Closer, Drain(c) PROVE BodyMatchesRequest'
  BY <1>0, <1>15 DEF Drain, Drained
<1>16. ASSUME NEW c \in Closer, SandboxesReleased(c) PROVE BodyMatchesRequest'
  BY <1>0, <1>16 DEF SandboxesReleased
<1> HIDE DEF LInv, TypeOK, BodyMatchesRequest, RunsListenToTheirRequest,
     LiveControllersExact, ClosedMeansAborted
<1> QED
  BY <1>1, <1>2, <1>3, <1>4, <1>5, <1>6, <1>7, <1>8, <1>9, <1>10, <1>11, <1>12,
       <1>13, <1>14, <1>15, <1>16 DEF Next

LEMMA StepRuns ==
    ASSUME IInv, Next
    PROVE RunsListenToTheirRequest'
<1> USE LifetimeAssumption DEF LInv, TypeOK, BodyMatchesRequest,
     RunsListenToTheirRequest, LiveControllersExact, ClosedMeansAborted, NoLifetime,
     runVars, closeVars
<1>0. LInv BY DEF IInv
<1>1. ASSUME NEW q \in Request, Arrive(q) PROVE RunsListenToTheirRequest'
  BY <1>0, <1>1 DEF Arrive
<1>2. ASSUME NEW q \in Request, StoresFail(q) PROVE RunsListenToTheirRequest'
  BY <1>0, <1>2 DEF StoresFail
<1>3. ASSUME NEW q \in Request, StoresReady(q) PROVE RunsListenToTheirRequest'
  BY <1>0, <1>3 DEF StoresReady
<1>4. ASSUME NEW q \in Request, BeginRefused(q) PROVE RunsListenToTheirRequest'
  <2>1. /\ lifetime' \in [Request -> Record] /\ lifetime'[q].ctl = Signal(q)
        /\ \A p \in Request : p # q => lifetime'[p] = lifetime[p]
        /\ lifetime'[q].bodySettled = lifetime[q].bodySettled
        /\ lifetime'[q].settled = lifetime[q].settled
        /\ lifetime'[q].pendingRuns = lifetime[q].pendingRuns
    BY <1>0, <1>4, SignalEffect
  <2> HIDE DEF NoLifetime
  <2> QED BY <1>0, <1>4, <2>1 DEF BeginRefused, Signal, FreshCtl, RegistersCtl
<1>5. ASSUME NEW q \in Request, Respond(q) PROVE RunsListenToTheirRequest'
  <2>1. Settling(q, TRUE, lifetime[q].pendingRuns) BY <1>0, <1>5, BodyEffect DEF Respond
  <2> HIDE DEF NoLifetime
  <2> QED BY <1>0, <1>5, <2>1 DEF Respond, Settling
<1>6. ASSUME NEW q \in Request, RespondStream(q) PROVE RunsListenToTheirRequest'
  BY <1>0, <1>6 DEF RespondStream
<1>7. ASSUME NEW q \in Request, StreamSettles(q) PROVE RunsListenToTheirRequest'
  <2>1. Settling(q, TRUE, lifetime[q].pendingRuns) BY <1>0, <1>7, BodyEffect DEF StreamSettles
  <2> HIDE DEF NoLifetime
  <2> QED BY <1>0, <1>7, <2>1 DEF StreamSettles, Settling
<1>8. ASSUME NEW q \in Request, StreamSettlesAgain(q) PROVE RunsListenToTheirRequest'
  BY <1>0, <1>8 DEF StreamSettlesAgain, ActiveAfterSettle
<1>9. ASSUME NEW q \in Request, Disposed(q) PROVE RunsListenToTheirRequest'
  BY <1>0, <1>9 DEF Disposed
<1>10. ASSUME NEW w \in Run, NEW q \in Request, Begin(w, q) PROVE RunsListenToTheirRequest'
  <2>1. /\ lifetime' \in [Request -> Record] /\ lifetime'[q].ctl = Signal(q)
        /\ \A p \in Request : p # q => lifetime'[p] = lifetime[p]
        /\ lifetime'[q].bodySettled = lifetime[q].bodySettled
        /\ lifetime'[q].settled = lifetime[q].settled
    BY <1>0, <1>10, SignalEffect
  <2> HIDE DEF NoLifetime
  <2> QED BY <1>0, <1>10, <2>1 DEF Begin, Signal, FreshCtl, RegistersCtl
<1>11. ASSUME NEW w \in Run, RouteEnds(w) PROVE RunsListenToTheirRequest'
  BY <1>0, <1>11 DEF RouteEnds
<1>12. ASSUME NEW w \in Run, Release(w) PROVE RunsListenToTheirRequest'
  <2>1. PICK q \in Request : owner[w] = q /\ lifetime[q].pendingRuns - 1 \in Nat
          /\ Settling(q, lifetime[q].bodySettled, lifetime[q].pendingRuns - 1)
    BY <1>12, ReleaseEffect
  <2>2. w \in held /\ held' = held \ {w} /\ (w \in executing => w \in aborted)
        /\ executing' = executing /\ aborted' = aborted /\ owner' = owner /\ req' = req
        /\ closed' = closed
    BY <1>0, <1>12 DEF Release, MayRelease
  <2>3. lifetime[q].pendingRuns # 0 /\ ~lifetime[q].settled /\ req[q] \notin {"new", "stores"}
    BY <1>0, <2>1
  <2>4. /\ lifetime'[q].ctl = lifetime[q].ctl /\ lifetime'[q].bodySettled = lifetime[q].bodySettled
        /\ lifetime'[q].pendingRuns = lifetime[q].pendingRuns - 1
        /\ \A p \in Request : p # q => lifetime'[p] = lifetime[p] /\ disposal'[p] = disposal[p]
        /\ lifetime'[q].settled <=> disposal'[q] # "none"
        /\ lifetime'[q].settled => lifetime[q].bodySettled /\ lifetime[q].pendingRuns - 1 = 0
        /\ liveCtls' = {p \in liveCtls : p = q => ~lifetime'[q].settled}
    BY <1>0, <2>1, <2>3 DEF Settling
  <2> HIDE DEF NoLifetime
  <2> QED BY <1>0, <2>1, <2>2, <2>3, <2>4
<1>13. ASSUME NEW c \in Closer, Close(c) PROVE RunsListenToTheirRequest'
  <2>1. \A q \in Request :
           /\ q \in liveCtls => lifetime'[q].ctl = "aborted"
           /\ q \notin liveCtls => lifetime'[q] = lifetime[q]
           /\ lifetime'[q].bodySettled = lifetime[q].bodySettled
           /\ lifetime'[q].settled = lifetime[q].settled
           /\ lifetime'[q].pendingRuns = lifetime[q].pendingRuns
    BY <1>0, <1>13, CloseEffect
  <2>2. \A q \in Request : lifetime[q] = NoLifetime => q \notin liveCtls
    BY <1>0
  <2> HIDE DEF NoLifetime
  <2> QED BY <1>0, <1>13, <2>1, <2>2 DEF Close
<1>14. ASSUME NEW c \in Closer, CloseAgain(c) PROVE RunsListenToTheirRequest'
  BY <1>0, <1>14 DEF CloseAgain
<1>15. ASSUME NEW c \in Closer, Drain(c) PROVE RunsListenToTheirRequest'
  BY <1>0, <1>15 DEF Drain, Drained
<1>16. ASSUME NEW c \in Closer, SandboxesReleased(c) PROVE RunsListenToTheirRequest'
  BY <1>0, <1>16 DEF SandboxesReleased
<1> HIDE DEF LInv, TypeOK, BodyMatchesRequest, RunsListenToTheirRequest,
     LiveControllersExact, ClosedMeansAborted
<1> QED
  BY <1>1, <1>2, <1>3, <1>4, <1>5, <1>6, <1>7, <1>8, <1>9, <1>10, <1>11, <1>12,
       <1>13, <1>14, <1>15, <1>16 DEF Next

LEMMA StepCtls ==
    ASSUME IInv, Next
    PROVE LiveControllersExact'
<1> USE LifetimeAssumption DEF LInv, TypeOK, BodyMatchesRequest,
     RunsListenToTheirRequest, LiveControllersExact, ClosedMeansAborted, NoLifetime,
     runVars, closeVars
<1>0. LInv BY DEF IInv
<1>1. ASSUME NEW q \in Request, Arrive(q) PROVE LiveControllersExact'
  BY <1>0, <1>1 DEF Arrive
<1>2. ASSUME NEW q \in Request, StoresFail(q) PROVE LiveControllersExact'
  BY <1>0, <1>2 DEF StoresFail
<1>3. ASSUME NEW q \in Request, StoresReady(q) PROVE LiveControllersExact'
  BY <1>0, <1>3 DEF StoresReady
<1>4. ASSUME NEW q \in Request, BeginRefused(q) PROVE LiveControllersExact'
  <2>1. /\ lifetime' \in [Request -> Record] /\ lifetime'[q].ctl = Signal(q)
        /\ \A p \in Request : p # q => lifetime'[p] = lifetime[p]
        /\ lifetime'[q].bodySettled = lifetime[q].bodySettled
        /\ lifetime'[q].settled = lifetime[q].settled
        /\ lifetime'[q].pendingRuns = lifetime[q].pendingRuns
    BY <1>0, <1>4, SignalEffect
  <2> HIDE DEF NoLifetime
  <2> QED BY <1>0, <1>4, <2>1 DEF BeginRefused, Signal, FreshCtl, RegistersCtl
<1>5. ASSUME NEW q \in Request, Respond(q) PROVE LiveControllersExact'
  <2>1. Settling(q, TRUE, lifetime[q].pendingRuns) BY <1>0, <1>5, BodyEffect DEF Respond
  <2> HIDE DEF NoLifetime
  <2> QED BY <1>0, <1>5, <2>1 DEF Respond, Settling
<1>6. ASSUME NEW q \in Request, RespondStream(q) PROVE LiveControllersExact'
  BY <1>0, <1>6 DEF RespondStream
<1>7. ASSUME NEW q \in Request, StreamSettles(q) PROVE LiveControllersExact'
  <2>1. Settling(q, TRUE, lifetime[q].pendingRuns) BY <1>0, <1>7, BodyEffect DEF StreamSettles
  <2> HIDE DEF NoLifetime
  <2> QED BY <1>0, <1>7, <2>1 DEF StreamSettles, Settling
<1>8. ASSUME NEW q \in Request, StreamSettlesAgain(q) PROVE LiveControllersExact'
  BY <1>0, <1>8 DEF StreamSettlesAgain, ActiveAfterSettle
<1>9. ASSUME NEW q \in Request, Disposed(q) PROVE LiveControllersExact'
  BY <1>0, <1>9 DEF Disposed
<1>10. ASSUME NEW w \in Run, NEW q \in Request, Begin(w, q) PROVE LiveControllersExact'
  <2>1. /\ lifetime' \in [Request -> Record] /\ lifetime'[q].ctl = Signal(q)
        /\ \A p \in Request : p # q => lifetime'[p] = lifetime[p]
        /\ lifetime'[q].bodySettled = lifetime[q].bodySettled
        /\ lifetime'[q].settled = lifetime[q].settled
    BY <1>0, <1>10, SignalEffect
  <2> HIDE DEF NoLifetime
  <2> QED BY <1>0, <1>10, <2>1 DEF Begin, Signal, FreshCtl, RegistersCtl
<1>11. ASSUME NEW w \in Run, RouteEnds(w) PROVE LiveControllersExact'
  BY <1>0, <1>11 DEF RouteEnds
<1>12. ASSUME NEW w \in Run, Release(w) PROVE LiveControllersExact'
  <2>1. PICK q \in Request : owner[w] = q /\ lifetime[q].pendingRuns - 1 \in Nat
          /\ Settling(q, lifetime[q].bodySettled, lifetime[q].pendingRuns - 1)
    BY <1>12, ReleaseEffect
  <2>2. w \in held /\ held' = held \ {w} /\ (w \in executing => w \in aborted)
        /\ executing' = executing /\ aborted' = aborted /\ owner' = owner /\ req' = req
        /\ closed' = closed
    BY <1>0, <1>12 DEF Release, MayRelease
  <2>3. lifetime[q].pendingRuns # 0 /\ ~lifetime[q].settled /\ req[q] \notin {"new", "stores"}
    BY <1>0, <2>1
  <2>4. /\ lifetime'[q].ctl = lifetime[q].ctl /\ lifetime'[q].bodySettled = lifetime[q].bodySettled
        /\ lifetime'[q].pendingRuns = lifetime[q].pendingRuns - 1
        /\ \A p \in Request : p # q => lifetime'[p] = lifetime[p] /\ disposal'[p] = disposal[p]
        /\ lifetime'[q].settled <=> disposal'[q] # "none"
        /\ lifetime'[q].settled => lifetime[q].bodySettled /\ lifetime[q].pendingRuns - 1 = 0
        /\ liveCtls' = {p \in liveCtls : p = q => ~lifetime'[q].settled}
    BY <1>0, <2>1, <2>3 DEF Settling
  <2> HIDE DEF NoLifetime
  <2> QED BY <1>0, <2>1, <2>2, <2>3, <2>4
<1>13. ASSUME NEW c \in Closer, Close(c) PROVE LiveControllersExact'
  <2>1. \A q \in Request :
           /\ q \in liveCtls => lifetime'[q].ctl = "aborted"
           /\ q \notin liveCtls => lifetime'[q] = lifetime[q]
           /\ lifetime'[q].bodySettled = lifetime[q].bodySettled
           /\ lifetime'[q].settled = lifetime[q].settled
           /\ lifetime'[q].pendingRuns = lifetime[q].pendingRuns
    BY <1>0, <1>13, CloseEffect
  <2>2. \A q \in Request : lifetime[q] = NoLifetime => q \notin liveCtls
    BY <1>0
  <2> HIDE DEF NoLifetime
  <2> QED BY <1>0, <1>13, <2>1, <2>2 DEF Close
<1>14. ASSUME NEW c \in Closer, CloseAgain(c) PROVE LiveControllersExact'
  BY <1>0, <1>14 DEF CloseAgain
<1>15. ASSUME NEW c \in Closer, Drain(c) PROVE LiveControllersExact'
  BY <1>0, <1>15 DEF Drain, Drained
<1>16. ASSUME NEW c \in Closer, SandboxesReleased(c) PROVE LiveControllersExact'
  BY <1>0, <1>16 DEF SandboxesReleased
<1> HIDE DEF LInv, TypeOK, BodyMatchesRequest, RunsListenToTheirRequest,
     LiveControllersExact, ClosedMeansAborted
<1> QED
  BY <1>1, <1>2, <1>3, <1>4, <1>5, <1>6, <1>7, <1>8, <1>9, <1>10, <1>11, <1>12,
       <1>13, <1>14, <1>15, <1>16 DEF Next

LEMMA StepClosed ==
    ASSUME IInv, Next
    PROVE ClosedMeansAborted'
<1> USE LifetimeAssumption DEF LInv, TypeOK, BodyMatchesRequest,
     RunsListenToTheirRequest, LiveControllersExact, ClosedMeansAborted, NoLifetime,
     runVars, closeVars
<1>0. LInv BY DEF IInv
<1>1. ASSUME NEW q \in Request, Arrive(q) PROVE ClosedMeansAborted'
  BY <1>0, <1>1 DEF Arrive
<1>2. ASSUME NEW q \in Request, StoresFail(q) PROVE ClosedMeansAborted'
  BY <1>0, <1>2 DEF StoresFail
<1>3. ASSUME NEW q \in Request, StoresReady(q) PROVE ClosedMeansAborted'
  BY <1>0, <1>3 DEF StoresReady
<1>4. ASSUME NEW q \in Request, BeginRefused(q) PROVE ClosedMeansAborted'
  <2>1. /\ lifetime' \in [Request -> Record] /\ lifetime'[q].ctl = Signal(q)
        /\ \A p \in Request : p # q => lifetime'[p] = lifetime[p]
        /\ lifetime'[q].bodySettled = lifetime[q].bodySettled
        /\ lifetime'[q].settled = lifetime[q].settled
        /\ lifetime'[q].pendingRuns = lifetime[q].pendingRuns
    BY <1>0, <1>4, SignalEffect
  <2> HIDE DEF NoLifetime
  <2> QED BY <1>0, <1>4, <2>1 DEF BeginRefused, Signal, FreshCtl, RegistersCtl
<1>5. ASSUME NEW q \in Request, Respond(q) PROVE ClosedMeansAborted'
  <2>1. Settling(q, TRUE, lifetime[q].pendingRuns) BY <1>0, <1>5, BodyEffect DEF Respond
  <2> HIDE DEF NoLifetime
  <2> QED BY <1>0, <1>5, <2>1 DEF Respond, Settling
<1>6. ASSUME NEW q \in Request, RespondStream(q) PROVE ClosedMeansAborted'
  BY <1>0, <1>6 DEF RespondStream
<1>7. ASSUME NEW q \in Request, StreamSettles(q) PROVE ClosedMeansAborted'
  <2>1. Settling(q, TRUE, lifetime[q].pendingRuns) BY <1>0, <1>7, BodyEffect DEF StreamSettles
  <2> HIDE DEF NoLifetime
  <2> QED BY <1>0, <1>7, <2>1 DEF StreamSettles, Settling
<1>8. ASSUME NEW q \in Request, StreamSettlesAgain(q) PROVE ClosedMeansAborted'
  BY <1>0, <1>8 DEF StreamSettlesAgain, ActiveAfterSettle
<1>9. ASSUME NEW q \in Request, Disposed(q) PROVE ClosedMeansAborted'
  BY <1>0, <1>9 DEF Disposed
<1>10. ASSUME NEW w \in Run, NEW q \in Request, Begin(w, q) PROVE ClosedMeansAborted'
  <2>1. /\ lifetime' \in [Request -> Record] /\ lifetime'[q].ctl = Signal(q)
        /\ \A p \in Request : p # q => lifetime'[p] = lifetime[p]
        /\ lifetime'[q].bodySettled = lifetime[q].bodySettled
        /\ lifetime'[q].settled = lifetime[q].settled
    BY <1>0, <1>10, SignalEffect
  <2> HIDE DEF NoLifetime
  <2> QED BY <1>0, <1>10, <2>1 DEF Begin, Signal, FreshCtl, RegistersCtl
<1>11. ASSUME NEW w \in Run, RouteEnds(w) PROVE ClosedMeansAborted'
  BY <1>0, <1>11 DEF RouteEnds
<1>12. ASSUME NEW w \in Run, Release(w) PROVE ClosedMeansAborted'
  <2>1. PICK q \in Request : owner[w] = q /\ lifetime[q].pendingRuns - 1 \in Nat
          /\ Settling(q, lifetime[q].bodySettled, lifetime[q].pendingRuns - 1)
    BY <1>12, ReleaseEffect
  <2>2. w \in held /\ held' = held \ {w} /\ (w \in executing => w \in aborted)
        /\ executing' = executing /\ aborted' = aborted /\ owner' = owner /\ req' = req
        /\ closed' = closed
    BY <1>0, <1>12 DEF Release, MayRelease
  <2>3. lifetime[q].pendingRuns # 0 /\ ~lifetime[q].settled /\ req[q] \notin {"new", "stores"}
    BY <1>0, <2>1
  <2>4. /\ lifetime'[q].ctl = lifetime[q].ctl /\ lifetime'[q].bodySettled = lifetime[q].bodySettled
        /\ lifetime'[q].pendingRuns = lifetime[q].pendingRuns - 1
        /\ \A p \in Request : p # q => lifetime'[p] = lifetime[p] /\ disposal'[p] = disposal[p]
        /\ lifetime'[q].settled <=> disposal'[q] # "none"
        /\ lifetime'[q].settled => lifetime[q].bodySettled /\ lifetime[q].pendingRuns - 1 = 0
        /\ liveCtls' = {p \in liveCtls : p = q => ~lifetime'[q].settled}
    BY <1>0, <2>1, <2>3 DEF Settling
  <2> HIDE DEF NoLifetime
  <2> QED BY <1>0, <2>1, <2>2, <2>3, <2>4
<1>13. ASSUME NEW c \in Closer, Close(c) PROVE ClosedMeansAborted'
  <2>1. \A q \in Request :
           /\ q \in liveCtls => lifetime'[q].ctl = "aborted"
           /\ q \notin liveCtls => lifetime'[q] = lifetime[q]
           /\ lifetime'[q].bodySettled = lifetime[q].bodySettled
           /\ lifetime'[q].settled = lifetime[q].settled
           /\ lifetime'[q].pendingRuns = lifetime[q].pendingRuns
    BY <1>0, <1>13, CloseEffect
  <2>2. \A q \in Request : lifetime[q] = NoLifetime => q \notin liveCtls
    BY <1>0
  <2> HIDE DEF NoLifetime
  <2> QED BY <1>0, <1>13, <2>1, <2>2 DEF Close
<1>14. ASSUME NEW c \in Closer, CloseAgain(c) PROVE ClosedMeansAborted'
  BY <1>0, <1>14 DEF CloseAgain
<1>15. ASSUME NEW c \in Closer, Drain(c) PROVE ClosedMeansAborted'
  BY <1>0, <1>15 DEF Drain, Drained
<1>16. ASSUME NEW c \in Closer, SandboxesReleased(c) PROVE ClosedMeansAborted'
  BY <1>0, <1>16 DEF SandboxesReleased
<1> HIDE DEF LInv, TypeOK, BodyMatchesRequest, RunsListenToTheirRequest,
     LiveControllersExact, ClosedMeansAborted
<1> QED
  BY <1>1, <1>2, <1>3, <1>4, <1>5, <1>6, <1>7, <1>8, <1>9, <1>10, <1>11, <1>12,
       <1>13, <1>14, <1>15, <1>16 DEF Next
-----------------------------------------------------------------------------
(* Each request is counted once, from its arrival to its last settling.    *)
LEMMA StepActive ==
    ASSUME IInv, Next
    PROVE active' = Cardinality(InFlight')
<1> USE DEF InFlight, TypeOK, runVars, closeVars
<1>0. TypeOK /\ IsFiniteSet(InFlight) /\ active = Cardinality(InFlight)
  BY CountsArePositive DEF IInv, LInv, CountersAreExact
<1>1. ASSUME NEW q \in Request, Arrive(q) PROVE active' = Cardinality(InFlight')
  <2>1. InFlight' = InFlight \cup {q} /\ q \notin InFlight BY <1>0, <1>1 DEF Arrive
  <2>2. active' = active + 1 BY <1>1 DEF Arrive
  <2> QED BY <1>0, <2>1, <2>2, FS_AddElement
<1>2. ASSUME NEW q \in Request, StoresFail(q) PROVE active' = Cardinality(InFlight')
  <2>1. InFlight' = InFlight \ {q} /\ q \in InFlight BY <1>0, <1>2 DEF StoresFail
  <2>2. active' = active - 1 BY <1>2 DEF StoresFail
  <2> HIDE DEF InFlight, TypeOK
  <2>3. Cardinality(InFlight \ {q}) = Cardinality(InFlight) - 1 BY <1>0, <2>1, FS_RemoveElement
  <2> QED BY <1>0, <2>1, <2>2, <2>3
<1>3. ASSUME NEW q \in Request, StoresReady(q) PROVE active' = Cardinality(InFlight')
  <2>1. InFlight' = InFlight /\ active' = active BY <1>0, <1>3 DEF StoresReady, ActiveAfterSettle
  <2> QED BY <1>0, <2>1
<1>4. ASSUME NEW q \in Request, BeginRefused(q) PROVE active' = Cardinality(InFlight')
  <2>1. InFlight' = InFlight /\ active' = active BY <1>0, <1>4 DEF BeginRefused, ActiveAfterSettle
  <2> QED BY <1>0, <2>1
<1>5. ASSUME NEW q \in Request, Respond(q) PROVE active' = Cardinality(InFlight')
  <2>1. InFlight' = InFlight \ {q} /\ q \in InFlight BY <1>0, <1>5 DEF Respond
  <2>2. active' = active - 1 BY <1>5 DEF Respond
  <2> HIDE DEF InFlight, TypeOK
  <2>3. Cardinality(InFlight \ {q}) = Cardinality(InFlight) - 1 BY <1>0, <2>1, FS_RemoveElement
  <2> QED BY <1>0, <2>1, <2>2, <2>3
<1>6. ASSUME NEW q \in Request, RespondStream(q) PROVE active' = Cardinality(InFlight')
  <2>1. InFlight' = InFlight /\ active' = active BY <1>0, <1>6 DEF RespondStream, ActiveAfterSettle
  <2> QED BY <1>0, <2>1
<1>7. ASSUME NEW q \in Request, StreamSettles(q) PROVE active' = Cardinality(InFlight')
  <2>1. InFlight' = InFlight \ {q} /\ q \in InFlight BY <1>0, <1>7 DEF StreamSettles
  <2>2. active' = active - 1 BY <1>7 DEF StreamSettles
  <2> HIDE DEF InFlight, TypeOK
  <2>3. Cardinality(InFlight \ {q}) = Cardinality(InFlight) - 1 BY <1>0, <2>1, FS_RemoveElement
  <2> QED BY <1>0, <2>1, <2>2, <2>3
<1>8. ASSUME NEW q \in Request, StreamSettlesAgain(q) PROVE active' = Cardinality(InFlight')
  <2>1. InFlight' = InFlight /\ active' = active BY <1>0, <1>8 DEF StreamSettlesAgain, ActiveAfterSettle
  <2> QED BY <1>0, <2>1
<1>9. ASSUME NEW q \in Request, Disposed(q) PROVE active' = Cardinality(InFlight')
  <2>1. InFlight' = InFlight /\ active' = active BY <1>0, <1>9 DEF Disposed, ActiveAfterSettle
  <2> QED BY <1>0, <2>1
<1>10. ASSUME NEW w \in Run, NEW q \in Request, Begin(w, q) PROVE active' = Cardinality(InFlight')
  <2>1. InFlight' = InFlight /\ active' = active BY <1>0, <1>10 DEF Begin, ActiveAfterSettle
  <2> QED BY <1>0, <2>1
<1>11. ASSUME NEW w \in Run, RouteEnds(w) PROVE active' = Cardinality(InFlight')
  <2>1. InFlight' = InFlight /\ active' = active BY <1>0, <1>11 DEF RouteEnds, ActiveAfterSettle
  <2> QED BY <1>0, <2>1
<1>12. ASSUME NEW w \in Run, Release(w) PROVE active' = Cardinality(InFlight')
  <2>1. InFlight' = InFlight /\ active' = active BY <1>0, <1>12 DEF Release, ActiveAfterSettle
  <2> QED BY <1>0, <2>1
<1>13. ASSUME NEW c \in Closer, Close(c) PROVE active' = Cardinality(InFlight')
  <2>1. InFlight' = InFlight /\ active' = active BY <1>0, <1>13 DEF Close, ActiveAfterSettle
  <2> QED BY <1>0, <2>1
<1>14. ASSUME NEW c \in Closer, CloseAgain(c) PROVE active' = Cardinality(InFlight')
  <2>1. InFlight' = InFlight /\ active' = active BY <1>0, <1>14 DEF CloseAgain, ActiveAfterSettle
  <2> QED BY <1>0, <2>1
<1>15. ASSUME NEW c \in Closer, Drain(c) PROVE active' = Cardinality(InFlight')
  <2>1. InFlight' = InFlight /\ active' = active BY <1>0, <1>15 DEF Drain, ActiveAfterSettle
  <2> QED BY <1>0, <2>1
<1>16. ASSUME NEW c \in Closer, SandboxesReleased(c) PROVE active' = Cardinality(InFlight')
  <2>1. InFlight' = InFlight /\ active' = active BY <1>0, <1>16 DEF SandboxesReleased, ActiveAfterSettle
  <2> QED BY <1>0, <2>1
<1> HIDE DEF InFlight, TypeOK, runVars, closeVars
<1> QED
  BY <1>1, <1>2, <1>3, <1>4, <1>5, <1>6, <1>7, <1>8, <1>9, <1>10, <1>11, <1>12,
       <1>13, <1>14, <1>15, <1>16 DEF Next

(* A request's pending runs are those that hold a slot for it.             *)
PendingExact == \A p \in Request : lifetime[p].pendingRuns = Cardinality(RunsOf(p))

LEMMA StepPending ==
    ASSUME IInv, Next
    PROVE PendingExact'
<1>0. /\ IInv /\ LInv /\ TypeOK
      /\ \A p \in Request : IsFiniteSet(RunsOf(p))
      /\ PendingExact
  BY CountsArePositive DEF IInv, LInv, CountersAreExact, PendingExact
<1>1. ASSUME NEW q \in Request, Arrive(q) PROVE PendingExact'
  <2>1. held' = held /\ owner' = owner BY <1>1 DEF Arrive, runVars
  <2>2. \A p \in Request : lifetime'[p].pendingRuns = lifetime[p].pendingRuns
    BY <1>1 DEF Arrive, runVars
  <2> QED BY <1>0, <2>1, <2>2 DEF RunsOf, PendingExact
<1>2. ASSUME NEW q \in Request, StoresFail(q) PROVE PendingExact'
  <2>1. held' = held /\ owner' = owner BY <1>2 DEF StoresFail, runVars
  <2>2. \A p \in Request : lifetime'[p].pendingRuns = lifetime[p].pendingRuns
    BY <1>2 DEF StoresFail, runVars
  <2> QED BY <1>0, <2>1, <2>2 DEF RunsOf, PendingExact
<1>3. ASSUME NEW q \in Request, StoresReady(q) PROVE PendingExact'
  <2>1. held' = held /\ owner' = owner BY <1>3 DEF StoresReady, runVars
  <2>2. \A p \in Request : lifetime'[p].pendingRuns = lifetime[p].pendingRuns
    BY <1>0, <1>3 DEF StoresReady, TypeOK, Record
  <2> QED BY <1>0, <2>1, <2>2 DEF RunsOf, PendingExact
<1>4. ASSUME NEW q \in Request, BeginRefused(q) PROVE PendingExact'
  <2>1. held' = held /\ owner' = owner BY <1>4 DEF BeginRefused, runVars
  <2>2. \A p \in Request : lifetime'[p].pendingRuns = lifetime[p].pendingRuns
    BY <1>0, <1>4, SignalEffect
  <2> QED BY <1>0, <2>1, <2>2 DEF RunsOf, PendingExact
<1>5. ASSUME NEW q \in Request, Respond(q) PROVE PendingExact'
  <2>1. held' = held /\ owner' = owner BY <1>5 DEF Respond, runVars
  <2>2. \A p \in Request : lifetime'[p].pendingRuns = lifetime[p].pendingRuns
    BY <1>0, <1>5, BodyEffect DEF Respond, Settling
  <2> QED BY <1>0, <2>1, <2>2 DEF RunsOf, PendingExact
<1>6. ASSUME NEW q \in Request, RespondStream(q) PROVE PendingExact'
  <2>1. held' = held /\ owner' = owner BY <1>6 DEF RespondStream, runVars
  <2>2. \A p \in Request : lifetime'[p].pendingRuns = lifetime[p].pendingRuns
    BY <1>6 DEF RespondStream, runVars
  <2> QED BY <1>0, <2>1, <2>2 DEF RunsOf, PendingExact
<1>7. ASSUME NEW q \in Request, StreamSettles(q) PROVE PendingExact'
  <2>1. held' = held /\ owner' = owner BY <1>7 DEF StreamSettles, runVars
  <2>2. \A p \in Request : lifetime'[p].pendingRuns = lifetime[p].pendingRuns
    BY <1>0, <1>7, BodyEffect DEF StreamSettles, Settling
  <2> QED BY <1>0, <2>1, <2>2 DEF RunsOf, PendingExact
<1>8. ASSUME NEW q \in Request, StreamSettlesAgain(q) PROVE PendingExact'
  <2>1. held' = held /\ owner' = owner BY <1>8 DEF StreamSettlesAgain, runVars
  <2>2. \A p \in Request : lifetime'[p].pendingRuns = lifetime[p].pendingRuns
    BY <1>8 DEF StreamSettlesAgain, runVars
  <2> QED BY <1>0, <2>1, <2>2 DEF RunsOf, PendingExact
<1>9. ASSUME NEW q \in Request, Disposed(q) PROVE PendingExact'
  <2>1. held' = held /\ owner' = owner BY <1>9 DEF Disposed, runVars
  <2>2. \A p \in Request : lifetime'[p].pendingRuns = lifetime[p].pendingRuns
    BY <1>9 DEF Disposed, runVars
  <2> QED BY <1>0, <2>1, <2>2 DEF RunsOf, PendingExact
<1>10. ASSUME NEW w \in Run, NEW q \in Request, Begin(w, q) PROVE PendingExact'
  <2>1. /\ w \notin held /\ held' = held \cup {w} /\ owner' = [owner EXCEPT ![w] = q]
        /\ owner \in [Run -> Request \cup {NoRequest}]
    BY <1>0, <1>10 DEF Begin, TypeOK, LInv, RunsListenToTheirRequest
  <2>2. /\ lifetime'[q].pendingRuns = lifetime[q].pendingRuns + 1
        /\ \A p \in Request : p # q => lifetime'[p].pendingRuns = lifetime[p].pendingRuns
    BY <1>0, <1>10, SignalEffect
  <2>3. RunsOf(q)' = RunsOf(q) \cup {w} /\ w \notin RunsOf(q)
    BY <2>1 DEF RunsOf
  <2>4. \A p \in Request : p # q => RunsOf(p)' = RunsOf(p)
    BY <1>10, <2>1 DEF RunsOf, Begin
  <2> QED BY <1>0, <2>2, <2>3, <2>4, FS_AddElement DEF PendingExact
<1>11. ASSUME NEW w \in Run, RouteEnds(w) PROVE PendingExact'
  <2>1. held' = held /\ owner' = owner BY <1>11 DEF RouteEnds, runVars
  <2>2. \A p \in Request : lifetime'[p].pendingRuns = lifetime[p].pendingRuns
    BY <1>11 DEF RouteEnds, runVars
  <2> QED BY <1>0, <2>1, <2>2 DEF RunsOf, PendingExact
<1>12. ASSUME NEW w \in Run, Release(w) PROVE PendingExact'
  <2>1. PICK q \in Request : owner[w] = q
          /\ lifetime'[q].pendingRuns = lifetime[q].pendingRuns - 1
          /\ \A p \in Request : p # q => lifetime'[p] = lifetime[p]
    BY <1>12, ReleaseEffect DEF Settling
  <2>2. w \in held /\ held' = held \ {w} /\ owner' = owner
    BY <1>12 DEF Release, MayRelease
  <2>3. RunsOf(q)' = RunsOf(q) \ {w} /\ w \in RunsOf(q)
    BY <2>1, <2>2 DEF RunsOf
  <2>4. \A p \in Request : p # q => RunsOf(p)' = RunsOf(p)
    BY <2>1, <2>2 DEF RunsOf
  <2>5. Cardinality(RunsOf(q) \ {w}) = Cardinality(RunsOf(q)) - 1
    BY <1>0, <2>1, <2>3, FS_RemoveElement
  <2> QED BY <1>0, <2>1, <2>3, <2>4, <2>5 DEF PendingExact
<1>13. ASSUME NEW c \in Closer, Close(c) PROVE PendingExact'
  <2>1. held' = held /\ owner' = owner BY <1>13 DEF Close, runVars
  <2>2. \A p \in Request : lifetime'[p].pendingRuns = lifetime[p].pendingRuns
    BY <1>0, <1>13, CloseEffect
  <2> QED BY <1>0, <2>1, <2>2 DEF RunsOf, PendingExact
<1>14. ASSUME NEW c \in Closer, CloseAgain(c) PROVE PendingExact'
  <2>1. held' = held /\ owner' = owner BY <1>14 DEF CloseAgain, runVars
  <2>2. \A p \in Request : lifetime'[p].pendingRuns = lifetime[p].pendingRuns
    BY <1>14 DEF CloseAgain, runVars
  <2> QED BY <1>0, <2>1, <2>2 DEF RunsOf, PendingExact
<1>15. ASSUME NEW c \in Closer, Drain(c) PROVE PendingExact'
  <2>1. held' = held /\ owner' = owner BY <1>15 DEF Drain, runVars
  <2>2. \A p \in Request : lifetime'[p].pendingRuns = lifetime[p].pendingRuns
    BY <1>15 DEF Drain, runVars
  <2> QED BY <1>0, <2>1, <2>2 DEF RunsOf, PendingExact
<1>16. ASSUME NEW c \in Closer, SandboxesReleased(c) PROVE PendingExact'
  <2>1. held' = held /\ owner' = owner BY <1>16 DEF SandboxesReleased, runVars
  <2>2. \A p \in Request : lifetime'[p].pendingRuns = lifetime[p].pendingRuns
    BY <1>16 DEF SandboxesReleased, runVars
  <2> QED BY <1>0, <2>1, <2>2 DEF RunsOf, PendingExact
<1> QED
  BY <1>1, <1>2, <1>3, <1>4, <1>5, <1>6, <1>7, <1>8, <1>9, <1>10, <1>11, <1>12,
       <1>13, <1>14, <1>15, <1>16 DEF Next

(* Nothing starts once the first closer found the handler quiet.           *)
LEMMA StepFirst ==
    ASSUME IInv, Next
    PROVE FirstClosesIt'
<1> USE DEF FirstClosesIt, FirstCloseLeavesQuiet, TypeOK, runVars, closeVars
<1>0. TypeOK /\ FirstClosesIt BY DEF IInv, LInv
<1>1. ASSUME NEW q \in Request, Arrive(q) PROVE FirstClosesIt'
  <2>1. ~closed BY <1>1 DEF Arrive
  <2> QED BY <1>0, <1>1, <2>1 DEF Arrive
<1>2. ASSUME NEW q \in Request, StoresFail(q) PROVE FirstClosesIt'
  <2>1. q \in InFlight BY <1>2 DEF StoresFail, InFlight
  <2> QED BY <1>0, <1>2, <2>1 DEF StoresFail, Quiet
<1>3. ASSUME NEW q \in Request, StoresReady(q) PROVE FirstClosesIt'
  <2>1. q \in InFlight BY <1>3 DEF StoresReady, InFlight
  <2> QED BY <1>0, <1>3, <2>1 DEF StoresReady, Quiet
<1>4. ASSUME NEW q \in Request, BeginRefused(q) PROVE FirstClosesIt'
  <2>1. q \in InFlight BY <1>4 DEF BeginRefused, InFlight
  <2> QED BY <1>0, <1>4, <2>1 DEF BeginRefused, Quiet
<1>5. ASSUME NEW q \in Request, Respond(q) PROVE FirstClosesIt'
  <2>1. q \in InFlight BY <1>5 DEF Respond, InFlight
  <2> QED BY <1>0, <1>5, <2>1 DEF Respond, Quiet
<1>6. ASSUME NEW q \in Request, RespondStream(q) PROVE FirstClosesIt'
  <2>1. q \in InFlight BY <1>6 DEF RespondStream, InFlight
  <2> QED BY <1>0, <1>6, <2>1 DEF RespondStream, Quiet
<1>7. ASSUME NEW q \in Request, StreamSettles(q) PROVE FirstClosesIt'
  <2>1. q \in InFlight BY <1>7 DEF StreamSettles, InFlight
  <2> QED BY <1>0, <1>7, <2>1 DEF StreamSettles, Quiet
<1>8. ASSUME NEW q \in Request, StreamSettlesAgain(q) PROVE FirstClosesIt'
  BY <1>0, <1>8 DEF StreamSettlesAgain, Quiet, InFlight
<1>9. ASSUME NEW q \in Request, Disposed(q) PROVE FirstClosesIt'
  <2>1. disposal[q] = "running" BY <1>9 DEF Disposed
  <2> QED BY <1>0, <1>9, <2>1 DEF Disposed, Quiet
<1>10. ASSUME NEW w \in Run, NEW q \in Request, Begin(w, q) PROVE FirstClosesIt'
  <2>1. q \in InFlight BY <1>10 DEF Begin, InFlight
  <2> QED BY <1>0, <1>10, <2>1 DEF Begin, Quiet
<1>11. ASSUME NEW w \in Run, RouteEnds(w) PROVE FirstClosesIt'
  BY <1>0, <1>11 DEF RouteEnds, Quiet, InFlight
<1>12. ASSUME NEW w \in Run, Release(w) PROVE FirstClosesIt'
  <2>1. w \in held BY <1>12 DEF Release, MayRelease
  <2> QED BY <1>0, <1>12, <2>1 DEF Release, Quiet
<1>13. ASSUME NEW c \in Closer, Close(c) PROVE FirstClosesIt'
  BY <1>0, <1>13 DEF Close, Quiet, InFlight
<1>14. ASSUME NEW c \in Closer, CloseAgain(c) PROVE FirstClosesIt'
  BY <1>0, <1>14 DEF CloseAgain, Quiet, InFlight
<1>15. ASSUME NEW c \in Closer, Drain(c) PROVE FirstClosesIt'
  <2>1. ~timedOut' => Quiet'
    <3>1. (active = 0 /\ held = {} /\ \A q \in Request : disposal[q] # "running") \/ timedOut'
      BY <1>15 DEF Drain, Drained
    <3>2. active = 0 => InFlight = {} BY CountsArePositive DEF IInv, LInv
    <3> QED BY <1>15, <3>1, <3>2 DEF Drain, Quiet, InFlight, runVars
  <2>2. timedOut => timedOut' BY <1>15 DEF Drain
  <2> QED BY <1>0, <1>15, <2>1, <2>2 DEF Drain
<1>16. ASSUME NEW c \in Closer, SandboxesReleased(c) PROVE FirstClosesIt'
  BY <1>0, <1>16 DEF SandboxesReleased, Quiet, InFlight
<1> HIDE DEF FirstClosesIt, FirstCloseLeavesQuiet, TypeOK, runVars, closeVars
<1> QED
  BY <1>1, <1>2, <1>3, <1>4, <1>5, <1>6, <1>7, <1>8, <1>9, <1>10, <1>11, <1>12,
       <1>13, <1>14, <1>15, <1>16 DEF Next

(* The inductive invariant of the handler's lifetimes.                     *)
THEOREM LifetimeInvariant == Spec => []IInv
<1>1. IInv /\ [Next]_vars => IInv'
  <2>1. ASSUME IInv, Next PROVE IInv'
    <3>1. CountersAreExact' BY <2>1, StepActive, StepPending DEF CountersAreExact, PendingExact
    <3> QED BY <2>1, <3>1, StepTypeOK, StepBody, StepRuns, StepCtls, StepClosed, StepFirst
            DEF IInv, LInv
  <2>2. ASSUME IInv, UNCHANGED vars PROVE IInv'
    BY <2>2 DEF IInv, LInv, TypeOK, BodyMatchesRequest, RunsListenToTheirRequest,
       LiveControllersExact, ClosedMeansAborted, CountersAreExact, FirstClosesIt,
       FirstCloseLeavesQuiet, Quiet, InFlight, RunsOf, vars
  <2> QED BY <2>1, <2>2
<1> QED BY <1>1, InitIInv, PTL DEF Spec

(* The state is well formed whatever the requests, runs and closers.       *)
THEOREM LifetimeTyped == Spec => []TypeOK
<1>1. IInv => TypeOK BY DEF IInv, LInv
<1> QED BY <1>1, LifetimeInvariant, PTL

(* The counters close() drains on are exact.                               *)
THEOREM CountersExact == Spec => []CountersAreExact
<1>1. IInv => CountersAreExact BY DEF IInv
<1> QED BY <1>1, LifetimeInvariant, PTL

(* No pool is closed under a body, a slot or a route that can use it.      *)
THEOREM StoresOutlive == Spec => []StoresOutliveTheirUsers
<1>1. ASSUME IInv PROVE StoresOutliveTheirUsers
  <2> SUFFICES ASSUME NEW q \in Request, disposal[q] # "none"
               PROVE /\ req[q] \in {"settled", "done"}
                     /\ RunsOf(q) = {}
                     /\ \A w \in executing : owner[w] = q => w \in aborted
    BY DEF StoresOutliveTheirUsers
  <2>1. lifetime[q].bodySettled /\ lifetime[q].pendingRuns = 0 /\ req[q] \in {"settled", "done"}
    BY <1>1 DEF IInv, LInv, BodyMatchesRequest
  <2>2. RunsOf(q) = {} BY <1>1, <2>1, CountsArePositive DEF IInv, LInv
  <2>3. \A w \in executing : w \in held \/ w \in aborted
    BY <1>1 DEF IInv, LInv, RunsListenToTheirRequest
  <2> QED BY <2>1, <2>2, <2>3 DEF RunsOf
<1> QED BY <1>1, LifetimeInvariant, PTL

(* Every run that holds a slot after close() was told to stop.             *)
THEOREM ShutdownReaches == Spec => []ShutdownReachesEveryRun
<1>1. ASSUME IInv PROVE ShutdownReachesEveryRun
  <2> SUFFICES ASSUME closed, NEW w \in held PROVE w \in aborted
    BY DEF ShutdownReachesEveryRun
  <2> DEFINE q == owner[w]
  <2>1. q \in Request /\ (lifetime[q].ctl = "live" \/ w \in aborted)
    BY <1>1 DEF IInv, LInv, RunsListenToTheirRequest
  <2>2. w \in RunsOf(q) BY DEF RunsOf
  <2>3. ~lifetime[q].settled
    BY <1>1, <2>1, <2>2, CountsArePositive DEF IInv, LInv, BodyMatchesRequest
  <2> QED BY <1>1, <2>1, <2>3 DEF IInv, LInv, ClosedMeansAborted
<1> QED BY <1>1, LifetimeInvariant, PTL

(* The live controllers are those of the requests that have not ended.     *)
THEOREM ControllersExact == Spec => []LiveControllersExact
<1>1. IInv => LiveControllersExact BY DEF IInv, LInv
<1> QED BY <1>1, LifetimeInvariant, PTL

(* Unless the drain gave up, nothing is under way once it returned.        *)
THEOREM CloseLeavesQuiet == Spec => []FirstCloseLeavesQuiet
<1>1. IInv => FirstCloseLeavesQuiet BY DEF IInv, FirstClosesIt
<1> QED BY <1>1, LifetimeInvariant, PTL

=============================================================================
