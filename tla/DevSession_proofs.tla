-------------------------- MODULE DevSession_proofs --------------------------
(***************************************************************************)
(* Proofs about DevSession, for any number of children, changes and kills. *)
(*                                                                         *)
(* The heart of IInv is HandsInv: a child that lives is in somebody's      *)
(* hands, so whoever forgets one or spawns another has stopped it first.   *)
(***************************************************************************)
EXTENDS DevSession, TLAPS

(* The call of stop() by s is waiting for the close event of c.            *)
Stopping(s, c) == stop[s].child = c /\ stop[s].phase \in {"term", "kill"}

(* The loop's variables go together. While it runs, the session is not     *)
(* closed unless the command has ended already, and a child that was not   *)
(* built from the newest sources has a change pending.                     *)
LoopInv ==
    /\ pc = "idle" <=> loop = "none"
    /\ pc # "idle" => current = NoChild /\ (closed => result # "open")
    /\ pc \in {"waitReady", "waitHealth", "discard"} =>
         mine \in Child /\ (pending \/ built[mine] = version)

(* One call of stop() ends the session.                                    *)
EndingInv ==
    /\ ~closed => stop["close"] = NotStopping /\ stop["fatal"] = NotStopping
    /\ closed /\ pc = "idle" => current = NoChild
    /\ stop["close"].phase = "none" \/ stop["fatal"].phase = "none"

(* Whose a living child is: the session's that it serves, the loop's that  *)
(* started it, or the stop()'s that waits for its end.                     *)
HandsInv ==
    \A c \in Child : Alive(c) =>
        /\ pc # "prepare"
        /\ pc \in {"waitReady", "waitHealth"} => c = mine
        /\ pc \in {"stopOld", "discard"} => Stopping("loop", c)
        /\ pc = "idle" => IF closed THEN Stopping("close", c) \/ Stopping("fatal", c)
                          ELSE c = current

IInv == /\ TypeOK /\ LoopInv /\ EndingInv /\ HandsInv
        /\ ServesTheLatest /\ OnlyARestartLeavesAChild

-----------------------------------------------------------------------------
(* stop() is called on a process, and so is a record of what it awaits.    *)
StopState == [child : Child \cup {NoChild}, phase : {"none", "term", "kill", "done"}]
LEMMA StopTyped ==
    /\ NotStopping \in StopState
    /\ \A c \in Child \cup {NoChild} : Stop(c) \in StopState
    /\ \A s \in Stopper, x \in StopState :
         stop \in [Stopper -> StopState] => [stop EXCEPT ![s] = x] \in [Stopper -> StopState]
BY DEF StopState, NotStopping, Stop

(* The processes and the session keep their types.                         *)
LEMMA TypeStep ==
    TypeOK /\ [Next]_vars => TypeOK'
<1> SUFFICES ASSUME TypeOK, [Next]_vars
             PROVE  TypeOK'
  OBVIOUS
<1>a. stop \in [Stopper -> StopState]
  BY DEF TypeOK, StopState
<1>1. CASE Change
  <2>1. stop' \in [Stopper -> StopState]
    BY <1>1, <1>a, StopTyped DEF Change, StartOrRestart, childVars, endVars,
            TypeOK, Stopper, Alive
  <2>2. current' \in Child \cup {NoChild} /\ mine' \in Child \cup {NoChild}
    BY <1>1, DevAssumption DEF Change, StartOrRestart, Stop, childVars, endVars,
            TypeOK
  <2>3. loop' \in {"none", "start", "restart"}
    BY <1>1, DevAssumption DEF Change, StartOrRestart, Stop, childVars, endVars,
            TypeOK
  <2>4. pc' \in {"idle", "stopOld", "prepare", "waitReady", "waitHealth", "discard"}
    BY <1>1, DevAssumption DEF Change, StartOrRestart, Stop, childVars, endVars,
            TypeOK
  <2>5. pending' \in BOOLEAN /\ everReady' \in BOOLEAN /\ closed' \in BOOLEAN
    BY <1>1, DevAssumption DEF Change, StartOrRestart, Stop, childVars, endVars,
            TypeOK
  <2>6. result' \in {"open", "resolved", "rejected"}
    BY <1>1, DevAssumption DEF Change, StartOrRestart, Stop, childVars, endVars,
            TypeOK
  <2>7. UNCHANGED <<childVars, kills>> /\ version' \in 0..MaxChanges
    BY <1>1, DevAssumption DEF Change, StartOrRestart, Stop, childVars, endVars,
            TypeOK
  <2> QED
    BY <2>1, <2>2, <2>3, <2>4, <2>5, <2>6, <2>7 DEF TypeOK, childVars, StopState
<1>2. CASE Close
  BY <1>2, DevAssumption DEF Close, Stop, childVars, loopVars, boundVars,
          TypeOK, Stopper, NotStopping, Alive
<1>3. CASE Ended
  BY <1>3, DevAssumption DEF Ended, childVars, loopVars, boundVars, TypeOK,
          Stopper, NotStopping, Alive
<1>4. ASSUME NEW s \in Stopper, GraceOver(s)
      PROVE  TypeOK'
  BY <1>4, DevAssumption DEF GraceOver, Stopper, childVars, loopVars, endVars,
          boundVars, TypeOK, Stopper, NotStopping, Alive
<1>5. CASE OldStopped
  BY <1>5, DevAssumption DEF OldStopped, childVars, endVars, boundVars,
          TypeOK, Stopper, NotStopping, Alive
<1>6. CASE Spawn
  BY <1>6, DevAssumption DEF Spawn, endVars, boundVars, TypeOK, Stopper,
          NotStopping, Alive
<1>7. CASE PrepareFails
  <2>1. stop' \in [Stopper -> StopState]
    BY <1>7, <1>a, StopTyped DEF PrepareFails, Throw, LoopEnds, Again,
            TakePending, StartOrRestart, childVars, boundVars, endVars, TypeOK,
            Stopper, Alive
  <2>2. current' \in Child \cup {NoChild} /\ mine' \in Child \cup {NoChild}
    BY <1>7, DevAssumption DEF PrepareFails, Throw, LoopEnds, Again,
            TakePending, StartOrRestart, childVars, boundVars, endVars, TypeOK
  <2>3. loop' \in {"none", "start", "restart"}
    BY <1>7, DevAssumption DEF PrepareFails, Throw, LoopEnds, Again,
            TakePending, StartOrRestart, childVars, boundVars, endVars, TypeOK
  <2>4. pc' \in {"idle", "stopOld", "prepare", "waitReady", "waitHealth", "discard"}
    BY <1>7, DevAssumption DEF PrepareFails, Throw, LoopEnds, Again,
            TakePending, StartOrRestart, childVars, boundVars, endVars, TypeOK
  <2>5. pending' \in BOOLEAN /\ everReady' \in BOOLEAN /\ closed' \in BOOLEAN
    BY <1>7, DevAssumption DEF PrepareFails, Throw, LoopEnds, Again,
            TakePending, StartOrRestart, childVars, boundVars, endVars, TypeOK
  <2>6. result' \in {"open", "resolved", "rejected"}
    BY <1>7, DevAssumption DEF PrepareFails, Throw, LoopEnds, Again,
            TakePending, StartOrRestart, childVars, boundVars, endVars, TypeOK
  <2>7. UNCHANGED <<childVars, kills>> /\ version' \in 0..MaxChanges
    BY <1>7, DevAssumption DEF PrepareFails, Throw, LoopEnds, Again,
            TakePending, StartOrRestart, childVars, boundVars, endVars, TypeOK
  <2> QED
    BY <2>1, <2>2, <2>3, <2>4, <2>5, <2>6, <2>7 DEF TypeOK, childVars, StopState
<1>8. CASE ReadySettles
  BY <1>8, DevAssumption DEF ReadySettles, Discard, Stop, childVars, endVars,
          boundVars, TypeOK, Stopper, NotStopping, Alive
<1>9. CASE Healthy
  <2>1. stop' \in [Stopper -> StopState]
    BY <1>9, <1>a, StopTyped DEF Healthy, Adopt, LoopEnds, Again, TakePending,
            StartOrRestart, childVars, boundVars, endVars, TypeOK, Stopper,
            Alive
  <2>2. current' \in Child \cup {NoChild} /\ mine' \in Child \cup {NoChild}
    BY <1>9, DevAssumption DEF Healthy, Adopt, LoopEnds, Again, TakePending,
            StartOrRestart, Stop, childVars, boundVars, endVars, TypeOK
  <2>3. loop' \in {"none", "start", "restart"}
    BY <1>9, DevAssumption DEF Healthy, Adopt, LoopEnds, Again, TakePending,
            StartOrRestart, Stop, childVars, boundVars, endVars, TypeOK
  <2>4. pc' \in {"idle", "stopOld", "prepare", "waitReady", "waitHealth", "discard"}
    BY <1>9, DevAssumption DEF Healthy, Adopt, LoopEnds, Again, TakePending,
            StartOrRestart, Stop, childVars, boundVars, endVars, TypeOK
  <2>5. pending' \in BOOLEAN /\ everReady' \in BOOLEAN /\ closed' \in BOOLEAN
    BY <1>9, DevAssumption DEF Healthy, Adopt, LoopEnds, Again, TakePending,
            StartOrRestart, Stop, childVars, boundVars, endVars, TypeOK
  <2>6. result' \in {"open", "resolved", "rejected"}
    BY <1>9, DevAssumption DEF Healthy, Adopt, LoopEnds, Again, TakePending,
            StartOrRestart, Stop, childVars, boundVars, endVars, TypeOK
  <2>7. UNCHANGED <<childVars, kills>> /\ version' \in 0..MaxChanges
    BY <1>9, DevAssumption DEF Healthy, Adopt, LoopEnds, Again, TakePending,
            StartOrRestart, Stop, childVars, boundVars, endVars, TypeOK
  <2> QED
    BY <2>1, <2>2, <2>3, <2>4, <2>5, <2>6, <2>7 DEF TypeOK, childVars, StopState
<1>10. CASE Unhealthy
  BY <1>10, DevAssumption DEF Unhealthy, Discard, Stop, childVars, endVars,
          boundVars, TypeOK, Stopper, NotStopping, Alive
<1>11. CASE Discarded
  <2>1. stop' \in [Stopper -> StopState]
    BY <1>11, <1>a, StopTyped DEF Discarded, Throw, LoopEnds, Again,
            TakePending, StartOrRestart, childVars, boundVars, endVars, TypeOK,
            Stopper, Alive
  <2>2. current' \in Child \cup {NoChild} /\ mine' \in Child \cup {NoChild}
    BY <1>11, DevAssumption DEF Discarded, Throw, LoopEnds, Again, TakePending,
            StartOrRestart, childVars, boundVars, endVars, TypeOK
  <2>3. loop' \in {"none", "start", "restart"}
    BY <1>11, DevAssumption DEF Discarded, Throw, LoopEnds, Again, TakePending,
            StartOrRestart, childVars, boundVars, endVars, TypeOK
  <2>4. pc' \in {"idle", "stopOld", "prepare", "waitReady", "waitHealth", "discard"}
    BY <1>11, DevAssumption DEF Discarded, Throw, LoopEnds, Again, TakePending,
            StartOrRestart, childVars, boundVars, endVars, TypeOK
  <2>5. pending' \in BOOLEAN /\ everReady' \in BOOLEAN /\ closed' \in BOOLEAN
    BY <1>11, DevAssumption DEF Discarded, Throw, LoopEnds, Again, TakePending,
            StartOrRestart, childVars, boundVars, endVars, TypeOK
  <2>6. result' \in {"open", "resolved", "rejected"}
    BY <1>11, DevAssumption DEF Discarded, Throw, LoopEnds, Again, TakePending,
            StartOrRestart, childVars, boundVars, endVars, TypeOK
  <2>7. UNCHANGED <<childVars, kills>> /\ version' \in 0..MaxChanges
    BY <1>11, DevAssumption DEF Discarded, Throw, LoopEnds, Again, TakePending,
            StartOrRestart, childVars, boundVars, endVars, TypeOK
  <2> QED
    BY <2>1, <2>2, <2>3, <2>4, <2>5, <2>6, <2>7 DEF TypeOK, childVars, StopState
<1>12. ASSUME NEW d \in Child, ChildUp(d)
      PROVE  TypeOK'
  BY <1>12, DevAssumption DEF ChildUp, loopVars, endVars, boundVars, TypeOK,
          Stopper, NotStopping, Alive
<1>13. ASSUME NEW d \in Child, ChildReports(d)
      PROVE  TypeOK'
  BY <1>13, DevAssumption DEF ChildReports, loopVars, endVars, boundVars,
          TypeOK, Stopper, NotStopping, Alive
<1>14. ASSUME NEW d \in Child, ChildExits(d)
      PROVE  TypeOK'
  <2>1. stop' \in [Stopper -> StopState]
    BY <1>14, <1>a DEF ChildExits, Ends, Heard, loopVars, Stopper, StopState
  <2> QED
    BY <1>14, <2>1, DevAssumption DEF ChildExits, Ends, Heard, loopVars, TypeOK,
            Alive, StopState
<1>15. ASSUME NEW d \in Child, ChildKilled(d)
      PROVE  TypeOK'
  <2>1. stop' \in [Stopper -> StopState]
    BY <1>15, <1>a DEF ChildKilled, Ends, Heard, loopVars, Stopper, StopState
  <2>2. UNCHANGED <<built, loopVars, result, version>> /\ kills' \in 0..MaxKills
    BY <1>15, DevAssumption DEF ChildKilled, Ends, TypeOK
  <2>3. /\ proc' \in [Child -> {"none", "starting", "up", "exited", "killed"}]
        /\ ready' \in [Child -> {"pending", "ready", "failed", "inuse"}]
    BY <1>15 DEF ChildKilled, Ends, TypeOK
  <2>4. current' \in Child \cup {NoChild} /\ closed' \in BOOLEAN
    BY <1>15 DEF ChildKilled, Ends, TypeOK
  <2> QED
    BY <2>1, <2>2, <2>3, <2>4 DEF TypeOK, loopVars, StopState
<1>16. CASE UNCHANGED vars
  BY <1>16, DevAssumption DEF vars, childVars, loopVars, endVars, boundVars,
          TypeOK, Stopper, NotStopping, Alive
<1> QED
  BY <1>1, <1>2, <1>3, <1>4, <1>5, <1>6, <1>7, <1>8, <1>9, <1>10, <1>11,
          <1>12, <1>13, <1>14, <1>15, <1>16 DEF Next

(* The loop's variables go together.                                       *)
LEMMA LoopStepInv ==
    TypeOK /\ LoopInv /\ EndingInv /\ [Next]_vars => LoopInv'
<1> SUFFICES ASSUME TypeOK, LoopInv, EndingInv, [Next]_vars
             PROVE  LoopInv'
  OBVIOUS
<1>1. CASE Change
  BY <1>1, DevAssumption DEF Change, StartOrRestart, Stop, childVars, endVars,
          TypeOK, Stopper, NotStopping, LoopInv, EndingInv
<1>2. CASE Close
  BY <1>2, DevAssumption DEF Close, Stop, childVars, loopVars, boundVars,
          TypeOK, Stopper, NotStopping, LoopInv, EndingInv
<1>3. CASE Ended
  BY <1>3, DevAssumption DEF Ended, childVars, loopVars, boundVars, TypeOK,
          Stopper, NotStopping, LoopInv, EndingInv
<1>4. ASSUME NEW s \in Stopper, GraceOver(s)
      PROVE  LoopInv'
  BY <1>4, DevAssumption DEF GraceOver, Stopper, childVars, loopVars, endVars,
          boundVars, TypeOK, Stopper, NotStopping, LoopInv, EndingInv
<1>5. CASE OldStopped
  BY <1>5, DevAssumption DEF OldStopped, childVars, endVars, boundVars,
          TypeOK, Stopper, NotStopping, LoopInv, EndingInv
<1>6. CASE Spawn
  BY <1>6, DevAssumption DEF Spawn, endVars, boundVars, TypeOK, Stopper,
          NotStopping, LoopInv, EndingInv
<1>7. CASE PrepareFails
  BY <1>7, DevAssumption DEF PrepareFails, Throw, LoopEnds, Again,
          TakePending, StartOrRestart, childVars, boundVars, endVars, TypeOK,
          Stopper, NotStopping, LoopInv, EndingInv
<1>8. CASE ReadySettles
  BY <1>8, DevAssumption DEF ReadySettles, Discard, Stop, childVars, endVars,
          boundVars, TypeOK, Stopper, NotStopping, LoopInv, EndingInv
<1>9. CASE Healthy
  BY <1>9, DevAssumption DEF Healthy, Adopt, LoopEnds, Again, TakePending,
          StartOrRestart, Stop, childVars, boundVars, endVars, TypeOK,
          Stopper, NotStopping, LoopInv, EndingInv
<1>10. CASE Unhealthy
  BY <1>10, DevAssumption DEF Unhealthy, Discard, Stop, childVars, endVars,
          boundVars, TypeOK, Stopper, NotStopping, LoopInv, EndingInv
<1>11. CASE Discarded
  BY <1>11, DevAssumption DEF Discarded, Throw, LoopEnds, Again, TakePending,
          StartOrRestart, childVars, boundVars, endVars, TypeOK, Stopper,
          NotStopping, LoopInv, EndingInv
<1>12. ASSUME NEW d \in Child, ChildUp(d)
      PROVE  LoopInv'
  BY <1>12, DevAssumption DEF ChildUp, loopVars, endVars, boundVars, TypeOK,
          Stopper, NotStopping, LoopInv, EndingInv
<1>13. ASSUME NEW d \in Child, ChildReports(d)
      PROVE  LoopInv'
  BY <1>13, DevAssumption DEF ChildReports, loopVars, endVars, boundVars,
          TypeOK, Stopper, NotStopping, LoopInv, EndingInv
<1>14. ASSUME NEW d \in Child, ChildExits(d)
      PROVE  LoopInv'
  BY <1>14, DevAssumption DEF ChildExits, Ends, Heard, loopVars, TypeOK,
          Stopper, NotStopping, LoopInv, EndingInv
<1>15. ASSUME NEW d \in Child, ChildKilled(d)
      PROVE  LoopInv'
  BY <1>15, DevAssumption DEF ChildKilled, Ends, Heard, loopVars, TypeOK,
          Stopper, NotStopping, LoopInv, EndingInv
<1>16. CASE UNCHANGED vars
  BY <1>16, DevAssumption DEF vars, childVars, loopVars, endVars, boundVars,
          TypeOK, Stopper, NotStopping, LoopInv, EndingInv
<1> QED
  BY <1>1, <1>2, <1>3, <1>4, <1>5, <1>6, <1>7, <1>8, <1>9, <1>10, <1>11,
          <1>12, <1>13, <1>14, <1>15, <1>16 DEF Next

(* One call of stop() ends the session.                                    *)
LEMMA EndingStep ==
    TypeOK /\ LoopInv /\ EndingInv /\ [Next]_vars => EndingInv'
<1> SUFFICES ASSUME TypeOK, LoopInv, EndingInv, [Next]_vars
             PROVE  EndingInv'
  OBVIOUS
<1>1. CASE Change
  BY <1>1, DevAssumption DEF Change, StartOrRestart, Stop, childVars, endVars,
          TypeOK, Stopper, NotStopping, LoopInv, EndingInv
<1>2. CASE Close
  BY <1>2, DevAssumption DEF Close, Stop, childVars, loopVars, boundVars,
          TypeOK, Stopper, NotStopping, LoopInv, EndingInv
<1>3. CASE Ended
  BY <1>3, DevAssumption DEF Ended, childVars, loopVars, boundVars, TypeOK,
          Stopper, NotStopping, LoopInv, EndingInv
<1>4. ASSUME NEW s \in Stopper, GraceOver(s)
      PROVE  EndingInv'
  BY <1>4, DevAssumption DEF GraceOver, Stopper, childVars, loopVars, endVars,
          boundVars, TypeOK, Stopper, NotStopping, LoopInv, EndingInv
<1>5. CASE OldStopped
  BY <1>5, DevAssumption DEF OldStopped, childVars, endVars, boundVars,
          TypeOK, Stopper, NotStopping, LoopInv, EndingInv
<1>6. CASE Spawn
  BY <1>6, DevAssumption DEF Spawn, endVars, boundVars, TypeOK, Stopper,
          NotStopping, LoopInv, EndingInv
<1>7. CASE PrepareFails
  BY <1>7, DevAssumption DEF PrepareFails, Throw, LoopEnds, Again,
          TakePending, StartOrRestart, childVars, boundVars, endVars, TypeOK,
          Stopper, NotStopping, LoopInv, EndingInv
<1>8. CASE ReadySettles
  BY <1>8, DevAssumption DEF ReadySettles, Discard, Stop, childVars, endVars,
          boundVars, TypeOK, Stopper, NotStopping, LoopInv, EndingInv
<1>9. CASE Healthy
  BY <1>9, DevAssumption DEF Healthy, Adopt, LoopEnds, Again, TakePending,
          StartOrRestart, Stop, childVars, boundVars, endVars, TypeOK,
          Stopper, NotStopping, LoopInv, EndingInv
<1>10. CASE Unhealthy
  BY <1>10, DevAssumption DEF Unhealthy, Discard, Stop, childVars, endVars,
          boundVars, TypeOK, Stopper, NotStopping, LoopInv, EndingInv
<1>11. CASE Discarded
  BY <1>11, DevAssumption DEF Discarded, Throw, LoopEnds, Again, TakePending,
          StartOrRestart, childVars, boundVars, endVars, TypeOK, Stopper,
          NotStopping, LoopInv, EndingInv
<1>12. ASSUME NEW d \in Child, ChildUp(d)
      PROVE  EndingInv'
  BY <1>12, DevAssumption DEF ChildUp, loopVars, endVars, boundVars, TypeOK,
          Stopper, NotStopping, LoopInv, EndingInv
<1>13. ASSUME NEW d \in Child, ChildReports(d)
      PROVE  EndingInv'
  BY <1>13, DevAssumption DEF ChildReports, loopVars, endVars, boundVars,
          TypeOK, Stopper, NotStopping, LoopInv, EndingInv
<1>14. ASSUME NEW d \in Child, ChildExits(d)
      PROVE  EndingInv'
  BY <1>14, DevAssumption DEF ChildExits, Ends, Heard, loopVars, TypeOK,
          Stopper, NotStopping, LoopInv, EndingInv
<1>15. ASSUME NEW d \in Child, ChildKilled(d)
      PROVE  EndingInv'
  BY <1>15, DevAssumption DEF ChildKilled, Ends, Heard, loopVars, TypeOK,
          Stopper, NotStopping, LoopInv, EndingInv
<1>16. CASE UNCHANGED vars
  BY <1>16, DevAssumption DEF vars, childVars, loopVars, endVars, boundVars,
          TypeOK, Stopper, NotStopping, LoopInv, EndingInv
<1> QED
  BY <1>1, <1>2, <1>3, <1>4, <1>5, <1>6, <1>7, <1>8, <1>9, <1>10, <1>11,
          <1>12, <1>13, <1>14, <1>15, <1>16 DEF Next

(* A living child is never dropped.                                        *)
LEMMA HandsStep ==
    TypeOK /\ LoopInv /\ EndingInv /\ HandsInv /\ [Next]_vars => HandsInv'
<1> SUFFICES ASSUME TypeOK, LoopInv, EndingInv, HandsInv, [Next]_vars
             PROVE  HandsInv'
  OBVIOUS
<1>1. CASE Change
  BY <1>1, DevAssumption DEF Change, StartOrRestart, Stop, childVars, endVars,
          TypeOK, Stopper, NotStopping, LoopInv, EndingInv, HandsInv, Alive,
          Stopping
<1>2. CASE Close
  BY <1>2, DevAssumption DEF Close, Stop, childVars, loopVars, boundVars,
          TypeOK, Stopper, NotStopping, LoopInv, EndingInv, HandsInv, Alive,
          Stopping
<1>3. CASE Ended
  BY <1>3, DevAssumption DEF Ended, childVars, loopVars, boundVars, TypeOK,
          Stopper, NotStopping, LoopInv, EndingInv, HandsInv, Alive, Stopping
<1>4. ASSUME NEW s \in Stopper, GraceOver(s)
      PROVE  HandsInv'
  BY <1>4, DevAssumption DEF GraceOver, Stopper, childVars, loopVars, endVars,
          boundVars, TypeOK, Stopper, NotStopping, LoopInv, EndingInv,
          HandsInv, Alive, Stopping
<1>5. CASE OldStopped
  BY <1>5, DevAssumption DEF OldStopped, childVars, endVars, boundVars,
          TypeOK, Stopper, NotStopping, LoopInv, EndingInv, HandsInv, Alive,
          Stopping
<1>6. CASE Spawn
  BY <1>6, DevAssumption DEF Spawn, endVars, boundVars, TypeOK, Stopper,
          NotStopping, LoopInv, EndingInv, HandsInv, Alive, Stopping
<1>7. CASE PrepareFails
  BY <1>7, DevAssumption DEF PrepareFails, Throw, LoopEnds, Again,
          TakePending, StartOrRestart, childVars, boundVars, endVars, TypeOK,
          Stopper, NotStopping, LoopInv, EndingInv, HandsInv, Alive, Stopping
<1>8. CASE ReadySettles
  BY <1>8, DevAssumption DEF ReadySettles, Discard, Stop, childVars, endVars,
          boundVars, TypeOK, Stopper, NotStopping, LoopInv, EndingInv,
          HandsInv, Alive, Stopping
<1>9. CASE Healthy
  BY <1>9, DevAssumption DEF Healthy, Adopt, LoopEnds, Again, TakePending,
          StartOrRestart, Stop, childVars, boundVars, endVars, TypeOK,
          Stopper, NotStopping, LoopInv, EndingInv, HandsInv, Alive, Stopping
<1>10. CASE Unhealthy
  BY <1>10, DevAssumption DEF Unhealthy, Discard, Stop, childVars, endVars,
          boundVars, TypeOK, Stopper, NotStopping, LoopInv, EndingInv,
          HandsInv, Alive, Stopping
<1>11. CASE Discarded
  BY <1>11, DevAssumption DEF Discarded, Throw, LoopEnds, Again, TakePending,
          StartOrRestart, childVars, boundVars, endVars, TypeOK, Stopper,
          NotStopping, LoopInv, EndingInv, HandsInv, Alive, Stopping
<1>12. ASSUME NEW d \in Child, ChildUp(d)
      PROVE  HandsInv'
  BY <1>12, DevAssumption DEF ChildUp, loopVars, endVars, boundVars, TypeOK,
          Stopper, NotStopping, LoopInv, EndingInv, HandsInv, Alive, Stopping
<1>13. ASSUME NEW d \in Child, ChildReports(d)
      PROVE  HandsInv'
  BY <1>13, DevAssumption DEF ChildReports, loopVars, endVars, boundVars,
          TypeOK, Stopper, NotStopping, LoopInv, EndingInv, HandsInv, Alive,
          Stopping
<1>14. ASSUME NEW d \in Child, ChildExits(d)
      PROVE  HandsInv'
  BY <1>14, DevAssumption DEF ChildExits, Ends, Heard, loopVars, TypeOK,
          Stopper, NotStopping, LoopInv, EndingInv, HandsInv, Alive, Stopping
<1>15. ASSUME NEW d \in Child, ChildKilled(d)
      PROVE  HandsInv'
  BY <1>15, DevAssumption DEF ChildKilled, Ends, Heard, loopVars, TypeOK,
          Stopper, NotStopping, LoopInv, EndingInv, HandsInv, Alive, Stopping
<1>16. CASE UNCHANGED vars
  BY <1>16, DevAssumption DEF vars, childVars, loopVars, endVars, boundVars,
          TypeOK, Stopper, NotStopping, LoopInv, EndingInv, HandsInv, Alive,
          Stopping
<1> QED
  BY <1>1, <1>2, <1>3, <1>4, <1>5, <1>6, <1>7, <1>8, <1>9, <1>10, <1>11,
          <1>12, <1>13, <1>14, <1>15, <1>16 DEF Next

(* The child that serves was built from the newest sources.                *)
LEMMA LatestStep ==
    TypeOK /\ LoopInv /\ EndingInv /\ ServesTheLatest /\ [Next]_vars => ServesTheLatest'
<1> SUFFICES ASSUME TypeOK, LoopInv, EndingInv, ServesTheLatest, [Next]_vars
             PROVE  ServesTheLatest'
  OBVIOUS
<1>1. CASE Change
  BY <1>1, DevAssumption DEF Change, StartOrRestart, Stop, childVars, endVars,
          TypeOK, Stopper, NotStopping, LoopInv, EndingInv, ServesTheLatest
<1>2. CASE Close
  BY <1>2, DevAssumption DEF Close, Stop, childVars, loopVars, boundVars,
          TypeOK, Stopper, NotStopping, LoopInv, EndingInv, ServesTheLatest
<1>3. CASE Ended
  BY <1>3, DevAssumption DEF Ended, childVars, loopVars, boundVars, TypeOK,
          Stopper, NotStopping, LoopInv, EndingInv, ServesTheLatest
<1>4. ASSUME NEW s \in Stopper, GraceOver(s)
      PROVE  ServesTheLatest'
  BY <1>4, DevAssumption DEF GraceOver, Stopper, childVars, loopVars, endVars,
          boundVars, TypeOK, Stopper, NotStopping, LoopInv, EndingInv,
          ServesTheLatest
<1>5. CASE OldStopped
  BY <1>5, DevAssumption DEF OldStopped, childVars, endVars, boundVars,
          TypeOK, Stopper, NotStopping, LoopInv, EndingInv, ServesTheLatest
<1>6. CASE Spawn
  BY <1>6, DevAssumption DEF Spawn, endVars, boundVars, TypeOK, Stopper,
          NotStopping, LoopInv, EndingInv, ServesTheLatest
<1>7. CASE PrepareFails
  BY <1>7, DevAssumption DEF PrepareFails, Throw, LoopEnds, Again,
          TakePending, StartOrRestart, childVars, boundVars, endVars, TypeOK,
          Stopper, NotStopping, LoopInv, EndingInv, ServesTheLatest
<1>8. CASE ReadySettles
  BY <1>8, DevAssumption DEF ReadySettles, Discard, Stop, childVars, endVars,
          boundVars, TypeOK, Stopper, NotStopping, LoopInv, EndingInv,
          ServesTheLatest
<1>9. CASE Healthy
  BY <1>9, DevAssumption DEF Healthy, Adopt, LoopEnds, Again, TakePending,
          StartOrRestart, Stop, childVars, boundVars, endVars, TypeOK,
          Stopper, NotStopping, LoopInv, EndingInv, ServesTheLatest
<1>10. CASE Unhealthy
  BY <1>10, DevAssumption DEF Unhealthy, Discard, Stop, childVars, endVars,
          boundVars, TypeOK, Stopper, NotStopping, LoopInv, EndingInv,
          ServesTheLatest
<1>11. CASE Discarded
  BY <1>11, DevAssumption DEF Discarded, Throw, LoopEnds, Again, TakePending,
          StartOrRestart, childVars, boundVars, endVars, TypeOK, Stopper,
          NotStopping, LoopInv, EndingInv, ServesTheLatest
<1>12. ASSUME NEW d \in Child, ChildUp(d)
      PROVE  ServesTheLatest'
  BY <1>12, DevAssumption DEF ChildUp, loopVars, endVars, boundVars, TypeOK,
          Stopper, NotStopping, LoopInv, EndingInv, ServesTheLatest
<1>13. ASSUME NEW d \in Child, ChildReports(d)
      PROVE  ServesTheLatest'
  BY <1>13, DevAssumption DEF ChildReports, loopVars, endVars, boundVars,
          TypeOK, Stopper, NotStopping, LoopInv, EndingInv, ServesTheLatest
<1>14. ASSUME NEW d \in Child, ChildExits(d)
      PROVE  ServesTheLatest'
  BY <1>14, DevAssumption DEF ChildExits, Ends, Heard, loopVars, TypeOK,
          Stopper, NotStopping, LoopInv, EndingInv, ServesTheLatest
<1>15. ASSUME NEW d \in Child, ChildKilled(d)
      PROVE  ServesTheLatest'
  BY <1>15, DevAssumption DEF ChildKilled, Ends, Heard, loopVars, TypeOK,
          Stopper, NotStopping, LoopInv, EndingInv, ServesTheLatest
<1>16. CASE UNCHANGED vars
  BY <1>16, DevAssumption DEF vars, childVars, loopVars, endVars, boundVars,
          TypeOK, Stopper, NotStopping, LoopInv, EndingInv, ServesTheLatest
<1> QED
  BY <1>1, <1>2, <1>3, <1>4, <1>5, <1>6, <1>7, <1>8, <1>9, <1>10, <1>11,
          <1>12, <1>13, <1>14, <1>15, <1>16 DEF Next

(* No child is left when the command ends.                                 *)
LEMMA LeftStep ==
    TypeOK /\ LoopInv /\ EndingInv /\ HandsInv /\ OnlyARestartLeavesAChild /\ [Next]_vars => OnlyARestartLeavesAChild'
<1> SUFFICES ASSUME TypeOK, LoopInv, EndingInv, HandsInv, OnlyARestartLeavesAChild, [Next]_vars
             PROVE  OnlyARestartLeavesAChild'
  OBVIOUS
<1>1. CASE Change
  BY <1>1, DevAssumption DEF Change, StartOrRestart, Stop, childVars, endVars,
          TypeOK, Stopper, NotStopping, LoopInv, EndingInv, HandsInv,
          OnlyARestartLeavesAChild, Alive, Stopping
<1>2. CASE Close
  BY <1>2, DevAssumption DEF Close, Stop, childVars, loopVars, boundVars,
          TypeOK, Stopper, NotStopping, LoopInv, EndingInv, HandsInv,
          OnlyARestartLeavesAChild, Alive, Stopping
<1>3. CASE Ended
  BY <1>3, DevAssumption DEF Ended, childVars, loopVars, boundVars, TypeOK,
          Stopper, NotStopping, LoopInv, EndingInv, HandsInv,
          OnlyARestartLeavesAChild, Alive, Stopping
<1>4. ASSUME NEW s \in Stopper, GraceOver(s)
      PROVE  OnlyARestartLeavesAChild'
  BY <1>4, DevAssumption DEF GraceOver, Stopper, childVars, loopVars, endVars,
          boundVars, TypeOK, Stopper, NotStopping, LoopInv, EndingInv,
          HandsInv, OnlyARestartLeavesAChild, Alive, Stopping
<1>5. CASE OldStopped
  BY <1>5, DevAssumption DEF OldStopped, childVars, endVars, boundVars,
          TypeOK, Stopper, NotStopping, LoopInv, EndingInv, HandsInv,
          OnlyARestartLeavesAChild, Alive, Stopping
<1>6. CASE Spawn
  BY <1>6, DevAssumption DEF Spawn, endVars, boundVars, TypeOK, Stopper,
          NotStopping, LoopInv, EndingInv, HandsInv, OnlyARestartLeavesAChild,
          Alive, Stopping
<1>7. CASE PrepareFails
  BY <1>7, DevAssumption DEF PrepareFails, Throw, LoopEnds, Again,
          TakePending, StartOrRestart, childVars, boundVars, endVars, TypeOK,
          Stopper, NotStopping, LoopInv, EndingInv, HandsInv,
          OnlyARestartLeavesAChild, Alive, Stopping
<1>8. CASE ReadySettles
  BY <1>8, DevAssumption DEF ReadySettles, Discard, Stop, childVars, endVars,
          boundVars, TypeOK, Stopper, NotStopping, LoopInv, EndingInv,
          HandsInv, OnlyARestartLeavesAChild, Alive, Stopping
<1>9. CASE Healthy
  BY <1>9, DevAssumption DEF Healthy, Adopt, LoopEnds, Again, TakePending,
          StartOrRestart, Stop, childVars, boundVars, endVars, TypeOK,
          Stopper, NotStopping, LoopInv, EndingInv, HandsInv,
          OnlyARestartLeavesAChild, Alive, Stopping
<1>10. CASE Unhealthy
  BY <1>10, DevAssumption DEF Unhealthy, Discard, Stop, childVars, endVars,
          boundVars, TypeOK, Stopper, NotStopping, LoopInv, EndingInv,
          HandsInv, OnlyARestartLeavesAChild, Alive, Stopping
<1>11. CASE Discarded
  BY <1>11, DevAssumption DEF Discarded, Throw, LoopEnds, Again, TakePending,
          StartOrRestart, childVars, boundVars, endVars, TypeOK, Stopper,
          NotStopping, LoopInv, EndingInv, HandsInv, OnlyARestartLeavesAChild,
          Alive, Stopping
<1>12. ASSUME NEW d \in Child, ChildUp(d)
      PROVE  OnlyARestartLeavesAChild'
  BY <1>12, DevAssumption DEF ChildUp, loopVars, endVars, boundVars, TypeOK,
          Stopper, NotStopping, LoopInv, EndingInv, HandsInv,
          OnlyARestartLeavesAChild, Alive, Stopping
<1>13. ASSUME NEW d \in Child, ChildReports(d)
      PROVE  OnlyARestartLeavesAChild'
  BY <1>13, DevAssumption DEF ChildReports, loopVars, endVars, boundVars,
          TypeOK, Stopper, NotStopping, LoopInv, EndingInv, HandsInv,
          OnlyARestartLeavesAChild, Alive, Stopping
<1>14. ASSUME NEW d \in Child, ChildExits(d)
      PROVE  OnlyARestartLeavesAChild'
  BY <1>14, DevAssumption DEF ChildExits, Ends, Heard, loopVars, TypeOK,
          Stopper, NotStopping, LoopInv, EndingInv, HandsInv,
          OnlyARestartLeavesAChild, Alive, Stopping
<1>15. ASSUME NEW d \in Child, ChildKilled(d)
      PROVE  OnlyARestartLeavesAChild'
  BY <1>15, DevAssumption DEF ChildKilled, Ends, Heard, loopVars, TypeOK,
          Stopper, NotStopping, LoopInv, EndingInv, HandsInv,
          OnlyARestartLeavesAChild, Alive, Stopping
<1>16. CASE UNCHANGED vars
  BY <1>16, DevAssumption DEF vars, childVars, loopVars, endVars, boundVars,
          TypeOK, Stopper, NotStopping, LoopInv, EndingInv, HandsInv,
          OnlyARestartLeavesAChild, Alive, Stopping
<1> QED
  BY <1>1, <1>2, <1>3, <1>4, <1>5, <1>6, <1>7, <1>8, <1>9, <1>10, <1>11,
          <1>12, <1>13, <1>14, <1>15, <1>16 DEF Next

-----------------------------------------------------------------------------
(* The invariant holds at first: start() has begun and nothing is spawned. *)
LEMMA IInvInit ==
    Init => IInv
<1> SUFFICES ASSUME Init
             PROVE  IInv
  OBVIOUS
<1>1. TypeOK
  <2>1. stop \in [Stopper -> StopState]
    BY StopTyped DEF Init
  <2>2. 0 \in 0..MaxChanges /\ 0 \in 0..MaxKills
    BY DevAssumption
  <2>3. /\ proc \in [Child -> {"none", "starting", "up", "exited", "killed"}]
        /\ ready \in [Child -> {"pending", "ready", "failed", "inuse"}]
        /\ built \in [Child -> 0..MaxChanges]
    BY <2>2 DEF Init
  <2> QED
    BY <2>1, <2>2, <2>3 DEF Init, TypeOK, StopState
<1>2. LoopInv /\ EndingInv
  BY DEF Init, LoopInv, EndingInv, NotStopping, Stopper
<1>3. \A c \in Child : ~Alive(c)
  BY DEF Init, Alive
<1> QED
  BY <1>1, <1>2, <1>3 DEF Init, IInv, HandsInv, ServesTheLatest, OnlyARestartLeavesAChild

(* Every step keeps it.                                                    *)
LEMMA IInvStep ==
    IInv /\ [Next]_vars => IInv'
BY TypeStep, LoopStepInv, EndingStep, HandsStep, LatestStep, LeftStep DEF IInv

(* The invariant holds of every behaviour.                                 *)
LEMMA Invariant ==
    Spec => []IInv
BY IInvInit, IInvStep, PTL DEF Spec

-----------------------------------------------------------------------------
(* Every variable of the session and of its children keeps its type.       *)
THEOREM DevTyped ==
    Spec => []TypeOK
<1>1. IInv => TypeOK
  BY DEF IInv
<1> QED
  BY <1>1, Invariant, PTL

(* Never do two children of a session live at once, however stops, restarts*)
(* and failures fall together.                                             *)
THEOREM OneChildAtATime ==
    Spec => []OneChild
<1>1. IInv => OneChild
  <2> SUFFICES ASSUME IInv, NEW c \in Child, NEW d \in Child, Alive(c), Alive(d)
               PROVE  c = d
    BY DEF OneChild
  <2>1. pc \in {"idle", "stopOld", "waitReady", "waitHealth", "discard"}
    BY DEF IInv, TypeOK, HandsInv
  <2>2. CASE pc = "idle"
    BY <2>2 DEF IInv, HandsInv, EndingInv, Stopping
  <2>3. CASE pc # "idle"
    BY <2>1, <2>3 DEF IInv, HandsInv, Stopping
  <2> QED
    BY <2>2, <2>3
<1> QED
  BY <1>1, Invariant, PTL

(* Between restarts the child that serves was built from the newest        *)
(* sources: no change is lost in a restart.                                *)
THEOREM NoChangeIsMissed ==
    Spec => []ServesTheLatest
<1>1. IInv => ServesTheLatest
  BY DEF IInv
<1> QED
  BY <1>1, Invariant, PTL

(* A command that ends outside a restart leaves no child behind.           *)
THEOREM NothingLeftBehind ==
    Spec => []OnlyARestartLeavesAChild
<1>1. IInv => OnlyARestartLeavesAChild
  BY DEF IInv
<1> QED
  BY <1>1, Invariant, PTL

-----------------------------------------------------------------------------
(* The loop awaits a stop() where it stops a child, and only there.        *)
LoopAwaits ==
    /\ pc \in {"stopOld", "discard"} <=> stop["loop"].phase # "none"
    /\ pc \in {"waitReady", "waitHealth", "discard"} => proc[mine] # "none"
    /\ current # NoChild => proc[current] # "none"

(* A session that is closed and has not ended awaits one.                  *)
EndingAwaits ==
    closed /\ result = "open" => stop["close"].phase # "none" \/ stop["fatal"].phase # "none"

(* A child that stop() waits for lives, or died of a signal: its exit was  *)
(* heard, or was looked at first.                                          *)
Listens(s) ==
    stop[s].phase \in {"term", "kill"} =>
        stop[s].child \in Child /\ proc[stop[s].child] \notin {"none", "exited"}
EveryoneListens == \A s \in Stopper : Listens(s)

AwaitInv == LoopAwaits /\ EndingAwaits /\ EveryoneListens

(* A stop() of the loop begins and is over with its place.                 *)
LEMMA LoopAwaitsStep ==
    IInv /\ LoopAwaits /\ [Next]_vars => LoopAwaits'
<1> SUFFICES ASSUME TypeOK, LoopInv, LoopAwaits, [Next]_vars
             PROVE  LoopAwaits'
  BY DEF IInv
<1>1. CASE Change
  BY <1>1, DevAssumption DEF Change, StartOrRestart, Stop, childVars, endVars,
          TypeOK, Stopper, NotStopping, Alive, LoopInv, LoopAwaits
<1>2. CASE Close
  BY <1>2, DevAssumption DEF Close, Stop, childVars, loopVars, boundVars,
          TypeOK, Stopper, NotStopping, Alive, LoopInv, LoopAwaits
<1>3. CASE Ended
  BY <1>3, DevAssumption DEF Ended, childVars, loopVars, boundVars, TypeOK,
          Stopper, NotStopping, Alive, LoopInv, LoopAwaits
<1>4. ASSUME NEW x \in Stopper, GraceOver(x)
      PROVE  LoopAwaits'
  BY <1>4, DevAssumption DEF GraceOver, childVars, loopVars, endVars,
          boundVars, TypeOK, Stopper, NotStopping, Alive, LoopInv, LoopAwaits
<1>5. CASE OldStopped
  BY <1>5, DevAssumption DEF OldStopped, childVars, endVars, boundVars,
          TypeOK, Stopper, NotStopping, Alive, LoopInv, LoopAwaits
<1>6. CASE Spawn
  BY <1>6, DevAssumption DEF Spawn, endVars, boundVars, TypeOK, Stopper,
          NotStopping, Alive, LoopInv, LoopAwaits
<1>7. CASE PrepareFails
  BY <1>7, DevAssumption DEF PrepareFails, Throw, LoopEnds, Again,
          TakePending, StartOrRestart, childVars, boundVars, endVars, TypeOK,
          Stopper, NotStopping, Alive, LoopInv, LoopAwaits
<1>8. CASE ReadySettles
  BY <1>8, DevAssumption DEF ReadySettles, Discard, Stop, childVars, endVars,
          boundVars, TypeOK, Stopper, NotStopping, Alive, LoopInv, LoopAwaits
<1>9. CASE Healthy
  BY <1>9, DevAssumption DEF Healthy, Adopt, LoopEnds, Again, TakePending,
          StartOrRestart, Stop, childVars, boundVars, endVars, TypeOK,
          Stopper, NotStopping, Alive, LoopInv, LoopAwaits
<1>10. CASE Unhealthy
  BY <1>10, DevAssumption DEF Unhealthy, Discard, Stop, childVars, endVars,
          boundVars, TypeOK, Stopper, NotStopping, Alive, LoopInv, LoopAwaits
<1>11. CASE Discarded
  BY <1>11, DevAssumption DEF Discarded, Throw, LoopEnds, Again, TakePending,
          StartOrRestart, childVars, boundVars, endVars, TypeOK, Stopper,
          NotStopping, Alive, LoopInv, LoopAwaits
<1>12. ASSUME NEW d \in Child, ChildUp(d)
      PROVE  LoopAwaits'
  BY <1>12, DevAssumption DEF ChildUp, loopVars, endVars, boundVars, TypeOK,
          Stopper, NotStopping, Alive, LoopInv, LoopAwaits
<1>13. ASSUME NEW d \in Child, ChildReports(d)
      PROVE  LoopAwaits'
  BY <1>13, DevAssumption DEF ChildReports, loopVars, endVars, boundVars,
          TypeOK, Stopper, NotStopping, Alive, LoopInv, LoopAwaits
<1>14. ASSUME NEW d \in Child, ChildExits(d)
      PROVE  LoopAwaits'
  BY <1>14, DevAssumption DEF ChildExits, Ends, Heard, loopVars, TypeOK,
          Stopper, NotStopping, Alive, LoopInv, LoopAwaits
<1>15. ASSUME NEW d \in Child, ChildKilled(d)
      PROVE  LoopAwaits'
  BY <1>15, DevAssumption DEF ChildKilled, Ends, Heard, loopVars, TypeOK,
          Stopper, NotStopping, Alive, LoopInv, LoopAwaits
<1>16. CASE UNCHANGED vars
  BY <1>16, DevAssumption DEF vars, childVars, loopVars, endVars, boundVars,
          TypeOK, Stopper, NotStopping, Alive, LoopInv, LoopAwaits
<1> QED
  BY <1>1, <1>2, <1>3, <1>4, <1>5, <1>6, <1>7, <1>8, <1>9, <1>10, <1>11,
          <1>12, <1>13, <1>14, <1>15, <1>16 DEF Next

(* Whatever closes the session awaits a stop() or ends the command.        *)
LEMMA EndingAwaitsStep ==
    IInv /\ EndingAwaits /\ [Next]_vars => EndingAwaits'
<1> SUFFICES ASSUME TypeOK, LoopInv, EndingInv, EndingAwaits, [Next]_vars
             PROVE  EndingAwaits'
  BY DEF IInv
<1>1. CASE Change
  BY <1>1, DevAssumption DEF Change, StartOrRestart, Stop, childVars, endVars,
          TypeOK, Stopper, NotStopping, Alive, LoopInv, EndingInv,
          EndingAwaits
<1>2. CASE Close
  BY <1>2, DevAssumption DEF Close, Stop, childVars, loopVars, boundVars,
          TypeOK, Stopper, NotStopping, Alive, LoopInv, EndingInv,
          EndingAwaits
<1>3. CASE Ended
  BY <1>3, DevAssumption DEF Ended, childVars, loopVars, boundVars, TypeOK,
          Stopper, NotStopping, Alive, LoopInv, EndingInv, EndingAwaits
<1>4. ASSUME NEW x \in Stopper, GraceOver(x)
      PROVE  EndingAwaits'
  BY <1>4, DevAssumption DEF GraceOver, childVars, loopVars, endVars,
          boundVars, TypeOK, Stopper, NotStopping, Alive, LoopInv, EndingInv,
          EndingAwaits
<1>5. CASE OldStopped
  BY <1>5, DevAssumption DEF OldStopped, childVars, endVars, boundVars,
          TypeOK, Stopper, NotStopping, Alive, LoopInv, EndingInv,
          EndingAwaits
<1>6. CASE Spawn
  BY <1>6, DevAssumption DEF Spawn, endVars, boundVars, TypeOK, Stopper,
          NotStopping, Alive, LoopInv, EndingInv, EndingAwaits
<1>7. CASE PrepareFails
  BY <1>7, DevAssumption DEF PrepareFails, Throw, LoopEnds, Again,
          TakePending, StartOrRestart, childVars, boundVars, endVars, TypeOK,
          Stopper, NotStopping, Alive, LoopInv, EndingInv, EndingAwaits
<1>8. CASE ReadySettles
  BY <1>8, DevAssumption DEF ReadySettles, Discard, Stop, childVars, endVars,
          boundVars, TypeOK, Stopper, NotStopping, Alive, LoopInv, EndingInv,
          EndingAwaits
<1>9. CASE Healthy
  <2>1. ~closed /\ result = "open" /\ result' = result
    BY <1>9 DEF Healthy, Adopt, LoopInv, endVars
  <2>2. stop'["fatal"].phase # "none" \/ ~closed'
    BY <1>9, <2>1 DEF Healthy, Adopt, LoopEnds, Stop, endVars, Stopper, TypeOK
  <2> QED
    BY <2>2 DEF EndingAwaits
<1>10. CASE Unhealthy
  BY <1>10, DevAssumption DEF Unhealthy, Discard, Stop, childVars, endVars,
          boundVars, TypeOK, Stopper, NotStopping, Alive, LoopInv, EndingInv,
          EndingAwaits
<1>11. CASE Discarded
  BY <1>11, DevAssumption DEF Discarded, Throw, LoopEnds, Again, TakePending,
          StartOrRestart, childVars, boundVars, endVars, TypeOK, Stopper,
          NotStopping, Alive, LoopInv, EndingInv, EndingAwaits
<1>12. ASSUME NEW d \in Child, ChildUp(d)
      PROVE  EndingAwaits'
  BY <1>12, DevAssumption DEF ChildUp, loopVars, endVars, boundVars, TypeOK,
          Stopper, NotStopping, Alive, LoopInv, EndingInv, EndingAwaits
<1>13. ASSUME NEW d \in Child, ChildReports(d)
      PROVE  EndingAwaits'
  BY <1>13, DevAssumption DEF ChildReports, loopVars, endVars, boundVars,
          TypeOK, Stopper, NotStopping, Alive, LoopInv, EndingInv,
          EndingAwaits
<1>14. ASSUME NEW d \in Child, ChildExits(d)
      PROVE  EndingAwaits'
  <2>1. result' = result /\ stop \in [Stopper -> StopState]
    BY <1>14 DEF ChildExits, Ends, TypeOK, StopState
  <2>2. CASE current = d /\ ~closed
    BY <1>14, <2>1, <2>2 DEF ChildExits, Ends, Stopper, EndingAwaits
  <2>3. CASE ~(current = d /\ ~closed)
    <3>1. closed' = closed /\ stop' = Heard(d)
      BY <1>14, <2>3 DEF ChildExits, Ends
    <3>2. \A x \in Stopper : stop'[x].phase = "none" => stop[x].phase = "none"
      BY <2>1, <3>1 DEF Heard, StopState
    <3> QED
      BY <2>1, <3>1, <3>2 DEF EndingAwaits, Stopper
  <2> QED
    BY <2>2, <2>3
<1>15. ASSUME NEW d \in Child, ChildKilled(d)
      PROVE  EndingAwaits'
  <2>1. result' = result /\ stop \in [Stopper -> StopState]
    BY <1>15 DEF ChildKilled, Ends, TypeOK, StopState
  <2>2. CASE current = d /\ ~closed
    BY <1>15, <2>1, <2>2 DEF ChildKilled, Ends, Stopper, EndingAwaits
  <2>3. CASE ~(current = d /\ ~closed)
    <3>1. closed' = closed /\ stop' = Heard(d)
      BY <1>15, <2>3 DEF ChildKilled, Ends
    <3>2. \A x \in Stopper : stop'[x].phase = "none" => stop[x].phase = "none"
      BY <2>1, <3>1 DEF Heard, StopState
    <3> QED
      BY <2>1, <3>1, <3>2 DEF EndingAwaits, Stopper
  <2> QED
    BY <2>2, <2>3
<1>16. CASE UNCHANGED vars
  BY <1>16, DevAssumption DEF vars, childVars, loopVars, endVars, boundVars,
          TypeOK, Stopper, NotStopping, Alive, LoopInv, EndingInv,
          EndingAwaits
<1> QED
  BY <1>1, <1>2, <1>3, <1>4, <1>5, <1>6, <1>7, <1>8, <1>9, <1>10, <1>11,
          <1>12, <1>13, <1>14, <1>15, <1>16 DEF Next

(* Nobody is left listening to a child whose exit was told.                *)
LEMMA ListensStep ==
    IInv /\ AwaitInv /\ [Next]_vars => EveryoneListens'
<1> SUFFICES ASSUME TypeOK, LoopInv, EndingInv, LoopAwaits, EveryoneListens, [Next]_vars,
                    NEW s \in Stopper
             PROVE  Listens(s)'
  BY DEF IInv, AwaitInv, EveryoneListens
<1>0. Listens(s)
  BY DEF EveryoneListens
<1> HIDE DEF EveryoneListens
<1>1. CASE Change
  BY <1>1, <1>0, DevAssumption DEF Change, StartOrRestart, Stop, childVars, endVars,
          TypeOK, Stopper, NotStopping, Alive, LoopInv, EndingInv, LoopAwaits,
          Listens
<1>2. CASE Close
  BY <1>2, <1>0, DevAssumption DEF Close, Stop, childVars, loopVars, boundVars,
          TypeOK, Stopper, NotStopping, Alive, LoopInv, EndingInv, LoopAwaits,
          Listens
<1>3. CASE Ended
  BY <1>3, <1>0, DevAssumption DEF Ended, childVars, loopVars, boundVars, TypeOK,
          Stopper, NotStopping, Alive, LoopInv, EndingInv, LoopAwaits, Listens
<1>4. ASSUME NEW x \in Stopper, GraceOver(x)
      PROVE  Listens(s)'
  BY <1>4, <1>0, DevAssumption DEF GraceOver, childVars, loopVars, endVars,
          boundVars, TypeOK, Stopper, NotStopping, Alive, LoopInv, EndingInv,
          LoopAwaits, Listens
<1>5. CASE OldStopped
  BY <1>5, <1>0, DevAssumption DEF OldStopped, childVars, endVars, boundVars,
          TypeOK, Stopper, NotStopping, Alive, LoopInv, EndingInv, LoopAwaits,
          Listens
<1>6. CASE Spawn
  BY <1>6, <1>0, DevAssumption DEF Spawn, endVars, boundVars, TypeOK, Stopper,
          NotStopping, Alive, LoopInv, EndingInv, LoopAwaits, Listens
<1>7. CASE PrepareFails
  BY <1>7, <1>0, DevAssumption DEF PrepareFails, Throw, LoopEnds, Again,
          TakePending, StartOrRestart, childVars, boundVars, endVars, TypeOK,
          Stopper, NotStopping, Alive, LoopInv, EndingInv, LoopAwaits, Listens
<1>8. CASE ReadySettles
  BY <1>8, <1>0, DevAssumption DEF ReadySettles, Discard, Stop, childVars, endVars,
          boundVars, TypeOK, Stopper, NotStopping, Alive, LoopInv, EndingInv,
          LoopAwaits, Listens
<1>9. CASE Healthy
  BY <1>9, <1>0, DevAssumption DEF Healthy, Adopt, LoopEnds, Again, TakePending,
          StartOrRestart, Stop, childVars, boundVars, endVars, TypeOK,
          Stopper, NotStopping, Alive, LoopInv, EndingInv, LoopAwaits, Listens
<1>10. CASE Unhealthy
  BY <1>10, <1>0, DevAssumption DEF Unhealthy, Discard, Stop, childVars, endVars,
          boundVars, TypeOK, Stopper, NotStopping, Alive, LoopInv, EndingInv,
          LoopAwaits, Listens
<1>11. CASE Discarded
  BY <1>11, <1>0, DevAssumption DEF Discarded, Throw, LoopEnds, Again, TakePending,
          StartOrRestart, childVars, boundVars, endVars, TypeOK, Stopper,
          NotStopping, Alive, LoopInv, EndingInv, LoopAwaits, Listens
<1>12. ASSUME NEW d \in Child, ChildUp(d)
      PROVE  Listens(s)'
  BY <1>12, <1>0, DevAssumption DEF ChildUp, loopVars, endVars, boundVars, TypeOK,
          Stopper, NotStopping, Alive, LoopInv, EndingInv, LoopAwaits, Listens
<1>13. ASSUME NEW d \in Child, ChildReports(d)
      PROVE  Listens(s)'
  BY <1>13, <1>0, DevAssumption DEF ChildReports, loopVars, endVars, boundVars,
          TypeOK, Stopper, NotStopping, Alive, LoopInv, EndingInv, LoopAwaits,
          Listens
<1>14. ASSUME NEW d \in Child, ChildExits(d)
      PROVE  Listens(s)'
  BY <1>14, <1>0, DevAssumption DEF ChildExits, Ends, Heard, loopVars, TypeOK,
          Stopper, NotStopping, Alive, LoopInv, EndingInv, LoopAwaits, Listens
<1>15. ASSUME NEW d \in Child, ChildKilled(d)
      PROVE  Listens(s)'
  BY <1>15, <1>0, DevAssumption DEF ChildKilled, Ends, Heard, loopVars, TypeOK,
          Stopper, NotStopping, Alive, LoopInv, EndingInv, LoopAwaits, Listens
<1>16. CASE UNCHANGED vars
  BY <1>16, <1>0, DevAssumption DEF vars, childVars, loopVars, endVars, boundVars,
          TypeOK, Stopper, NotStopping, Alive, LoopInv, EndingInv, LoopAwaits,
          Listens
<1> QED
  BY <1>1, <1>2, <1>3, <1>4, <1>5, <1>6, <1>7, <1>8, <1>9, <1>10, <1>11,
          <1>12, <1>13, <1>14, <1>15, <1>16 DEF Next

(* The awaits are in order in every behaviour.                             *)
LEMMA AwaitInvariant == Spec => []AwaitInv
<1>1. Init => AwaitInv
  BY DEF Init, AwaitInv, LoopAwaits, EndingAwaits, EveryoneListens, Listens, NotStopping, Stopper
<1>2. IInv /\ AwaitInv /\ [Next]_vars => AwaitInv'
  BY LoopAwaitsStep, EndingAwaitsStep, ListensStep DEF AwaitInv
<1> QED BY <1>1, <1>2, Invariant, PTL DEF Spec

-----------------------------------------------------------------------------
(* How far a stop() is from its end, and the loop from the end of its pass *)
(* through startOrRestart.                                                 *)
ToStop(s) ==
    IF stop[s].phase = "term" THEN 3 ELSE IF stop[s].phase = "kill" THEN 2 ELSE 1
ToGo ==
    IF pc = "stopOld" THEN 7 + ToStop("loop")
    ELSE IF pc = "prepare" THEN 7
    ELSE IF pc = "waitReady" THEN (IF ready[mine] = "pending" THEN 6 ELSE 5)
    ELSE IF pc = "waitHealth" THEN 4
    ELSE IF pc = "discard" THEN ToStop("loop") ELSE 0

Over == result # "open" \/ Deaf

(* A pass is over when the loop ends, or takes or gets a pending change.   *)
Turned(b) == Over \/ loop = "none" \/ pending # b
At(b, j) == ~Turned(b) /\ ToGo = j
Lower(b, j) == Turned(b) \/ ToGo < j

(* The distance is at most ten, and a loop that runs has one.              *)
LEMMA ToGoType ==
    TypeOK => ToGo \in 0..10 /\ (LoopInv /\ loop # "none" => ToGo \in 1..10)
BY DEF TypeOK, ToGo, ToStop, LoopInv, Stopper

(* Nobody's step takes the loop further from its end.                      *)
LEMMA NextFalls ==
    ASSUME IInv, AwaitInv, [Next]_vars, ~Over, loop # "none"
    PROVE  Over' \/ loop' = "none" \/ pending' # pending \/ ToGo' <= ToGo
<1>a. /\ TypeOK /\ LoopInv /\ LoopAwaits /\ NoChild \notin Child
      /\ current = NoChild /\ result = "open" /\ pc # "idle" /\ ~closed
      /\ stop \in [Stopper -> StopState]
  BY DevAssumption DEF IInv, AwaitInv, Over, LoopInv, TypeOK, StopState
<1> USE <1>a
<1>1. CASE Change
  BY <1>1, DevAssumption DEF Change, StartOrRestart, Stop, childVars, endVars,
          LoopInv, HandsInv, LoopAwaits, Stopper, TypeOK, Over, ToGo, ToStop
<1>2. CASE Close
  BY <1>2, DevAssumption DEF Close, Stop, childVars, loopVars, boundVars,
          LoopInv, HandsInv, LoopAwaits, Stopper, TypeOK, Over, ToGo, ToStop
<1>3. CASE Ended
  BY <1>3, DevAssumption DEF Ended, childVars, loopVars, boundVars, LoopInv,
          HandsInv, LoopAwaits, Stopper, TypeOK, Over, ToGo, ToStop
<1>4. ASSUME NEW x \in Stopper, GraceOver(x)
      PROVE  Over' \/ loop' = "none" \/ pending' # pending \/ ToGo' <= ToGo
  BY <1>4, DevAssumption DEF GraceOver, childVars, loopVars, endVars,
          boundVars, LoopInv, HandsInv, LoopAwaits, Stopper, TypeOK, Over,
          ToGo, ToStop
<1>5. CASE OldStopped
  BY <1>5, DevAssumption DEF OldStopped, childVars, endVars, boundVars,
          LoopInv, HandsInv, LoopAwaits, Stopper, TypeOK, Over, ToGo, ToStop
<1>6. CASE Spawn
  BY <1>6, DevAssumption DEF Spawn, endVars, boundVars, LoopInv, HandsInv,
          LoopAwaits, Stopper, TypeOK, Over, ToGo, ToStop
<1>7. CASE PrepareFails
  BY <1>7, DevAssumption DEF PrepareFails, Throw, LoopEnds, Again,
          TakePending, StartOrRestart, childVars, boundVars, endVars, LoopInv,
          HandsInv, LoopAwaits, Stopper, TypeOK, Over, ToGo, ToStop
<1>8. CASE ReadySettles
  BY <1>8, DevAssumption DEF ReadySettles, Discard, Stop, childVars, endVars,
          boundVars, LoopInv, HandsInv, LoopAwaits, Stopper, TypeOK, Over,
          ToGo, ToStop
<1>9. CASE Healthy
  BY <1>9, DevAssumption DEF Healthy, Adopt, LoopEnds, Again, TakePending,
          StartOrRestart, Stop, childVars, boundVars, endVars, LoopInv,
          HandsInv, LoopAwaits, Stopper, TypeOK, Over, ToGo, ToStop
<1>10. CASE Unhealthy
  BY <1>10, DevAssumption DEF Unhealthy, Discard, Stop, childVars, endVars,
          boundVars, LoopInv, HandsInv, LoopAwaits, Stopper, TypeOK, Over,
          ToGo, ToStop
<1>11. CASE Discarded
  BY <1>11, DevAssumption DEF Discarded, Throw, LoopEnds, Again, TakePending,
          StartOrRestart, childVars, boundVars, endVars, LoopInv, HandsInv,
          LoopAwaits, Stopper, TypeOK, Over, ToGo, ToStop
<1>12. ASSUME NEW d \in Child, ChildUp(d)
      PROVE  Over' \/ loop' = "none" \/ pending' # pending \/ ToGo' <= ToGo
  BY <1>12, DevAssumption DEF ChildUp, loopVars, endVars, boundVars, LoopInv,
          HandsInv, LoopAwaits, Stopper, TypeOK, Over, ToGo, ToStop
<1>13. ASSUME NEW d \in Child, ChildReports(d)
      PROVE  Over' \/ loop' = "none" \/ pending' # pending \/ ToGo' <= ToGo
  BY <1>13, DevAssumption DEF ChildReports, loopVars, endVars, boundVars,
          LoopInv, HandsInv, LoopAwaits, Stopper, TypeOK, Over, ToGo, ToStop
<1>14. ASSUME NEW d \in Child, ChildExits(d)
      PROVE  Over' \/ loop' = "none" \/ pending' # pending \/ ToGo' <= ToGo
  BY <1>14, DevAssumption DEF ChildExits, Ends, Heard, loopVars, LoopInv,
          HandsInv, LoopAwaits, Stopper, TypeOK, Over, ToGo, ToStop
<1>15. ASSUME NEW d \in Child, ChildKilled(d)
      PROVE  Over' \/ loop' = "none" \/ pending' # pending \/ ToGo' <= ToGo
  BY <1>15, DevAssumption DEF ChildKilled, Ends, Heard, loopVars, LoopInv,
          HandsInv, LoopAwaits, Stopper, TypeOK, Over, ToGo, ToStop
<1>16. CASE UNCHANGED vars
  BY <1>16, DevAssumption DEF vars, childVars, loopVars, endVars, boundVars,
          LoopInv, HandsInv, LoopAwaits, Stopper, TypeOK, Over, ToGo, ToStop
<1> QED
  BY <1>1, <1>2, <1>3, <1>4, <1>5, <1>6, <1>7, <1>8, <1>9, <1>10, <1>11,
          <1>12, <1>13, <1>14, <1>15, <1>16 DEF Next

(* The loop's own step takes it nearer.                                    *)
LEMMA LoopHelps ==
    ASSUME IInv, AwaitInv, LoopStep, ~Over, loop # "none"
    PROVE  Over' \/ loop' = "none" \/ pending' # pending \/ ToGo' < ToGo
<1>a. /\ TypeOK /\ LoopInv /\ LoopAwaits
      /\ current = NoChild /\ result = "open" /\ pc # "idle" /\ ~closed
      /\ stop \in [Stopper -> StopState]
  BY DEF IInv, AwaitInv, Over, LoopInv, TypeOK, StopState
<1> USE <1>a DEF LoopInv, LoopAwaits, Stopper, TypeOK, ToGo, ToStop, childVars, endVars, boundVars,
        StopState
<1>1. CASE OldStopped
  BY <1>1 DEF OldStopped
<1>2. CASE Spawn
  BY <1>2 DEF Spawn
<1>3. CASE PrepareFails
  BY <1>3 DEF PrepareFails, Throw, LoopEnds, Again, TakePending
<1>4. CASE ReadySettles
  BY <1>4 DEF ReadySettles, Discard, Stop
<1>5. CASE Healthy
  BY <1>5 DEF Healthy, Adopt, LoopEnds, Again, TakePending
<1>6. CASE Unhealthy
  BY <1>6 DEF Unhealthy, Discard, Stop
<1>7. CASE Discarded
  BY <1>7 DEF Discarded, Throw, LoopEnds, Again, TakePending
<1> QED
  BY <1>1, <1>2, <1>3, <1>4, <1>5, <1>6, <1>7 DEF LoopStep

(* So does the end of the grace window.                                    *)
LEMMA GraceHelps ==
    ASSUME IInv, AwaitInv, GraceOver("loop"), loop # "none"
    PROVE  ToGo' < ToGo
BY DEF IInv, AwaitInv, LoopAwaits, TypeOK, GraceOver, childVars, loopVars, Stopper, ToGo, ToStop

(* The only child that can be killed is the one that the loop stops.       *)
LEMMA KillHelps ==
    ASSUME IInv, AwaitInv, IsKilled, ~Over, loop # "none", ToGo \in {9, 2}
    PROVE  ToGo' < ToGo
<1>1. PICK c \in Child : Signalled(c, "kill") /\ ChildKilled(c)
  BY DEF IsKilled
<1>2. /\ pc \in {"stopOld", "discard"} /\ current = NoChild
      /\ stop["loop"].phase = "kill" /\ stop \in [Stopper -> StopState]
  BY DEF IInv, TypeOK, ToGo, ToStop, LoopInv, StopState, Stopper
<1>3. stop["loop"].child = c
  BY <1>1, <1>2 DEF IInv, HandsInv, ChildKilled, Stopping
<1>4. stop' = Heard(c) /\ UNCHANGED loopVars
  BY <1>1, <1>2, DevAssumption DEF ChildKilled, Ends
<1>5. stop'["loop"].phase = "done"
  BY <1>2, <1>3, <1>4 DEF Heard, Stopper, StopState
<1> QED BY <1>2, <1>4, <1>5 DEF ToGo, ToStop, loopVars

(* The only child that can come up is the one that the loop starts.        *)
LEMMA ComesHelps ==
    ASSUME IInv, ComesUp, ToGo = 6
    PROVE  ToGo' < ToGo
<1>1. PICK c \in Child : ChildUp(c) \/ ChildExits(c)
  BY DEF ComesUp
<1>2. pc = "waitReady"
  BY DEF IInv, TypeOK, ToGo, ToStop, Stopper
<1>3. c = mine
  BY <1>1, <1>2 DEF IInv, HandsInv, ChildUp, ChildExits, Alive
<1>4. ready'[mine] # "pending" /\ pc' = "waitReady" /\ mine' = mine
  BY <1>1, <1>2, <1>3 DEF IInv, TypeOK, ChildUp, ChildExits, Ends, loopVars
<1> QED BY <1>4 DEF ToGo, ToStop

-----------------------------------------------------------------------------
(* Where the loop waits, somebody with fairness moves it on.               *)
Inv == IInv /\ AwaitInv
Descends(b, j) == At(b, j) ~> Lower(b, j)

(* The invariants hold of every fair behaviour.                            *)
LEMMA InvHolds == FairSpec => []Inv
BY Invariant, AwaitInvariant, PTL DEF FairSpec, Inv

(* The parts of the fairness, by name.                                     *)
LEMMA FairParts ==
    FairSpec => /\ Spec /\ WF_vars(LoopStep) /\ WF_vars(Ended) /\ TimersFair
                /\ WF_vars(ComesUp) /\ WF_vars(IsKilled)
BY PTL DEF FairSpec, Fairness

LEMMA EachTimerIsFair ==
    ASSUME NEW s \in Stopper PROVE TimersFair => GraceFair(s)
BY DEF TimersFair

(* At any distance: nobody takes the loop further.                         *)
LEMMA AtFalls ==
    ASSUME NEW b \in BOOLEAN, NEW j \in 1..10
    PROVE  Inv /\ At(b, j) /\ [Next]_vars => At(b, j)' \/ Lower(b, j)'
<1> SUFFICES ASSUME Inv, At(b, j), [Next]_vars
             PROVE  At(b, j)' \/ Lower(b, j)'
  OBVIOUS
<1>1. Over' \/ loop' = "none" \/ pending' # pending \/ ToGo' <= ToGo
  BY NextFalls DEF Inv, At, Turned
<1>2. ToGo' \in 0..10
  BY DEF ToGo, ToStop
<1>3. CASE Turned(b)'
  BY <1>3 DEF Lower
<1>4. CASE ~Turned(b)'
  <2>1. ToGo' <= j
    BY <1>1, <1>4 DEF At, Turned
  <2> QED BY <1>2, <1>4, <2>1 DEF At, Lower
<1> QED BY <1>3, <1>4

(* At any distance: the step that helps takes it nearer.                   *)
LEMMA HelpsAt ==
    ASSUME NEW b \in BOOLEAN, NEW j \in 1..10, NEW s \in Stopper, s = "loop"
    PROVE  /\ Inv /\ At(b, j) /\ <<LoopStep>>_vars => Lower(b, j)'
           /\ Inv /\ At(b, j) /\ <<GraceOver(s)>>_vars => Lower(b, j)'
           /\ Inv /\ At(b, j) /\ <<IsKilled>>_vars /\ j \in {9, 2} => Lower(b, j)'
           /\ Inv /\ At(b, j) /\ <<ComesUp>>_vars /\ j = 6 => Lower(b, j)'
BY LoopHelps, GraceHelps, KillHelps, ComesHelps DEF Inv, At, Turned, Lower

(* What the loop waits for at each distance can come.                      *)
LEMMA HelpComes ==
    ASSUME NEW b \in BOOLEAN, NEW j \in 1..10, NEW s \in Stopper, s = "loop",
           Inv, NobodyWaitsInVain, At(b, j)
    PROVE  /\ j \in {10, 3} => ENABLED <<GraceOver(s)>>_vars
           /\ j \in {9, 2} => ENABLED <<IsKilled>>_vars
           /\ j = 6 => ENABLED <<ComesUp>>_vars
           /\ j \in {8, 7, 5, 4, 1} => ENABLED <<LoopStep>>_vars
<1>1. /\ result = "open" /\ ~Deaf /\ loop # "none" /\ pc # "idle"
      /\ stop \in [Stopper -> StopState] /\ "loop" \in Stopper
      /\ pc \in {"stopOld", "discard"} <=> stop["loop"].phase # "none"
  BY DEF Inv, IInv, AwaitInv, LoopInv, LoopAwaits, TypeOK, At, Turned, Over, StopState, Stopper
<1>2. /\ j \in {10, 3} => stop["loop"].phase = "term"
      /\ j \in {9, 2} => stop["loop"].phase = "kill"
      /\ j = 6 => pc = "waitReady" /\ ready[mine] = "pending"
      /\ j = 5 => pc = "waitReady" /\ ready[mine] # "pending"
      /\ j \in {8, 7, 4, 1} => pc \in {"prepare", "waitHealth"} \/ stop["loop"].phase = "done"
  BY <1>1 DEF Inv, IInv, TypeOK, At, ToGo, ToStop, StopState
<1>3. /\ stop[s].phase = "term" => ENABLED <<GraceOver(s)>>_vars
      /\ stop[s].phase = "kill" => ENABLED <<IsKilled>>_vars
  BY <1>1 DEF NobodyWaitsInVain
<1>4. /\ pc \in {"prepare", "waitHealth"} \/ stop["loop"].phase = "done" => ENABLED <<LoopStep>>_vars
      /\ pc = "waitReady" /\ ready[mine] = "pending" => ENABLED <<ComesUp>>_vars
      /\ pc = "waitReady" /\ ready[mine] # "pending" => ENABLED <<LoopStep>>_vars
  BY <1>1 DEF NobodyWaitsInVain
<1> QED BY <1>2, <1>3, <1>4

(* So the distance falls.                                                  *)
LEMMA OneDown ==
    ASSUME NEW b \in BOOLEAN, NEW j \in 1..10
    PROVE  FairSpec /\ []NobodyWaitsInVain => Descends(b, j)
<1>1. Inv /\ At(b, j) /\ [Next]_vars => At(b, j)' \/ Lower(b, j)'
  BY AtFalls
<1>s. PICK s \in Stopper : s = "loop"
  BY DEF Stopper
<1>2. CASE j \in {8, 7, 5, 4, 1}
  <2>1. Inv /\ At(b, j) /\ <<LoopStep>>_vars => Lower(b, j)'
    BY <1>s, HelpsAt
  <2>2. Inv /\ NobodyWaitsInVain /\ At(b, j) => ENABLED <<LoopStep>>_vars
    BY <1>2, <1>s, HelpComes
  <2> QED BY <1>1, <2>1, <2>2, InvHolds, FairParts, PTL DEF Spec, Descends
<1>3. CASE j \in {10, 3}
  <2>1. Inv /\ At(b, j) /\ <<GraceOver(s)>>_vars => Lower(b, j)'
    BY <1>s, HelpsAt
  <2>2. Inv /\ NobodyWaitsInVain /\ At(b, j) => ENABLED <<GraceOver(s)>>_vars
    BY <1>3, <1>s, HelpComes
  <2>3. TimersFair => GraceFair(s)
    BY EachTimerIsFair
  <2> QED BY <1>1, <2>1, <2>2, <2>3, InvHolds, FairParts, PTL DEF Spec, Descends, GraceFair
<1>4. CASE j \in {9, 2}
  <2>1. Inv /\ At(b, j) /\ <<IsKilled>>_vars => Lower(b, j)'
    BY <1>4, <1>s, HelpsAt
  <2>2. Inv /\ NobodyWaitsInVain /\ At(b, j) => ENABLED <<IsKilled>>_vars
    BY <1>4, <1>s, HelpComes
  <2> QED BY <1>1, <2>1, <2>2, InvHolds, FairParts, PTL DEF Spec, Descends
<1>5. CASE j = 6
  <2>1. Inv /\ At(b, j) /\ <<ComesUp>>_vars => Lower(b, j)'
    BY <1>5, <1>s, HelpsAt
  <2>2. Inv /\ NobodyWaitsInVain /\ At(b, j) => ENABLED <<ComesUp>>_vars
    BY <1>5, <1>s, HelpComes
  <2> QED BY <1>1, <2>1, <2>2, InvHolds, FairParts, PTL DEF Spec, Descends
<1> QED BY <1>2, <1>3, <1>4, <1>5

Nears(b, j, k) == Lower(b, j) ~> Lower(b, k)

(* One less at a time, from below j to below k.                            *)
LEMMA Nearer ==
    ASSUME NEW b \in BOOLEAN, NEW j \in 2..11, NEW k \in 1..10, j = k + 1
    PROVE  FairSpec /\ []NobodyWaitsInVain => Nears(b, j, k)
<1>1. Inv /\ Lower(b, j) => Lower(b, k) \/ At(b, k)
  BY ToGoType DEF Inv, IInv, Lower, At, Turned
<1>2. FairSpec /\ []NobodyWaitsInVain => Descends(b, k)
  BY OneDown
<1> QED BY <1>1, <1>2, InvHolds, PTL DEF Descends, Nears

PassEnds(b) == loop # "none" /\ pending = b ~> Turned(b)

(* Ten times are enough.                                                   *)
LEMMA OnePassEnds ==
    ASSUME NEW b \in BOOLEAN
    PROVE  FairSpec /\ []NobodyWaitsInVain => PassEnds(b)
<1>1. FairSpec /\ []NobodyWaitsInVain =>
      /\ Nears(b, 11, 10) /\ Nears(b, 10, 9) /\ Nears(b, 9, 8) /\ Nears(b, 8, 7)
      /\ Nears(b, 7, 6) /\ Nears(b, 6, 5) /\ Nears(b, 5, 4) /\ Nears(b, 4, 3)
      /\ Nears(b, 3, 2) /\ Nears(b, 2, 1)
  BY Nearer
<1>2. FairSpec /\ []NobodyWaitsInVain => Nears(b, 11, 1)
  BY <1>1, PTL DEF Nears
<1>3. Inv => Lower(b, 11)
  BY ToGoType DEF Inv, IInv, Lower
<1>4. Inv /\ Lower(b, 1) => Turned(b)
  BY ToGoType DEF Inv, IInv, Lower, Turned
<1> QED BY <1>2, <1>3, <1>4, InvHolds, PTL DEF Nears, PassEnds

(* Every pass of a restart through startOrRestart ends, on every path of   *)
(* failures: the loop ends, or has a change that it did not have before,   *)
(* or takes the one it had and begins its next pass.                       *)
THEOREM PassesEnd ==
    FairSpec /\ []NobodyWaitsInVain => PassEnds(TRUE) /\ PassEnds(FALSE)
BY OnePassEnds

-----------------------------------------------------------------------------
(* A session that is closed waits for one stop(), and then ends.           *)
Waits(s) == closed /\ ~Over /\ stop[s].phase # "none"
Ending(s, j) == Waits(s) /\ ToStop(s) = j
EndNears(s, j) == Over \/ (Waits(s) /\ ToStop(s) < j)
EndsFrom(s, j) == Ending(s, j) ~> EndNears(s, j)

(* Once the session is closed nobody's step takes its stop() back.         *)
LEMMA EndingFalls ==
    ASSUME IInv, [Next]_vars, NEW s \in {"close", "fatal"}, Waits(s)
    PROVE  Over' \/ (Waits(s)' /\ ToStop(s)' <= ToStop(s))
<1>a. /\ TypeOK /\ pc = "idle" /\ result = "open" /\ closed /\ stop[s].phase # "none"
      /\ stop \in [Stopper -> StopState]
  BY DEF IInv, Waits, Over, LoopInv, TypeOK, StopState
<1> USE <1>a
<1>1. CASE Change
  BY <1>1, DevAssumption DEF Change, StartOrRestart, Stop, childVars, endVars,
          Waits, Over, ToStop, Stopper, StopState
<1>2. CASE Close
  BY <1>2, DevAssumption DEF Close, Stop, childVars, loopVars, boundVars,
          Waits, Over, ToStop, Stopper, StopState
<1>3. CASE Ended
  BY <1>3, DevAssumption DEF Ended, childVars, loopVars, boundVars, Waits,
          Over, ToStop, Stopper, StopState
<1>4. ASSUME NEW x \in Stopper, GraceOver(x)
      PROVE  Over' \/ (Waits(s)' /\ ToStop(s)' <= ToStop(s))
  BY <1>4, DevAssumption DEF GraceOver, childVars, loopVars, endVars,
          boundVars, Waits, Over, ToStop, Stopper, StopState
<1>5. CASE OldStopped
  BY <1>5, DevAssumption DEF OldStopped, childVars, endVars, boundVars, Waits,
          Over, ToStop, Stopper, StopState
<1>6. CASE Spawn
  BY <1>6, DevAssumption DEF Spawn, endVars, boundVars, Waits, Over, ToStop,
          Stopper, StopState
<1>7. CASE PrepareFails
  BY <1>7, DevAssumption DEF PrepareFails, Throw, LoopEnds, Again,
          TakePending, StartOrRestart, childVars, boundVars, endVars, Waits,
          Over, ToStop, Stopper, StopState
<1>8. CASE ReadySettles
  BY <1>8, DevAssumption DEF ReadySettles, Discard, Stop, childVars, endVars,
          boundVars, Waits, Over, ToStop, Stopper, StopState
<1>9. CASE Healthy
  BY <1>9, DevAssumption DEF Healthy, Adopt, LoopEnds, Again, TakePending,
          StartOrRestart, Stop, childVars, boundVars, endVars, Waits, Over,
          ToStop, Stopper, StopState
<1>10. CASE Unhealthy
  BY <1>10, DevAssumption DEF Unhealthy, Discard, Stop, childVars, endVars,
          boundVars, Waits, Over, ToStop, Stopper, StopState
<1>11. CASE Discarded
  BY <1>11, DevAssumption DEF Discarded, Throw, LoopEnds, Again, TakePending,
          StartOrRestart, childVars, boundVars, endVars, Waits, Over, ToStop,
          Stopper, StopState
<1>12. ASSUME NEW d \in Child, ChildUp(d)
      PROVE  Over' \/ (Waits(s)' /\ ToStop(s)' <= ToStop(s))
  BY <1>12, DevAssumption DEF ChildUp, loopVars, endVars, boundVars, Waits,
          Over, ToStop, Stopper, StopState
<1>13. ASSUME NEW d \in Child, ChildReports(d)
      PROVE  Over' \/ (Waits(s)' /\ ToStop(s)' <= ToStop(s))
  BY <1>13, DevAssumption DEF ChildReports, loopVars, endVars, boundVars,
          Waits, Over, ToStop, Stopper, StopState
<1>14. ASSUME NEW d \in Child, ChildExits(d)
      PROVE  Over' \/ (Waits(s)' /\ ToStop(s)' <= ToStop(s))
  BY <1>14, DevAssumption DEF ChildExits, Ends, Heard, loopVars, Waits, Over,
          ToStop, Stopper, StopState
<1>15. ASSUME NEW d \in Child, ChildKilled(d)
      PROVE  Over' \/ (Waits(s)' /\ ToStop(s)' <= ToStop(s))
  BY <1>15, DevAssumption DEF ChildKilled, Ends, Heard, loopVars, Waits, Over,
          ToStop, Stopper, StopState
<1>16. CASE UNCHANGED vars
  BY <1>16, DevAssumption DEF vars, childVars, loopVars, endVars, boundVars,
          Waits, Over, ToStop, Stopper, StopState
<1> QED
  BY <1>1, <1>2, <1>3, <1>4, <1>5, <1>6, <1>7, <1>8, <1>9, <1>10, <1>11,
          <1>12, <1>13, <1>14, <1>15, <1>16 DEF Next

(* The timer, the kill and the end each take it further.                   *)
LEMMA EndingHelps ==
    ASSUME IInv, AwaitInv, NEW s \in {"close", "fatal"}, Waits(s)
    PROVE  /\ GraceOver(s) => ToStop(s)' < ToStop(s)
           /\ IsKilled /\ ToStop(s) = 2 => ToStop(s)' < ToStop(s)
           /\ Ended => Over'
<1>a. /\ pc = "idle" /\ closed /\ result = "open" /\ stop[s].phase # "none"
      /\ stop \in [Stopper -> StopState] /\ s \in Stopper
  BY DEF IInv, Waits, Over, LoopInv, TypeOK, StopState, Stopper
<1>1. ASSUME GraceOver(s) PROVE ToStop(s)' < ToStop(s)
  BY <1>a, <1>1 DEF GraceOver, ToStop, StopState
<1>2. ASSUME IsKilled, ToStop(s) = 2 PROVE ToStop(s)' < ToStop(s)
  <2>1. PICK c \in Child : Signalled(c, "kill") /\ ChildKilled(c)
    BY <1>2 DEF IsKilled
  <2>2. stop[s].phase = "kill"
    BY <1>a, <1>2 DEF ToStop, StopState
  <2>3. stop[s].child = c
    BY <1>a, <2>1, <2>2 DEF IInv, HandsInv, EndingInv, ChildKilled, Stopping
  <2>4. stop' = Heard(c)
    BY <1>a, <2>1 DEF ChildKilled, Ends
  <2>5. stop'[s].phase = "done"
    BY <1>a, <2>2, <2>3, <2>4 DEF Heard, StopState
  <2> QED BY <2>2, <2>5 DEF ToStop
<1>3. ASSUME Ended PROVE Over'
  BY <1>3 DEF Ended, Over
<1> QED BY <1>1, <1>2, <1>3

(* So each phase of the stop() is left.                                    *)
LEMMA StopTaken ==
    ASSUME NEW s \in {"close", "fatal"}, NEW j \in 1..3
    PROVE  FairSpec /\ []NobodyWaitsInVain => EndsFrom(s, j)
<1>1. Inv /\ Ending(s, j) /\ [Next]_vars => Ending(s, j)' \/ EndNears(s, j)'
  <2> SUFFICES ASSUME Inv, Ending(s, j), [Next]_vars
               PROVE  Ending(s, j)' \/ EndNears(s, j)'
    OBVIOUS
  <2>1. Over' \/ (Waits(s)' /\ ToStop(s)' <= j)
    BY EndingFalls DEF Ending, Inv
  <2>2. ToStop(s)' \in 1..3
    BY DEF ToStop
  <2> QED BY <2>1, <2>2 DEF Ending, EndNears
<1>2. CASE j = 3
  <2>0. GraceOver(s) => Next
    BY DEF Next, Stopper
  <2>1. Inv /\ Ending(s, j) /\ <<GraceOver(s)>>_vars => EndNears(s, j)'
    BY <2>0, EndingHelps, EndingFalls DEF Ending, EndNears, Inv
  <2>2. Inv /\ NobodyWaitsInVain /\ Ending(s, j) => ENABLED <<GraceOver(s)>>_vars
    BY <1>2 DEF NobodyWaitsInVain, Ending, Waits, Over, ToStop, Stopper
  <2>3. TimersFair => GraceFair(s)
    BY EachTimerIsFair DEF Stopper
  <2> QED BY <1>1, <2>1, <2>2, <2>3, InvHolds, FairParts, PTL DEF Spec, EndsFrom, GraceFair
<1>3. CASE j = 2
  <2>0. IsKilled => Next
    BY DEF Next, IsKilled
  <2>1. Inv /\ Ending(s, j) /\ <<IsKilled>>_vars => EndNears(s, j)'
    BY <1>3, <2>0, EndingHelps, EndingFalls DEF Ending, EndNears, Inv
  <2>2. Inv /\ NobodyWaitsInVain /\ Ending(s, j) => ENABLED <<IsKilled>>_vars
    BY <1>3 DEF NobodyWaitsInVain, Ending, Waits, Over, ToStop, Stopper
  <2> QED BY <1>1, <2>1, <2>2, InvHolds, FairParts, PTL DEF Spec, EndsFrom
<1>4. CASE j = 1
  <2>1. Inv /\ Ending(s, j) /\ <<Ended>>_vars => EndNears(s, j)'
    BY EndingHelps DEF Ending, EndNears, Inv
  <2>2. Inv /\ NobodyWaitsInVain /\ Ending(s, j) => ENABLED <<Ended>>_vars
    BY <1>4 DEF Inv, IInv, TypeOK, NobodyWaitsInVain, Ending, Waits, Over, ToStop, Stopper
  <2> QED BY <1>1, <2>1, <2>2, InvHolds, FairParts, PTL DEF Spec, EndsFrom
<1> QED BY <1>2, <1>3, <1>4

StopEnds(s) == Waits(s) ~> Over

(* And the last one is the end of the command.                             *)
LEMMA StopIsTheEnd ==
    ASSUME NEW s \in {"close", "fatal"}
    PROVE  FairSpec /\ []NobodyWaitsInVain => StopEnds(s)
<1>1. FairSpec /\ []NobodyWaitsInVain => EndsFrom(s, 3) /\ EndsFrom(s, 2) /\ EndsFrom(s, 1)
  BY StopTaken
<1>2. Waits(s) => Ending(s, 3) \/ Ending(s, 2) \/ Ending(s, 1)
  BY DEF Ending, ToStop
<1>3. /\ EndNears(s, 3) => Over \/ Ending(s, 2) \/ Ending(s, 1)
      /\ EndNears(s, 2) => Over \/ Ending(s, 1)
      /\ EndNears(s, 1) => Over
  BY DEF EndNears, Ending, ToStop
<1> QED BY <1>1, <1>2, <1>3, PTL DEF EndsFrom, StopEnds

(* Once the session is closed, by close() or by a failure, the command     *)
(* ends, unless stop() waits for a child that died of a signal.            *)
THEOREM EveryEndingEnds ==
    FairSpec /\ []NobodyWaitsInVain => EndingsEnd
<1>1. FairSpec /\ []NobodyWaitsInVain => StopEnds("close") /\ StopEnds("fatal")
  BY StopIsTheEnd
<1>2. Inv /\ closed => Over \/ Waits("close") \/ Waits("fatal")
  BY DEF Inv, IInv, TypeOK, AwaitInv, EndingAwaits, Waits, Over
<1>3. Over => result # "open" \/ Deaf
  BY DEF Over
<1> QED BY <1>1, <1>2, <1>3, InvHolds, PTL DEF StopEnds, EndingsEnd

-----------------------------------------------------------------------------
(* From some time on the watcher reports no change.  MaxChanges sees to it *)
(* in the model; the code needs it, for a loop that finds a pending change *)
(* whenever it looks goes on.                                              *)
ChangesStop == <>[][version' = version]_vars

LEMMA NothingBecomesPending ==
    ASSUME TypeOK, [Next]_vars, version' = version, ~pending
    PROVE  ~pending'
<1>1. ~Change
  BY DEF TypeOK, Change
<1>2. CASE Close \/ Ended \/ \E s \in Stopper : GraceOver(s)
  BY <1>2 DEF Close, Ended, GraceOver, loopVars
<1>3. CASE LoopStep
  BY <1>3 DEF LoopStep, OldStopped, Spawn, PrepareFails, ReadySettles, Healthy, Unhealthy,
     Discarded, Discard, Throw, Adopt, Again, TakePending
<1>4. CASE \E c \in Child : ChildUp(c) \/ ChildReports(c) \/ ChildExits(c) \/ ChildKilled(c)
  BY <1>4 DEF ChildUp, ChildReports, ChildExits, ChildKilled, Ends, loopVars
<1>5. CASE UNCHANGED vars
  BY <1>5 DEF vars, loopVars
<1> QED BY <1>1, <1>2, <1>3, <1>4, <1>5 DEF Next, LoopStep

(* Once changes stop, every restart comes to an end, on every path of      *)
(* failures, and every ending of the session ends the command: the pass    *)
(* under way ends, a pending change is taken once, and the next pass is    *)
(* the last one.                                                           *)
THEOREM RestartsAndEndingsComeToAnEnd ==
    FairSpec /\ []NobodyWaitsInVain /\ ChangesStop => RestartsAndEndingsEnd
<1> DEFINE Done == loop = "none" \/ result # "open" \/ Deaf
<1>1. FairSpec /\ []NobodyWaitsInVain => PassEnds(TRUE) /\ PassEnds(FALSE)
  BY PassesEnd
<1>2. Inv /\ ~pending /\ [Next]_vars /\ version' = version => ~pending'
  BY NothingBecomesPending DEF Inv, IInv
<1>3. Inv /\ ~pending /\ UNCHANGED vars => ~pending'
  BY DEF vars, loopVars
<1>4. /\ Inv /\ Turned(TRUE) => Done \/ ~pending
      /\ Inv /\ Turned(FALSE) => Done \/ pending
      /\ Inv /\ ~Done /\ ~pending => loop # "none" /\ pending = FALSE
      /\ Inv /\ ~Done /\ pending => loop # "none" /\ pending = TRUE
  <2>1. Inv => pending \in BOOLEAN
    BY DEF Inv, IInv, TypeOK
  <2> QED BY <2>1, Zenon DEF Turned, Over
<1>5. FairSpec => [][Next]_vars
  BY PTL DEF FairSpec, Spec
<1> HIDE DEF Done
<1>6. FairSpec /\ []NobodyWaitsInVain /\ ChangesStop => (loop # "none" ~> Done)
  BY <1>1, <1>2, <1>3, <1>4, <1>5, InvHolds, PTL DEF PassEnds, ChangesStop
<1>7. FairSpec /\ []NobodyWaitsInVain /\ ChangesStop => RestartsEnd
  BY <1>6, PTL DEF Done, RestartsEnd
<1> QED BY <1>7, EveryEndingEnds, PTL DEF RestartsAndEndingsEnd

=============================================================================
