----------------------------- MODULE DevSession -----------------------------
(***************************************************************************)
(* b4 dev (packages/cli/src/lib/dev/dev-session.ts, dev-child.ts): the     *)
(* parent watches the app and runs the server in a child process that it   *)
(* replaces when a file changes.                                           *)
(*                                                                         *)
(* One loop at a time runs startOrRestart, from start() or from            *)
(* requestRestart(); its awaits are the values of pc. close() or           *)
(* failFatal() ends the session, and the command then exits the parent     *)
(* process, wherever the loop is. A file is its version: the number of     *)
(* relevant changes so far. Every child of a session has the same port.    *)
(***************************************************************************)
EXTENDS Naturals, FiniteSets

CONSTANTS
    Child,          \* the processes, numbered in the order they are spawned
    NoChild,        \* no process
    MaxChanges,     \* bound: the changes the watcher reports
    MaxKills        \* bound: the children that somebody else kills

ASSUME DevAssumption ==
    /\ Child \subseteq Nat /\ NoChild \notin Child
    /\ MaxChanges \in Nat /\ MaxKills \in Nat

VARIABLES
    proc,       \* proc[c]: "none", "starting", "up", "exited" (a code) or "killed" (a signal)
    ready,      \* ready[c]: "pending", "ready", "failed", "inuse"; what waitForReady settles to
    built,      \* built[c]: the version of the sources when c was spawned
    stop,       \* stop[s]: the stop() that s, the loop or the ending, awaits
    current,    \* currentChild
    mine,       \* the child the loop starts
    loop,       \* who runs startOrRestart: "none", "start", "restart" (restartInFlight)
    pc,         \* where: "idle", "stopOld", "prepare", "waitReady", "waitHealth", "discard"
    pending,    \* pendingRestart
    everReady,  \* hasBeenReady
    closed,     \* closed
    result,     \* what the command ends with: "open", "resolved", "rejected"
    version,    \* the changes so far
    kills       \* the children somebody else killed

childVars == <<proc, ready, built>>
loopVars == <<mine, loop, pc, pending, everReady>>
endVars == <<closed, result>>
boundVars == <<version, kills>>
vars == <<childVars, stop, current, loopVars, endVars, boundVars>>

Stopper == {"loop", "close", "fatal"}
NotStopping == [child |-> NoChild, phase |-> "none"]

Init ==
    /\ proc = [c \in Child |-> "none"]
    /\ ready = [c \in Child |-> "pending"]
    /\ built = [c \in Child |-> 0]
    /\ stop = [s \in Stopper |-> NotStopping]
    /\ current = NoChild /\ mine = NoChild
    /\ loop = "start" /\ pc = "prepare"
    /\ pending = FALSE /\ everReady = FALSE
    /\ closed = FALSE /\ result = "open"
    /\ version = 0 /\ kills = 0

Alive(c) == c \in Child /\ proc[c] \in {"starting", "up"}

-----------------------------------------------------------------------------
(* stop(): a child with an exit code is stopped already; any other gets    *)
(* SIGTERM, then SIGKILL when the grace window is over, and stop() awaits  *)
(* its close event. A child that died of a signal has no exit code, and    *)
(* its close event is in the past. Mutant: the exit code is not looked at. *)
StopAlways(c) == [child |-> c, phase |-> "term"]
Stop(c) == [child |-> c, phase |-> IF proc[c] = "exited" THEN "done" ELSE "term"]
(* Mutant: SIGKILL is not awaited.                                         *)
GraceOverForced(s) ==
    /\ stop[s].phase = "term" /\ result = "open"
    /\ stop' = [stop EXCEPT ![s].phase = "done"]
    /\ UNCHANGED <<childVars, current, loopVars, endVars, boundVars>>
GraceOver(s) ==
    /\ stop[s].phase = "term" /\ result = "open"
    /\ stop' = [stop EXCEPT ![s].phase = "kill"]
    /\ UNCHANGED <<childVars, current, loopVars, endVars, boundVars>>

Signalled(c, phase) == \E s \in Stopper : stop[s] = [child |-> c, phase |-> phase]

(* The close event of c, for the calls of stop() that listen.              *)
Heard(c) == [s \in Stopper |-> IF stop[s].child = c /\ stop[s].phase \in {"term", "kill"}
                               THEN [stop[s] EXCEPT !.phase = "done"] ELSE stop[s]]

(* The end of c. waitForReady rejects if it has not settled, and a child   *)
(* that had been ready and serves the session takes it down: failFatal     *)
(* stops the child first, and reports the exit when stop() returns.        *)
Ends(c, how) ==
    /\ proc' = [proc EXCEPT ![c] = how]
    /\ ready' = [ready EXCEPT ![c] = IF @ = "pending" THEN "failed" ELSE @]
    /\ IF current = c /\ ~closed
       THEN /\ closed' = TRUE /\ current' = NoChild
            /\ stop' = [stop EXCEPT !["fatal"] =
                            [child |-> c, phase |-> IF how = "exited" THEN "done" ELSE "term"]]
       ELSE /\ stop' = Heard(c)
            /\ UNCHANGED <<closed, current>>
    /\ UNCHANGED <<built, loopVars, result, version>>

(* The process: it serves once it has the port, which no other child may   *)
(* hold; it reports why it cannot start, the port taken or anything else;  *)
(* it exits by itself or by its SIGTERM handler, which it has only once it *)
(* is up; a signal kills it otherwise.                                     *)
ChildUp(c) ==
    /\ proc[c] = "starting" /\ ready[c] = "pending" /\ ~Signalled(c, "term")
    /\ \A d \in Child : proc[d] # "up"
    /\ proc' = [proc EXCEPT ![c] = "up"]
    /\ ready' = [ready EXCEPT ![c] = "ready"]
    /\ UNCHANGED <<built, stop, current, loopVars, endVars, boundVars>>

ChildReports(c) ==
    /\ proc[c] = "starting" /\ ready[c] = "pending"
    /\ \E why \in {"failed", "inuse"} : ready' = [ready EXCEPT ![c] = why]
    /\ UNCHANGED <<proc, built, stop, current, loopVars, endVars, boundVars>>

ChildExits(c) ==
    /\ Alive(c)
    /\ Ends(c, "exited") /\ UNCHANGED kills

ChildKilled(c) ==
    /\ Alive(c)
    /\ \/ Signalled(c, "kill") /\ UNCHANGED kills
       \/ Signalled(c, "term") /\ proc[c] = "starting" /\ UNCHANGED kills
       \/ kills < MaxKills /\ kills' = kills + 1
    /\ Ends(c, "killed")

-----------------------------------------------------------------------------
(* startOrRestart, up to its first await: stop the child that serves, if   *)
(* there is one, then validate the app and generate its types.             *)
StartOrRestart(child) ==
    /\ current' = NoChild /\ mine' = NoChild
    /\ pc' = IF child = NoChild THEN "prepare" ELSE "stopOld"
    /\ stop' = [stop EXCEPT !["loop"] = IF child = NoChild THEN NotStopping ELSE Stop(child)]

LoopEnds(child) ==
    /\ loop' = "none" /\ pc' = "idle"
    /\ current' = child /\ mine' = NoChild

(* Mutant: a change during a restart is forgotten when the restart ends    *)
(* well (pendingRestart is reset after startOrRestart).                    *)
AgainForgetful == FALSE
(* The loops of start() and requestRestart() after startOrRestart: once    *)
(* more if a change came in meanwhile.                                     *)
Again == pending /\ ~closed

TakePending == pending' = FALSE

(* The loop's child serves. If it has ended since it answered, its exit is *)
(* noticed as soon as the loop lets go of it.                              *)
Adopt ==
    /\ everReady' = TRUE
    /\ IF Again
       THEN TakePending /\ StartOrRestart(mine) /\ UNCHANGED <<loop, endVars>>
       ELSE IF Alive(mine) \/ closed
            THEN LoopEnds(mine) /\ UNCHANGED <<pending, stop, endVars>>
            ELSE /\ LoopEnds(NoChild)
                 /\ closed' = TRUE
                 /\ stop' = [stop EXCEPT !["fatal"] = Stop(mine)]
                 /\ UNCHANGED <<pending, result>>

(* startOrRestart threw. start() rejects and the command ends with it; a   *)
(* restart ends the session if the error is fatal or nothing was ever      *)
(* ready, and otherwise waits for the change that mends it.                *)
Throw(fatal) ==
    /\ UNCHANGED everReady
    /\ IF loop = "start"
       THEN LoopEnds(NoChild) /\ result' = "rejected" /\ UNCHANGED <<pending, closed>>
            /\ stop' = [stop EXCEPT !["loop"] = NotStopping]
       ELSE IF fatal \/ ~everReady
       THEN /\ LoopEnds(NoChild)
            /\ closed' = TRUE
            /\ result' = IF closed THEN result ELSE "rejected"
            /\ stop' = [stop EXCEPT !["loop"] = NotStopping]
            /\ UNCHANGED pending
       ELSE /\ UNCHANGED endVars
            /\ IF Again
               THEN TakePending /\ StartOrRestart(NoChild) /\ UNCHANGED loop
               ELSE LoopEnds(NoChild) /\ UNCHANGED pending
                    /\ stop' = [stop EXCEPT !["loop"] = NotStopping]

(* onChange: a file that matters (classifyChange) has changed. A loop that *)
(* runs is told; otherwise one begins.                                     *)
Change ==
    /\ ~closed /\ result = "open" /\ version < MaxChanges
    /\ version' = version + 1
    /\ IF loop # "none"
       THEN pending' = TRUE /\ UNCHANGED <<stop, current, mine, loop, pc>>
       ELSE loop' = "restart" /\ pending' = FALSE /\ StartOrRestart(current)
    /\ UNCHANGED <<childVars, everReady, endVars, kills>>

OldStopped ==
    /\ pc = "stopOld" /\ result = "open" /\ stop["loop"].phase = "done"
    /\ pc' = "prepare"
    /\ stop' = [stop EXCEPT !["loop"] = NotStopping]
    /\ UNCHANGED <<childVars, current, mine, loop, pending, everReady, endVars, boundVars>>

(* validateWatchedAppRoot and runTypegenSafe are done: spawn a child.      *)
Spawn ==
    /\ pc = "prepare" /\ result = "open"
    /\ \E c \in Child :
        /\ proc[c] = "none" /\ \A d \in Child : d < c => proc[d] # "none"
        /\ proc' = [proc EXCEPT ![c] = "starting"]
        /\ built' = [built EXCEPT ![c] = version]
        /\ mine' = c
    /\ pc' = "waitReady"
    /\ UNCHANGED <<ready, stop, current, loop, pending, everReady, endVars, boundVars>>

(* The app cannot be loaded, or its routes lie outside it (fatal).         *)
PrepareFails ==
    /\ pc = "prepare" /\ result = "open"
    /\ \E fatal \in BOOLEAN : Throw(fatal)
    /\ UNCHANGED <<childVars, boundVars>>

Discard ==
    /\ pc' = "discard"
    /\ stop' = [stop EXCEPT !["loop"] = Stop(mine)]
    /\ UNCHANGED <<childVars, current, mine, loop, pending, everReady, endVars, boundVars>>

ReadySettles ==
    /\ pc = "waitReady" /\ result = "open"
    /\ \/ /\ ready[mine] = "ready"
          /\ pc' = "waitHealth"
          /\ UNCHANGED <<childVars, stop, current, mine, loop, pending, everReady, endVars, boundVars>>
       \/ ready[mine] \in {"failed", "inuse"} /\ Discard

(* waitForDevServerReady: the child answered, and may have ended since; or *)
(* it did not in time.                                                     *)
Healthy ==
    /\ pc = "waitHealth" /\ result = "open"
    /\ Adopt
    /\ UNCHANGED <<childVars, boundVars>>

Unhealthy == pc = "waitHealth" /\ result = "open" /\ Discard

Discarded ==
    /\ pc = "discard" /\ result = "open" /\ stop["loop"].phase = "done"
    /\ Throw(ready[mine] = "inuse")
    /\ UNCHANGED <<childVars, boundVars>>

(* Mutant: close() does not await stop().                                  *)
CloseHasty ==
    /\ ~closed /\ result = "open" /\ everReady /\ loop # "start"
    /\ closed' = TRUE /\ result' = "resolved"
    /\ UNCHANGED <<childVars, stop, current, loopVars, boundVars>>
(* The signal handlers of the command, once start() has returned: close()  *)
(* stops the child the session has at that moment.                         *)
Close ==
    /\ ~closed /\ result = "open" /\ everReady /\ loop # "start"
    /\ closed' = TRUE
    /\ current' = NoChild
    /\ IF current = NoChild
       THEN result' = "resolved" /\ UNCHANGED stop
       ELSE stop' = [stop EXCEPT !["close"] = Stop(current)] /\ UNCHANGED result
    /\ UNCHANGED <<childVars, loopVars, boundVars>>

Ended ==
    /\ result = "open"
    /\ \/ stop["close"].phase = "done" /\ result' = "resolved"
       \/ stop["fatal"].phase = "done" /\ result' = "rejected"
    /\ UNCHANGED <<childVars, stop, current, loopVars, closed, boundVars>>

LoopStep == OldStopped \/ Spawn \/ PrepareFails \/ ReadySettles \/ Healthy \/ Unhealthy \/ Discarded

Next ==
    \/ Change \/ Close \/ Ended
    \/ \E s \in Stopper : GraceOver(s)
    \/ OldStopped \/ Spawn \/ PrepareFails \/ ReadySettles \/ Healthy \/ Unhealthy \/ Discarded
    \/ \E c \in Child : ChildUp(c) \/ ChildReports(c) \/ ChildExits(c) \/ ChildKilled(c)

Spec == Init /\ [][Next]_vars

(* One child lives at a time (OneChild): it comes up or ends; or it got    *)
(* SIGKILL and ends.                                                       *)
ComesUp == \E c \in Child : ChildUp(c) \/ (proc[c] = "starting" /\ ChildExits(c))
IsKilled == \E c \in Child : Signalled(c, "kill") /\ ChildKilled(c)

(* The parent's steps and its timers, and the child. It may ignore SIGTERM.*)
GraceFair(s) == WF_vars(GraceOver(s))
TimersFair == \A s \in Stopper : GraceFair(s)
Fairness ==
    /\ WF_vars(LoopStep) /\ WF_vars(Ended) /\ TimersFair
    /\ WF_vars(ComesUp) /\ WF_vars(IsKilled)

FairSpec == Spec /\ Fairness

-----------------------------------------------------------------------------
TypeOK ==
    /\ proc \in [Child -> {"none", "starting", "up", "exited", "killed"}]
    /\ ready \in [Child -> {"pending", "ready", "failed", "inuse"}]
    /\ built \in [Child -> 0..MaxChanges]
    /\ stop \in [Stopper -> [child : Child \cup {NoChild}, phase : {"none", "term", "kill", "done"}]]
    /\ current \in Child \cup {NoChild} /\ mine \in Child \cup {NoChild}
    /\ loop \in {"none", "start", "restart"}
    /\ pc \in {"idle", "stopOld", "prepare", "waitReady", "waitHealth", "discard"}
    /\ pending \in BOOLEAN /\ everReady \in BOOLEAN /\ closed \in BOOLEAN
    /\ result \in {"open", "resolved", "rejected"}
    /\ version \in 0..MaxChanges /\ kills \in 0..MaxKills

(* A child is spawned only when every earlier one has ended, so the port   *)
(* is free: stop() returns only then, on the serving child and on one that *)
(* did not start (dev-session.ts:242, :273).                               *)
OneChild == \A c, d \in Child : Alive(c) /\ Alive(d) => c = d

(* Between restarts, the child that serves was built from the newest       *)
(* sources, however the changes fell into the restarts before.             *)
ServesTheLatest ==
    loop = "none" /\ current # NoChild => built[current] = version

(* When the command ends, no child lives on, unless it ended in the middle *)
(* of a restart: then close() finds no current child (the one being        *)
(* stopped or started is in the loop's hands only).                        *)
OnlyARestartLeavesAChild ==
    result # "open" /\ loop = "none" => \A c \in Child : ~Alive(c)

(* stop() waits for a close event that has been emitted (dev-child.ts:249: *)
(* a child that died of a signal has no exit code).                        *)
Deaf == \E s \in Stopper : stop[s].phase \in {"term", "kill"} /\ proc[stop[s].child] = "killed"

(* Nobody waits for what cannot come: a timer, a close event, a child that *)
(* reports, or the session's next step, on every path of failures, unless  *)
(* stop() was called on a child that died of a signal.                     *)
NobodyWaitsInVain ==
    result = "open" /\ ~Deaf =>
        /\ \A s \in Stopper :
             /\ stop[s].phase = "term" => ENABLED <<GraceOver(s)>>_vars
             /\ stop[s].phase = "kill" => ENABLED <<IsKilled>>_vars
        /\ stop["close"].phase = "done" \/ stop["fatal"].phase = "done" => ENABLED <<Ended>>_vars
        /\ pc \in {"prepare", "waitHealth"} \/ stop["loop"].phase = "done" =>
             ENABLED <<LoopStep>>_vars
        /\ pc = "waitReady" => IF ready[mine] = "pending" THEN ENABLED <<ComesUp>>_vars
                                                          ELSE ENABLED <<LoopStep>>_vars

(* Every restart comes to an end, whatever changes come in meanwhile.      *)
RestartsEnd == loop # "none" ~> loop = "none" \/ result # "open" \/ Deaf

(* Every ending of the session ends the command.                           *)
EndingsEnd == closed ~> result # "open" \/ Deaf

(* Neither a restart nor an ending hangs, on any path of failures, unless  *)
(* stop() was called on a child that died of a signal.                     *)
RestartsAndEndingsEnd == RestartsEnd /\ EndingsEnd

=============================================================================
