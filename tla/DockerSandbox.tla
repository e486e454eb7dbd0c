--------------------------- MODULE DockerSandbox ---------------------------
(***************************************************************************)
(* The keeper container of one thread                                      *)
(* (packages/sandbox/src/docker/docker-sandbox.ts), the commands that run  *)
(* in it and their recovery when the container is out of PIDs              *)
(* (docker-exec.ts, docker-filesystem.ts), over the gate that FairLine     *)
(* specifies and KeyedGate implements.                                     *)
(*                                                                         *)
(* A lifecycle state is named by the acquire that created it, a keeper by  *)
(* a number.  The workspace volume is not modelled.                        *)
(***************************************************************************)
EXTENDS Naturals, Sequences

CONSTANTS
    Cmd,        \* the commands and filesystem operations
    Acquirer,   \* the calls of acquire
    Remover,    \* the calls of release and destroy
    Config,     \* the launch configurations
    NoState,
    MaxKeepers  \* bound: the containers created

Recovery(c) == <<"recover", c>>
(* Mutant: a recovery takes the shared lease of a command.                 *)
LifecycleWithoutRecovery == Acquirer \cup Remover
(* The operations submitted with runExclusive.                             *)
Lifecycle == Acquirer \cup Remover \cup {Recovery(c) : c \in Cmd}

ASSUME DockerAssumption ==
    /\ NoState \notin Acquirer /\ MaxKeepers \in Nat
    /\ Cmd \cap Lifecycle = {} /\ Acquirer \cap Remover = {}
    /\ \A c \in Cmd : Recovery(c) \notin Acquirer \cup Remover

VARIABLES
    line,       \* the gate's line
    mapped,     \* lifecycleStates.get(threadId), or NoState
    gen,        \* gen[s]: state.generation
    conf,       \* conf[a]: the launch configuration a asks for; its state's, too
    keeper,     \* the container with the thread's name
    made,       \* how many containers were created
    acq,        \* acq[a]: "new", "line", "creating", "ready", "failed", "gone"
    stateOf,    \* stateOf[a]: the state the handle of a closes over
    rem,        \* rem[r]: "new", "line", "removing", "done", "gone"
    cmd,        \* cmd[c]: see Phases
    handle,     \* handle[c]: the acquire whose handle c is run on
    token,      \* token[c]: the generation captured with the first attempt
    seen,       \* seen[c]: the keeper of the first attempt
    again,      \* again[c]: the keeper of the retry
    recovered   \* history: the states and generations a recovery removed

Gate == INSTANCE FairLine WITH Shared <- Cmd, Exclusive <- Lifecycle

cmdVars == <<cmd, handle, token, seen, again>>
acqVars == <<acq, conf, stateOf>>
keeperVars == <<keeper, made>>
stateVars == <<mapped, gen, recovered>>
vars == <<line, stateVars, keeperVars, acqVars, rem, cmdVars>>

Phases == {"new", "line", "executing", "refused", "recovering", "recreating",
           "retrying", "again", "done", "gone"}

NoKeeper == [at |-> 0, owner |-> NoState, up |-> FALSE, full |-> FALSE]

Init ==
    /\ line = <<>>
    /\ mapped = NoState
    /\ gen = [a \in Acquirer |-> 0]
    /\ conf \in [Acquirer -> Config]
    /\ keeper = NoKeeper /\ made = 0
    /\ acq = [a \in Acquirer |-> "new"]
    /\ stateOf = [a \in Acquirer |-> NoState]
    /\ rem = [r \in Remover |-> "new"]
    /\ cmd = [c \in Cmd |-> "new"]
    /\ handle = [c \in Cmd |-> NoState]
    /\ token = [c \in Cmd |-> 0]
    /\ seen = [c \in Cmd |-> 0]
    /\ again = [c \in Cmd |-> 0]
    /\ recovered = {}

-----------------------------------------------------------------------------
(* The container.  A command's processes may use up its PIDs and may give  *)
(* them back; its main process may die.                                    *)
Fills ==
    /\ keeper.up /\ ~keeper.full
    /\ keeper' = [keeper EXCEPT !.full = TRUE]
    /\ UNCHANGED <<line, stateVars, made, acqVars, rem, cmdVars>>

Recedes ==
    /\ keeper.full
    /\ keeper' = [keeper EXCEPT !.full = FALSE]
    /\ UNCHANGED <<line, stateVars, made, acqVars, rem, cmdVars>>

Dies ==
    /\ keeper.up
    /\ keeper' = [keeper EXCEPT !.up = FALSE, !.full = FALSE]
    /\ UNCHANGED <<line, stateVars, made, acqVars, rem, cmdVars>>

(* docker rm -f.                                                           *)
Gone == keeper' = NoKeeper /\ made' = made

(* docker run succeeds for state s.                                        *)
Creates(s) ==
    /\ made < MaxKeepers
    /\ made' = made + 1
    /\ keeper' = [at |-> made + 1, owner |-> s, up |-> TRUE, full |-> FALSE]

(* docker run fails or is aborted, with or without a container to show.    *)
CreateFails(s) == Creates(s) \/ Gone

-----------------------------------------------------------------------------
(* acquire.                                                                *)
SubmitAcquire(a) ==
    /\ acq[a] = "new"
    /\ acq' = [acq EXCEPT ![a] = "line"]
    /\ Gate!Submit(a)
    /\ UNCHANGED <<stateVars, keeperVars, conf, stateOf, rem, cmdVars>>

Starts(a) == acq[a] = "line" /\ Gate!Runs(a)

StateFor(a) == IF mapped = NoState THEN a ELSE mapped
Mismatch(a) == mapped # NoState /\ conf[mapped] # conf[a]

AcquireEnds(a, s) == acq' = [acq EXCEPT ![a] = s] /\ Gate!Settle(a)

(* Another configuration is refused; a docker call that fails or is        *)
(* aborted before the keeper is touched fails the acquire.                 *)
AcquireFails(a) ==
    /\ Starts(a)
    /\ AcquireEnds(a, "failed")
    /\ UNCHANGED <<stateVars, keeperVars, conf, stateOf, rem, cmdVars>>

(* Mutant: whatever has the name is reused.                                *)
ReusableByName(s) == keeper.at # 0
(* A keeper is reused only within a lifecycle of this provider, with the   *)
(* identity it was created with.                                           *)
Reusable(s) == mapped = s /\ keeper.at # 0 /\ conf[keeper.owner] = conf[s]

(* The keeper is running, or docker start brings it up.                    *)
AcquireReuses(a) ==
    LET s == StateFor(a) IN
    /\ Starts(a) /\ ~Mismatch(a) /\ Reusable(s)
    /\ keeper' = [keeper EXCEPT !.up = TRUE]
    /\ mapped' = s
    /\ stateOf' = [stateOf EXCEPT ![a] = s]
    /\ AcquireEnds(a, "ready")
    /\ UNCHANGED <<gen, recovered, made, conf, rem, cmdVars>>

(* There is no keeper, it is not reusable, or the inspection failed: what  *)
(* has the name is removed.                                                *)
AcquireRemoves(a) ==
    /\ Starts(a) /\ ~Mismatch(a)
    /\ Gone
    /\ acq' = [acq EXCEPT ![a] = "creating"]
    /\ UNCHANGED <<line, stateVars, conf, stateOf, rem, cmdVars>>

AcquireCreates(a) ==
    LET s == StateFor(a) IN
    /\ acq[a] = "creating"
    /\ Creates(s)
    /\ mapped' = s
    /\ stateOf' = [stateOf EXCEPT ![a] = s]
    /\ AcquireEnds(a, "ready")
    /\ UNCHANGED <<gen, recovered, conf, rem, cmdVars>>

AcquireCreateFails(a) ==
    /\ acq[a] = "creating"
    /\ CreateFails(StateFor(a))
    /\ AcquireEnds(a, "failed")
    /\ UNCHANGED <<stateVars, conf, stateOf, rem, cmdVars>>

-----------------------------------------------------------------------------
(* release and destroy: the state is forgotten first, and a docker rm that *)
(* fails is not told.                                                      *)
SubmitRemove(r) ==
    /\ rem[r] = "new"
    /\ rem' = [rem EXCEPT ![r] = "line"]
    /\ Gate!Submit(r)
    /\ UNCHANGED <<stateVars, keeperVars, acqVars, cmdVars>>

RemoveStarts(r) ==
    /\ rem[r] = "line" /\ Gate!Runs(r)
    /\ rem' = [rem EXCEPT ![r] = "removing"]
    /\ mapped' = NoState
    /\ UNCHANGED <<line, gen, recovered, keeperVars, acqVars, cmdVars>>

RemoveEnds(r) ==
    /\ rem[r] = "removing"
    /\ Gone \/ UNCHANGED keeperVars
    /\ rem' = [rem EXCEPT ![r] = "done"]
    /\ Gate!Settle(r)
    /\ UNCHANGED <<stateVars, acqVars, cmdVars>>

-----------------------------------------------------------------------------
(* A command: one attempt under a shared lease and, when docker could not  *)
(* start it for want of PIDs, a recovery and one retry.                    *)
Submit(c, a) ==
    /\ cmd[c] = "new" /\ acq[a] = "ready"
    /\ cmd' = [cmd EXCEPT ![c] = "line"]
    /\ handle' = [handle EXCEPT ![c] = a]
    /\ Gate!Submit(c)
    /\ UNCHANGED <<stateVars, keeperVars, acqVars, rem, token, seen, again>>

StateOf(c) == stateOf[handle[c]]

(* The token is captured under the lease, with the attempt.                *)
Attempt(c) ==
    /\ cmd[c] = "line" /\ Gate!Runs(c)
    /\ cmd' = [cmd EXCEPT ![c] = "executing"]
    /\ token' = [token EXCEPT ![c] = gen[StateOf(c)]]
    /\ seen' = [seen EXCEPT ![c] = keeper.at]
    /\ UNCHANGED <<line, stateVars, keeperVars, acqVars, rem, handle, again>>

(* The command ended, failed, timed out or was aborted.                    *)
AttemptEnds(c) ==
    /\ cmd[c] = "executing"
    /\ cmd' = [cmd EXCEPT ![c] = "done"]
    /\ Gate!Settle(c)
    /\ UNCHANGED <<stateVars, keeperVars, acqVars, rem, handle, token, seen, again>>

AttemptRefused(c) ==
    /\ cmd[c] = "executing" /\ keeper.full
    /\ cmd' = [cmd EXCEPT ![c] = "refused"]
    /\ Gate!Settle(c)
    /\ UNCHANGED <<stateVars, keeperVars, acqVars, rem, handle, token, seen, again>>

(* recoverAndRetry is called after the lease was given back.               *)
AskRecovery(c) ==
    /\ cmd[c] = "refused"
    /\ cmd' = [cmd EXCEPT ![c] = "recovering"]
    /\ Gate!Submit(Recovery(c))
    /\ UNCHANGED <<stateVars, keeperVars, acqVars, rem, handle, token, seen, again>>

Recovers(c) == cmd[c] = "recovering" /\ Gate!Runs(Recovery(c))
(* Mutant: the token of a retired lifecycle is taken for one of the        *)
(* current one.                                                            *)
CurrentByThread(c) == mapped # NoState
(* The token is one of the lifecycle that is in the map.                   *)
Current(c) == mapped = StateOf(c)
(* Another recovery has replaced the keeper the command was refused by.    *)
Replaced(c) == token[c] < gen[StateOf(c)]

(* A stale token: the command keeps its first result.                      *)
RecoverStale(c) ==
    /\ Recovers(c) /\ ~Current(c)
    /\ cmd' = [cmd EXCEPT ![c] = "done"]
    /\ Gate!Settle(Recovery(c))
    /\ UNCHANGED <<stateVars, keeperVars, acqVars, rem, handle, token, seen, again>>

RecoverReplaced(c) ==
    /\ Recovers(c) /\ Current(c) /\ Replaced(c)
    /\ cmd' = [cmd EXCEPT ![c] = "retrying"]
    /\ UNCHANGED <<line, stateVars, keeperVars, acqVars, rem, handle, token, seen, again>>

RecoverRemoves(c) ==
    /\ Recovers(c) /\ Current(c) /\ ~Replaced(c)
    /\ Gone
    /\ cmd' = [cmd EXCEPT ![c] = "recreating"]
    /\ recovered' = recovered \cup {<<StateOf(c), token[c]>>}
    /\ UNCHANGED <<line, mapped, gen, acqVars, rem, handle, token, seen, again>>

RetireState == NoState

RecoverRemoveFails(c) ==
    /\ Recovers(c) /\ Current(c) /\ ~Replaced(c)
    /\ mapped' = RetireState
    /\ cmd' = [cmd EXCEPT ![c] = "done"]
    /\ Gate!Settle(Recovery(c))
    /\ UNCHANGED <<gen, recovered, keeperVars, acqVars, rem, handle, token, seen, again>>

RecoverCreates(c) ==
    LET s == StateOf(c) IN
    /\ cmd[c] = "recreating"
    /\ Creates(s)
    /\ gen' = [gen EXCEPT ![s] = token[c] + 1]
    /\ cmd' = [cmd EXCEPT ![c] = "retrying"]
    /\ UNCHANGED <<line, mapped, recovered, acqVars, rem, handle, token, seen, again>>

RecoverCreateFails(c) ==
    /\ cmd[c] = "recreating"
    /\ CreateFails(StateOf(c))
    /\ mapped' = RetireState
    /\ cmd' = [cmd EXCEPT ![c] = "done"]
    /\ Gate!Settle(Recovery(c))
    /\ UNCHANGED <<gen, recovered, acqVars, rem, handle, token, seen, again>>

(* Mutant: the retry asks for a shared lease of its own.                   *)
MayRetryNested(c) == Gate!Runs(c)
(* The retry runs under the exclusive lease of the recovery.               *)
MayRetry(c) == Gate!Runs(Recovery(c))

Retry(c) ==
    /\ cmd[c] = "retrying" /\ MayRetry(c)
    /\ cmd' = [cmd EXCEPT ![c] = "again"]
    /\ again' = [again EXCEPT ![c] = keeper.at]
    /\ UNCHANGED <<line, stateVars, keeperVars, acqVars, rem, handle, token, seen>>

RetryEnds(c) ==
    /\ cmd[c] = "again"
    /\ cmd' = [cmd EXCEPT ![c] = "done"]
    /\ Gate!Settle(Recovery(c))
    /\ UNCHANGED <<stateVars, keeperVars, acqVars, rem, handle, token, seen, again>>

-----------------------------------------------------------------------------
(* The server restarts: the containers stay, the provider's memory goes.   *)
Lost(phase) == [x \in DOMAIN phase |-> IF phase[x] = "new" THEN "new" ELSE "gone"]

Restart ==
    /\ line' = <<>>
    /\ mapped' = NoState
    /\ acq' = Lost(acq) /\ rem' = Lost(rem) /\ cmd' = Lost(cmd)
    /\ UNCHANGED <<gen, recovered, keeperVars, conf, stateOf, handle, token, seen, again>>

CmdStep(c) ==
    \/ Attempt(c) \/ AttemptEnds(c) \/ AttemptRefused(c) \/ AskRecovery(c)
    \/ RecoverStale(c) \/ RecoverReplaced(c) \/ RecoverRemoves(c) \/ RecoverRemoveFails(c)
    \/ RecoverCreates(c) \/ RecoverCreateFails(c) \/ Retry(c) \/ RetryEnds(c)

AcquireStep(a) ==
    \/ AcquireFails(a) \/ AcquireReuses(a) \/ AcquireRemoves(a)
    \/ AcquireCreates(a) \/ AcquireCreateFails(a)

RemoveStep(r) == RemoveStarts(r) \/ RemoveEnds(r)

Next ==
    \/ Fills \/ Recedes \/ Dies \/ Restart
    \/ \E c \in Cmd : CmdStep(c) \/ \E a \in Acquirer : Submit(c, a)
    \/ \E a \in Acquirer : SubmitAcquire(a) \/ AcquireStep(a)
    \/ \E r \in Remover : SubmitRemove(r) \/ RemoveStep(r)

Spec == Init /\ [][Next]_vars

(* Every docker command that was started ends.                             *)
FairSpec ==
    /\ Spec
    /\ \A c \in Cmd : WF_vars(CmdStep(c))
    /\ \A a \in Acquirer : WF_vars(AcquireStep(a))
    /\ \A r \in Remover : WF_vars(RemoveStep(r))

-----------------------------------------------------------------------------
(* The state is well formed (DockerLifecycleState, DockerRecoveryAttempt). *)
TypeOK ==
    /\ mapped \in Acquirer \cup {NoState}
    /\ gen \in [Acquirer -> Nat] /\ conf \in [Acquirer -> Config]
    /\ keeper \in [at : Nat, owner : Acquirer \cup {NoState}, up : BOOLEAN, full : BOOLEAN]
    /\ made \in Nat /\ keeper.at <= made
    /\ keeper.up => keeper.at # 0
    /\ keeper.full => keeper.up
    /\ acq \in [Acquirer -> {"new", "line", "creating", "ready", "failed", "gone"}]
    /\ stateOf \in [Acquirer -> Acquirer \cup {NoState}]
    /\ rem \in [Remover -> {"new", "line", "removing", "done", "gone"}]
    /\ cmd \in [Cmd -> Phases] /\ handle \in [Cmd -> Acquirer \cup {NoState}]
    /\ token \in [Cmd -> Nat] /\ seen \in [Cmd -> Nat] /\ again \in [Cmd -> Nat]
    /\ recovered \subseteq Acquirer \X Nat

(* No keeper is removed or replaced under a command or a retry that docker *)
(* admitted to it; and commands that were refused together are recovered   *)
(* together: a generation of a lifecycle is torn down by one recovery.     *)
CommandsKeepTheirKeeper ==
    [][\A c \in Cmd :
         /\ cmd[c] \in {"executing", "again"} /\ cmd'[c] = cmd[c] => keeper'.at = keeper.at
         /\ cmd[c] = "recovering" /\ cmd'[c] = "recreating"
              => <<StateOf(c), token[c]>> \notin recovered]_vars

(* A retry never runs in the keeper that refused its command; and a late   *)
(* failure of a lifecycle that was released, or whose recovery failed,     *)
(* neither removes the keeper of the next one nor runs in it.              *)
RetryMeetsTheNextKeeper ==
    \A c \in Cmd :
        /\ cmd[c] = "again" => again[c] # seen[c]
        /\ cmd[c] \in {"recreating", "retrying", "again"} =>
             mapped = StateOf(c) /\ keeper.owner \in {StateOf(c), NoState}

(* What is served as a lifecycle's keeper was created by it: no container  *)
(* that a failed removal, a failed recovery or a restart left behind is    *)
(* adopted.                                                                *)
ServesItsOwnKeeper == mapped # NoState => keeper.owner \in {mapped, NoState}

(* Every command and every lifecycle call is answered.                     *)
CallsEnd ==
    /\ \A c \in Cmd : cmd[c] = "line" ~> cmd[c] \in {"done", "gone"}
    /\ \A a \in Acquirer : acq[a] = "line" ~> acq[a] \in {"ready", "failed", "gone"}
    /\ \A r \in Remover : rem[r] = "line" ~> rem[r] \in {"done", "gone"}
=============================================================================
