------------------------- MODULE DockerSandbox_proofs -------------------------
(***************************************************************************)
(* Proofs about DockerSandbox, for any commands, lifecycle calls and       *)
(* containers. That an exclusive operation runs alone is what the gate's   *)
(* line gives (RunsAlone, RunsOn); whatever relates a lifecycle state, the *)
(* container and a command then rests on one of them holding its lease.    *)
(***************************************************************************)
EXTENDS DockerSandbox, SandboxManager, SequenceTheorems, TLAPS

Op == Cmd \cup Lifecycle

(* An operation that runs beside an exclusive one is that one.             *)
LEMMA RunsAlone ==
    ASSUME line \in Seq(Op), NEW o \in Op, NEW e \in Lifecycle, Gate!Runs(o), Gate!Runs(e)
    PROVE  o = e
<1>1. PICK j \in 1..Len(line) : line[j] = o /\ \A i \in 1..(j - 1) : ~Gate!Conflict(line[i], o)
  BY DEF Gate!Runs, Gate!RunsAt
<1>2. PICK k \in 1..Len(line) : line[k] = e /\ \A i \in 1..(k - 1) : ~Gate!Conflict(line[i], e)
  BY DEF Gate!Runs, Gate!RunsAt
<1>3. ~(j < k) /\ ~(k < j)
  BY <1>1, <1>2 DEF Gate!Conflict
<1> QED
  BY <1>1, <1>2, <1>3

(* Two parts of a line, joined.                                            *)
LEMMA Joined ==
    \A a, b \in Seq(Op) :
        /\ a \o b \in Seq(Op) /\ Len(a \o b) = Len(a) + Len(b)
        /\ \A i \in 1..Len(a) : (a \o b)[i] = a[i]
        /\ \A i \in (Len(a) + 1)..Len(a \o b) : (a \o b)[i] = b[i - Len(a)]
<1> TAKE a, b \in Seq(Op)
<1>1. /\ a \o b \in Seq(Op) /\ Len(a \o b) = Len(a) + Len(b)
      /\ \A i \in 1..(Len(a) + Len(b)) :
           (a \o b)[i] = IF i <= Len(a) THEN a[i] ELSE b[i - Len(a)]
  BY ConcatProperties, Zenon
<1> QED
  BY <1>1

(* What is left when the operation at place j of the line has settled.     *)
LEMMA RemoveAtShifts ==
    ASSUME NEW q \in Seq(Op), NEW j \in 1..Len(q), NEW r, r = Gate!RemoveAt(q, j)
    PROVE  /\ r \in Seq(Op) /\ Len(r) = Len(q) - 1
           /\ \A i \in 1..(j - 1) : r[i] = q[i]
           /\ \A i \in j..(Len(q) - 1) : r[i] = q[i + 1]
<1> DEFINE a == SubSeq(q, 1, j - 1)
           b == SubSeq(q, j + 1, Len(q))
<1>1. /\ a \in Seq(Op) /\ Len(a) = j - 1
      /\ \A i \in 1..(j - 1) : a[i] = q[i]
  <2>1. \A i \in 1..(j - 1) : q[i] \in Op
    OBVIOUS
  <2> QED
    BY <2>1, SubSeqProperties
<1>2. /\ b \in Seq(Op) /\ Len(b) = Len(q) - j
      /\ \A i \in 1..(Len(q) - j) : b[i] = q[j + i]
  <2>1. \A i \in (j + 1)..Len(q) : q[i] \in Op
    OBVIOUS
  <2>2. /\ b \in Seq(Op)
        /\ Len(b) = IF j + 1 <= Len(q) THEN Len(q) - (j + 1) + 1 ELSE 0
        /\ \A i \in 1..(Len(q) - (j + 1) + 1) : b[i] = q[j + 1 + i - 1]
    BY <2>1, SubSeqProperties
  <2> QED
    BY <2>2
<1> HIDE DEF a, b
<1>3. r = a \o b
  BY DEF Gate!RemoveAt, a, b
<1>4. /\ r \in Seq(Op) /\ Len(r) = Len(a) + Len(b)
      /\ \A i \in 1..Len(a) : r[i] = a[i]
      /\ \A i \in (Len(a) + 1)..Len(r) : r[i] = b[i - Len(a)]
  <2>1. a \in Seq(Op) /\ b \in Seq(Op)
    BY <1>1, <1>2
  <2> QED
    BY <2>1, <1>3, Joined
<1>5. /\ Len(r) = Len(q) - 1
      /\ \A i \in 1..(j - 1) : r[i] = q[i]
  BY <1>1, <1>2, <1>4
<1>6. ASSUME NEW i \in j..(Len(q) - 1)
      PROVE  r[i] = q[i + 1]
  <2>1. i \in (Len(a) + 1)..Len(r) /\ i - Len(a) = i - (j - 1) /\ i - (j - 1) \in 1..(Len(q) - j)
    BY <1>1, <1>5
  <2>2. b[i - (j - 1)] = q[j + (i - (j - 1))] /\ j + (i - (j - 1)) = i + 1
    BY <1>2, <2>1
  <2> QED
    BY <1>4, <2>1, <2>2
<1> QED
  BY <1>4, <1>5, <1>6

(* An operation that runs goes on while others are submitted and settle.   *)
LEMMA RunsOn ==
    ASSUME line \in Seq(Op), NEW p, Gate!Runs(p), NEW o \in Op,
           Gate!Submit(o) \/ (o # p /\ Gate!Settle(o))
    PROVE  Gate!Runs(p)'
<1>1. PICK k \in 1..Len(line) : line[k] = p /\ \A i \in 1..(k - 1) : ~Gate!Conflict(line[i], p)
  BY DEF Gate!Runs, Gate!RunsAt
<1>2. CASE Gate!Submit(o)
  <2>1. line' = Append(line, o)
    BY <1>2 DEF Gate!Submit
  <2>2. k \in 1..Len(line') /\ \A i \in 1..k : line'[i] = line[i]
    BY <2>1
  <2> QED
    BY <1>1, <2>2 DEF Gate!Runs, Gate!RunsAt, Gate!Conflict
<1>3. CASE o # p /\ Gate!Settle(o)
  <2>1. PICK j \in 1..Len(line) : line[j] = o /\ line' = Gate!RemoveAt(line, j)
    BY <1>3 DEF Gate!Settle, Gate!RunsAt
  <2>2. /\ line' \in Seq(Op) /\ Len(line') = Len(line) - 1
        /\ \A i \in 1..(j - 1) : line'[i] = line[i]
        /\ \A i \in j..(Len(line) - 1) : line'[i] = line[i + 1]
    BY <2>1, RemoveAtShifts
  <2>3. CASE k < j
    <3>1. k \in 1..Len(line') /\ line'[k] = p
      BY <1>1, <2>2, <2>3
    <3>2. \A i \in 1..(k - 1) : line'[i] = line[i]
      BY <2>2, <2>3
    <3>3. \A i \in 1..(k - 1) : ~Gate!Conflict(line'[i], p)
      BY <1>1, <3>2
    <3> QED
      BY <3>1, <3>3 DEF Gate!Runs, Gate!RunsAt, Gate!Conflict
  <2>4. CASE k > j
    <3>1. k - 1 \in 1..Len(line') /\ line'[k - 1] = p
      BY <1>1, <2>2, <2>4
    <3>2. \A i \in 1..((k - 1) - 1) : \E h \in 1..(k - 1) : line'[i] = line[h]
      <4> TAKE i \in 1..((k - 1) - 1)
      <4>1. CASE i < j
        BY <2>2, <2>4, <4>1
      <4>2. CASE i >= j
        BY <2>2, <2>4, <4>2
      <4> QED
        BY <4>1, <4>2
    <3>3. \A i \in 1..((k - 1) - 1) : ~Gate!Conflict(line'[i], p)
      BY <1>1, <3>2
    <3> QED
      BY <3>1, <3>3 DEF Gate!Runs, Gate!RunsAt, Gate!Conflict
  <2> QED
    BY <1>1, <1>3, <2>1, <2>3, <2>4
<1> QED
  BY <1>2, <1>3

(* The line stays a line.                                                  *)
LEMMA LineTyped ==
    ASSUME line \in Seq(Op), NEW o \in Op, Gate!Submit(o) \/ Gate!Settle(o)
    PROVE  line' \in Seq(Op)
<1>1. CASE Gate!Submit(o)
  BY <1>1 DEF Gate!Submit
<1>2. CASE Gate!Settle(o)
  <2>1. PICK j \in 1..Len(line) : line' = Gate!RemoveAt(line, j)
    BY <1>2 DEF Gate!Settle
  <2> QED
    BY <2>1, RemoveAtShifts
<1> QED
  BY <1>1, <1>2

-----------------------------------------------------------------------------
(* Who is at work holds its lease.                                         *)
LeaseInv ==
    /\ line \in Seq(Op)
    /\ \A c \in Cmd : cmd[c] = "executing" => Gate!Runs(c)
    /\ \A c \in Cmd : cmd[c] \in {"recreating", "retrying", "again"} => Gate!Runs(Recovery(c))
    /\ \A a \in Acquirer : acq[a] = "creating" => Gate!Runs(a)
    /\ \A r \in Remover : rem[r] = "removing" => Gate!Runs(r)

(* A lifecycle state is that of an acquire that ended well.                *)
StateInv ==
    /\ mapped # NoState => acq[mapped] = "ready"
    /\ \A a \in Acquirer : acq[a] = "ready" => stateOf[a] \in Acquirer /\ acq[stateOf[a]] = "ready"
    /\ \A c \in Cmd : cmd[c] \notin {"new", "gone"} =>
         handle[c] \in Acquirer /\ acq[handle[c]] = "ready"

(* What a command's token says of the container it was refused by.         *)
TokenInv ==
    \A c \in Cmd :
        /\ cmd[c] \in {"new", "line"} => token[c] = 0
        /\ cmd[c] \notin {"new", "gone"} => token[c] <= gen[StateOf(c)]
        /\ cmd[c] = "executing" => token[c] = gen[StateOf(c)] /\ seen[c] = keeper.at
        /\ cmd[c] \in {"refused", "recovering", "recreating", "retrying", "again"} =>
             seen[c] \in 1..made
        /\ cmd[c] \in {"refused", "recovering"} =>
             (token[c] < gen[StateOf(c)] => keeper.at # seen[c])
        /\ cmd[c] = "recreating" => token[c] = gen[StateOf(c)] /\ keeper = NoKeeper
        /\ cmd[c] = "retrying" => keeper.at # seen[c]
        /\ cmd[c] = "again" => again[c] # seen[c]
        /\ cmd[c] \in {"recreating", "retrying", "again"} => mapped = StateOf(c)

(* A generation that a recovery has torn down is over, its lifecycle is,   *)
(* or that recovery is still at it.                                        *)
RecoveredInv ==
    \A x \in recovered :
        /\ acq[x[1]] \in {"ready", "gone"}
        /\ x[2] <= gen[x[1]]
        /\ x[2] = gen[x[1]] /\ mapped = x[1] =>
             \E c \in Cmd : cmd[c] = "recreating" /\ x = <<StateOf(c), token[c]>>

IInv == /\ TypeOK /\ LeaseInv /\ StateInv
        /\ TokenInv /\ ServesItsOwnKeeper /\ RecoveredInv

(* The step that CommandsKeepTheirKeeper asks for.                         *)
KeeperStays ==
    \A c \in Cmd :
        /\ cmd[c] \in {"executing", "again"} /\ cmd'[c] = cmd[c] => keeper'.at = keeper.at
        /\ cmd[c] = "recovering" /\ cmd'[c] = "recreating"
             => <<StateOf(c), token[c]>> \notin recovered

-----------------------------------------------------------------------------
(* Commands, calls and recoveries are different operations of the line.    *)
LEMMA OpsDiffer ==
    /\ \A c \in Cmd : c \in Op /\ Recovery(c) \in Op /\ Recovery(c) \in Lifecycle
    /\ \A b \in Acquirer \cup Remover : b \in Op /\ b \in Lifecycle
    /\ \A c, d \in Cmd : c # Recovery(d) /\ (Recovery(c) = Recovery(d) => c = d)
    /\ \A c \in Cmd, b \in Acquirer \cup Remover : c # b /\ Recovery(c) # b
    /\ \A a \in Acquirer, r \in Remover : a # r
<1>1. \A c, d \in Cmd : Recovery(c) = Recovery(d) => c = d
  BY DEF Recovery
<1>2. \A c, d \in Cmd : Recovery(c) \in Lifecycle
  BY DEF Lifecycle
<1> QED
  BY <1>1, <1>2, DockerAssumption DEF Op, Lifecycle

(* States, the container and the commands keep their types.                *)
LEMMA TypeStep ==
    TypeOK /\ StateInv /\ [Next]_vars => TypeOK'
<1> SUFFICES ASSUME TypeOK, StateInv, [Next]_vars
             PROVE  TypeOK'
  OBVIOUS
<1>1. CASE Fills
  BY <1>1, DockerAssumption DEF Fills, stateVars, acqVars, cmdVars, TypeOK,
          Phases, StateOf, StateInv
<1>2. CASE Recedes
  BY <1>2, DockerAssumption DEF Recedes, stateVars, acqVars, cmdVars, TypeOK,
          Phases, StateOf, StateInv
<1>3. CASE Dies
  BY <1>3, DockerAssumption DEF Dies, stateVars, acqVars, cmdVars, TypeOK,
          Phases, StateOf, StateInv
<1>4. CASE Restart
  BY <1>4, DockerAssumption DEF Restart, Lost, keeperVars, TypeOK, Phases,
          StateOf, StateInv
<1>5. ASSUME NEW b \in Acquirer, SubmitAcquire(b)
      PROVE  TypeOK'
  BY <1>5, DockerAssumption DEF SubmitAcquire, stateVars, keeperVars, cmdVars,
          TypeOK, Phases, StateOf, StateInv
<1>6. ASSUME NEW b \in Acquirer, AcquireFails(b)
      PROVE  TypeOK'
  BY <1>6, DockerAssumption DEF AcquireFails, Starts, AcquireEnds, stateVars,
          keeperVars, cmdVars, TypeOK, Phases, StateOf, StateInv
<1>7. ASSUME NEW b \in Acquirer, AcquireReuses(b)
      PROVE  TypeOK'
  BY <1>7, DockerAssumption DEF AcquireReuses, Starts, AcquireEnds, Reusable,
          Mismatch, StateFor, cmdVars, TypeOK, Phases, StateOf, StateInv
<1>8. ASSUME NEW b \in Acquirer, AcquireRemoves(b)
      PROVE  TypeOK'
  BY <1>8, DockerAssumption DEF AcquireRemoves, Starts, Gone, NoKeeper,
          stateVars, cmdVars, TypeOK, Phases, StateOf, StateInv
<1>9. ASSUME NEW b \in Acquirer, AcquireCreates(b)
      PROVE  TypeOK'
  BY <1>9, DockerAssumption DEF AcquireCreates, AcquireEnds, Creates,
          StateFor, cmdVars, TypeOK, Phases, StateOf, StateInv
<1>10. ASSUME NEW b \in Acquirer, AcquireCreateFails(b)
      PROVE  TypeOK'
  <2>1. /\ keeper' \in [at : Nat, owner : Acquirer \cup {NoState}, up : BOOLEAN, full : BOOLEAN]
        /\ made' \in Nat /\ keeper'.at <= made'
        /\ (keeper.up => keeper.at # 0)' /\ (keeper.full => keeper.up)'
    <3>1. CASE Creates(StateFor(b))
      BY <1>10, <3>1, DockerAssumption DEF AcquireCreateFails, AcquireEnds,
              CreateFails, Creates, Gone, NoKeeper, StateFor, stateVars,
              cmdVars, TypeOK
    <3>2. CASE Gone
      BY <1>10, <3>2 DEF AcquireCreateFails, AcquireEnds,
              CreateFails, Creates, Gone, NoKeeper, StateFor, stateVars,
              cmdVars, TypeOK
    <3> QED
      BY <1>10, <3>1, <3>2 DEF AcquireCreateFails, AcquireEnds, CreateFails,
              Creates, Gone, NoKeeper, StateFor, stateVars, cmdVars
  <2> QED
    BY <1>10, <2>1, DockerAssumption DEF AcquireCreateFails, AcquireEnds,
            StateFor, stateVars, cmdVars, TypeOK, Phases
<1>11. ASSUME NEW r \in Remover, SubmitRemove(r)
      PROVE  TypeOK'
  BY <1>11, DockerAssumption DEF SubmitRemove, stateVars, keeperVars, acqVars,
          cmdVars, TypeOK, Phases, StateOf, StateInv
<1>12. ASSUME NEW r \in Remover, RemoveStarts(r)
      PROVE  TypeOK'
  BY <1>12, DockerAssumption DEF RemoveStarts, keeperVars, acqVars, cmdVars,
          TypeOK, Phases, StateOf, StateInv
<1>13. ASSUME NEW r \in Remover, RemoveEnds(r)
      PROVE  TypeOK'
  <2>1. /\ keeper' \in [at : Nat, owner : Acquirer \cup {NoState}, up : BOOLEAN, full : BOOLEAN]
        /\ made' \in Nat /\ keeper'.at <= made'
        /\ (keeper.up => keeper.at # 0)' /\ (keeper.full => keeper.up)'
    <3>1. CASE Gone
      BY <1>13, <3>1 DEF RemoveEnds, Gone, NoKeeper, stateVars,
              keeperVars, acqVars, cmdVars, TypeOK
    <3>2. CASE UNCHANGED keeperVars
      BY <1>13, <3>2 DEF RemoveEnds, Gone, NoKeeper, stateVars,
              keeperVars, acqVars, cmdVars, TypeOK
    <3> QED
      BY <1>13, <3>1, <3>2 DEF RemoveEnds, Gone, NoKeeper, stateVars, keeperVars,
              acqVars, cmdVars
  <2> QED
    BY <1>13, <2>1, DockerAssumption DEF RemoveEnds, stateVars, keeperVars,
            acqVars, cmdVars, TypeOK, Phases
<1>14. ASSUME NEW d \in Cmd, NEW b \in Acquirer, Submit(d, b)
      PROVE  TypeOK'
  BY <1>14, DockerAssumption DEF Submit, stateVars, keeperVars, acqVars,
          TypeOK, Phases, StateOf, StateInv
<1>15. ASSUME NEW d \in Cmd, Attempt(d)
      PROVE  TypeOK'
  BY <1>15, DockerAssumption DEF Attempt, stateVars, keeperVars, acqVars,
          TypeOK, Phases, StateOf, StateInv
<1>16. ASSUME NEW d \in Cmd, AttemptEnds(d)
      PROVE  TypeOK'
  BY <1>16, DockerAssumption DEF AttemptEnds, stateVars, keeperVars, acqVars,
          TypeOK, Phases, StateOf, StateInv
<1>17. ASSUME NEW d \in Cmd, AttemptRefused(d)
      PROVE  TypeOK'
  BY <1>17, DockerAssumption DEF AttemptRefused, stateVars, keeperVars,
          acqVars, TypeOK, Phases, StateOf, StateInv
<1>18. ASSUME NEW d \in Cmd, AskRecovery(d)
      PROVE  TypeOK'
  BY <1>18, DockerAssumption DEF AskRecovery, stateVars, keeperVars, acqVars,
          TypeOK, Phases, StateOf, StateInv
<1>19. ASSUME NEW d \in Cmd, RecoverStale(d)
      PROVE  TypeOK'
  BY <1>19, DockerAssumption DEF RecoverStale, Recovers, Current, stateVars,
          keeperVars, acqVars, TypeOK, Phases, StateOf, StateInv
<1>20. ASSUME NEW d \in Cmd, RecoverReplaced(d)
      PROVE  TypeOK'
  BY <1>20, DockerAssumption DEF RecoverReplaced, Recovers, Current, Replaced,
          stateVars, keeperVars, acqVars, TypeOK, Phases, StateOf, StateInv
<1>21. ASSUME NEW d \in Cmd, RecoverRemoves(d)
      PROVE  TypeOK'
  BY <1>21, DockerAssumption DEF RecoverRemoves, Recovers, Current, Replaced,
          Gone, NoKeeper, acqVars, TypeOK, Phases, StateOf, StateInv
<1>22. ASSUME NEW d \in Cmd, RecoverRemoveFails(d)
      PROVE  TypeOK'
  BY <1>22, DockerAssumption DEF RecoverRemoveFails, Recovers, Current,
          Replaced, RetireState, keeperVars, acqVars, TypeOK, Phases, StateOf,
          StateInv
<1>23. ASSUME NEW d \in Cmd, RecoverCreates(d)
      PROVE  TypeOK'
  BY <1>23, DockerAssumption DEF RecoverCreates, Creates, acqVars, TypeOK,
          Phases, StateOf, StateInv
<1>24. ASSUME NEW d \in Cmd, RecoverCreateFails(d)
      PROVE  TypeOK'
  <2>1. /\ keeper' \in [at : Nat, owner : Acquirer \cup {NoState}, up : BOOLEAN, full : BOOLEAN]
        /\ made' \in Nat /\ keeper'.at <= made'
        /\ (keeper.up => keeper.at # 0)' /\ (keeper.full => keeper.up)'
    <3>1. CASE Creates(StateOf(d))
      BY <1>24, <3>1, DockerAssumption DEF RecoverCreateFails, CreateFails, Creates,
              Gone, NoKeeper, RetireState, acqVars, TypeOK, StateInv, StateOf
    <3>2. CASE Gone
      BY <1>24, <3>2 DEF RecoverCreateFails, CreateFails, Creates,
              Gone, NoKeeper, RetireState, acqVars, TypeOK, StateInv, StateOf
    <3> QED
      BY <1>24, <3>1, <3>2 DEF RecoverCreateFails, CreateFails, Creates, Gone,
              NoKeeper, RetireState, acqVars
  <2> QED
    BY <1>24, <2>1, DockerAssumption DEF RecoverCreateFails, RetireState, acqVars,
            TypeOK, Phases
<1>25. ASSUME NEW d \in Cmd, Retry(d)
      PROVE  TypeOK'
  BY <1>25, DockerAssumption DEF Retry, MayRetry, stateVars, keeperVars,
          acqVars, TypeOK, Phases, StateOf, StateInv
<1>26. ASSUME NEW d \in Cmd, RetryEnds(d)
      PROVE  TypeOK'
  BY <1>26, DockerAssumption DEF RetryEnds, stateVars, keeperVars, acqVars,
          TypeOK, Phases, StateOf, StateInv
<1>27. CASE UNCHANGED vars
  BY <1>27, DockerAssumption DEF vars, stateVars, keeperVars, acqVars,
          cmdVars, TypeOK, Phases, StateOf, StateInv
<1> QED
  BY <1>1, <1>2, <1>3, <1>4, <1>5, <1>6, <1>7, <1>8, <1>9, <1>10, <1>11,
          <1>12, <1>13, <1>14, <1>15, <1>16, <1>17, <1>18, <1>19, <1>20,
          <1>21, <1>22, <1>23, <1>24, <1>25, <1>26, <1>27 DEF Next, CmdStep,
          AcquireStep, RemoveStep

(* Leases are taken and given back with the work they are for.             *)
LEMMA LeaseStep ==
    TypeOK /\ LeaseInv /\ [Next]_vars => LeaseInv'
<1> SUFFICES ASSUME TypeOK, LeaseInv, [Next]_vars
             PROVE  LeaseInv'
  OBVIOUS
<1>a. \A p, o \in Op : Gate!Runs(p) /\ (Gate!Submit(o) \/ (o # p /\ Gate!Settle(o)))
                        => Gate!Runs(p)'
  BY RunsOn DEF LeaseInv
<1>b. \A o \in Op : Gate!Submit(o) \/ Gate!Settle(o) => line' \in Seq(Op)
  BY LineTyped DEF LeaseInv
<1>c. UNCHANGED line => \A o \in Op : Gate!Runs(o) => Gate!Runs(o)'
  BY DEF Gate!Runs, Gate!RunsAt
<1>1. CASE Fills
  BY <1>1, <1>a, <1>b, <1>c, OpsDiffer DEF Fills, stateVars, acqVars, cmdVars,
          TypeOK, LeaseInv
<1>2. CASE Recedes
  BY <1>2, <1>a, <1>b, <1>c, OpsDiffer DEF Recedes, stateVars, acqVars,
          cmdVars, TypeOK, LeaseInv
<1>3. CASE Dies
  BY <1>3, <1>a, <1>b, <1>c, OpsDiffer DEF Dies, stateVars, acqVars, cmdVars,
          TypeOK, LeaseInv
<1>4. CASE Restart
  BY <1>4, <1>a, <1>b, <1>c, OpsDiffer DEF Restart, Lost, keeperVars, TypeOK,
          LeaseInv
<1>5. ASSUME NEW b \in Acquirer, SubmitAcquire(b)
      PROVE  LeaseInv'
  BY <1>5, <1>a, <1>b, <1>c, OpsDiffer DEF SubmitAcquire, stateVars,
          keeperVars, cmdVars, TypeOK, LeaseInv
<1>6. ASSUME NEW b \in Acquirer, AcquireFails(b)
      PROVE  LeaseInv'
  BY <1>6, <1>a, <1>b, <1>c, OpsDiffer DEF AcquireFails, Starts, AcquireEnds,
          stateVars, keeperVars, cmdVars, TypeOK, LeaseInv
<1>7. ASSUME NEW b \in Acquirer, AcquireReuses(b)
      PROVE  LeaseInv'
  BY <1>7, <1>a, <1>b, <1>c, OpsDiffer DEF AcquireReuses, Starts, AcquireEnds,
          Reusable, Mismatch, StateFor, cmdVars, TypeOK, LeaseInv
<1>8. ASSUME NEW b \in Acquirer, AcquireRemoves(b)
      PROVE  LeaseInv'
  BY <1>8, <1>a, <1>b, <1>c, OpsDiffer DEF AcquireRemoves, Starts, Gone,
          NoKeeper, stateVars, cmdVars, TypeOK, LeaseInv
<1>9. ASSUME NEW b \in Acquirer, AcquireCreates(b)
      PROVE  LeaseInv'
  BY <1>9, <1>a, <1>b, <1>c, OpsDiffer DEF AcquireCreates, AcquireEnds,
          Creates, StateFor, cmdVars, TypeOK, LeaseInv
<1>10. ASSUME NEW b \in Acquirer, AcquireCreateFails(b)
      PROVE  LeaseInv'
  BY <1>10, <1>a, <1>b, <1>c, OpsDiffer DEF AcquireCreateFails, AcquireEnds,
          CreateFails, Creates, Gone, NoKeeper, StateFor, stateVars, cmdVars,
          TypeOK, LeaseInv
<1>11. ASSUME NEW r \in Remover, SubmitRemove(r)
      PROVE  LeaseInv'
  BY <1>11, <1>a, <1>b, <1>c, OpsDiffer DEF SubmitRemove, stateVars,
          keeperVars, acqVars, cmdVars, TypeOK, LeaseInv
<1>12. ASSUME NEW r \in Remover, RemoveStarts(r)
      PROVE  LeaseInv'
  BY <1>12, <1>a, <1>b, <1>c, OpsDiffer DEF RemoveStarts, keeperVars, acqVars,
          cmdVars, TypeOK, LeaseInv
<1>13. ASSUME NEW r \in Remover, RemoveEnds(r)
      PROVE  LeaseInv'
  BY <1>13, <1>a, <1>b, <1>c, OpsDiffer DEF RemoveEnds, Gone, NoKeeper,
          stateVars, keeperVars, acqVars, cmdVars, TypeOK, LeaseInv
<1>14. ASSUME NEW d \in Cmd, NEW b \in Acquirer, Submit(d, b)
      PROVE  LeaseInv'
  BY <1>14, <1>a, <1>b, <1>c, OpsDiffer DEF Submit, stateVars, keeperVars,
          acqVars, TypeOK, LeaseInv
<1>15. ASSUME NEW d \in Cmd, Attempt(d)
      PROVE  LeaseInv'
  BY <1>15, <1>a, <1>b, <1>c, OpsDiffer DEF Attempt, stateVars, keeperVars,
          acqVars, TypeOK, LeaseInv
<1>16. ASSUME NEW d \in Cmd, AttemptEnds(d)
      PROVE  LeaseInv'
  BY <1>16, <1>a, <1>b, <1>c, OpsDiffer DEF AttemptEnds, stateVars,
          keeperVars, acqVars, TypeOK, LeaseInv
<1>17. ASSUME NEW d \in Cmd, AttemptRefused(d)
      PROVE  LeaseInv'
  BY <1>17, <1>a, <1>b, <1>c, OpsDiffer DEF AttemptRefused, stateVars,
          keeperVars, acqVars, TypeOK, LeaseInv
<1>18. ASSUME NEW d \in Cmd, AskRecovery(d)
      PROVE  LeaseInv'
  BY <1>18, <1>a, <1>b, <1>c, OpsDiffer DEF AskRecovery, stateVars,
          keeperVars, acqVars, TypeOK, LeaseInv
<1>19. ASSUME NEW d \in Cmd, RecoverStale(d)
      PROVE  LeaseInv'
  BY <1>19, <1>a, <1>b, <1>c, OpsDiffer DEF RecoverStale, Recovers, Current,
          stateVars, keeperVars, acqVars, TypeOK, LeaseInv
<1>20. ASSUME NEW d \in Cmd, RecoverReplaced(d)
      PROVE  LeaseInv'
  BY <1>20, <1>a, <1>b, <1>c, OpsDiffer DEF RecoverReplaced, Recovers,
          Current, Replaced, stateVars, keeperVars, acqVars, TypeOK, LeaseInv
<1>21. ASSUME NEW d \in Cmd, RecoverRemoves(d)
      PROVE  LeaseInv'
  BY <1>21, <1>a, <1>b, <1>c, OpsDiffer DEF RecoverRemoves, Recovers, Current,
          Replaced, Gone, NoKeeper, acqVars, TypeOK, LeaseInv
<1>22. ASSUME NEW d \in Cmd, RecoverRemoveFails(d)
      PROVE  LeaseInv'
  BY <1>22, <1>a, <1>b, <1>c, OpsDiffer DEF RecoverRemoveFails, Recovers,
          Current, Replaced, RetireState, keeperVars, acqVars, TypeOK,
          LeaseInv
<1>23. ASSUME NEW d \in Cmd, RecoverCreates(d)
      PROVE  LeaseInv'
  BY <1>23, <1>a, <1>b, <1>c, OpsDiffer DEF RecoverCreates, Creates, acqVars,
          TypeOK, LeaseInv
<1>24. ASSUME NEW d \in Cmd, RecoverCreateFails(d)
      PROVE  LeaseInv'
  BY <1>24, <1>a, <1>b, <1>c, OpsDiffer DEF RecoverCreateFails, CreateFails,
          Creates, Gone, NoKeeper, RetireState, acqVars, TypeOK, LeaseInv
<1>25. ASSUME NEW d \in Cmd, Retry(d)
      PROVE  LeaseInv'
  BY <1>25, <1>a, <1>b, <1>c, OpsDiffer DEF Retry, MayRetry, stateVars,
          keeperVars, acqVars, TypeOK, LeaseInv
<1>26. ASSUME NEW d \in Cmd, RetryEnds(d)
      PROVE  LeaseInv'
  BY <1>26, <1>a, <1>b, <1>c, OpsDiffer DEF RetryEnds, stateVars, keeperVars,
          acqVars, TypeOK, LeaseInv
<1>27. CASE UNCHANGED vars
  BY <1>27, <1>a, <1>b, <1>c, OpsDiffer DEF vars, stateVars, keeperVars,
          acqVars, cmdVars, TypeOK, LeaseInv
<1> QED
  BY <1>1, <1>2, <1>3, <1>4, <1>5, <1>6, <1>7, <1>8, <1>9, <1>10, <1>11,
          <1>12, <1>13, <1>14, <1>15, <1>16, <1>17, <1>18, <1>19, <1>20,
          <1>21, <1>22, <1>23, <1>24, <1>25, <1>26, <1>27 DEF Next, CmdStep,
          AcquireStep, RemoveStep

(* A lifecycle state in use is that of an acquire that ended well.         *)
LEMMA StateStep ==
    TypeOK /\ StateInv /\ [Next]_vars => StateInv'
<1> SUFFICES ASSUME TypeOK, StateInv, [Next]_vars
             PROVE  StateInv'
  OBVIOUS
<1>1. CASE Fills
  BY <1>1, DockerAssumption DEF Fills, stateVars, acqVars, cmdVars, TypeOK,
          StateInv
<1>2. CASE Recedes
  BY <1>2, DockerAssumption DEF Recedes, stateVars, acqVars, cmdVars, TypeOK,
          StateInv
<1>3. CASE Dies
  BY <1>3, DockerAssumption DEF Dies, stateVars, acqVars, cmdVars, TypeOK,
          StateInv
<1>4. CASE Restart
  BY <1>4, DockerAssumption DEF Restart, Lost, keeperVars, TypeOK, StateInv
<1>5. ASSUME NEW b \in Acquirer, SubmitAcquire(b)
      PROVE  StateInv'
  BY <1>5, DockerAssumption DEF SubmitAcquire, stateVars, keeperVars, cmdVars,
          TypeOK, StateInv
<1>6. ASSUME NEW b \in Acquirer, AcquireFails(b)
      PROVE  StateInv'
  BY <1>6, DockerAssumption DEF AcquireFails, Starts, AcquireEnds, stateVars,
          keeperVars, cmdVars, TypeOK, StateInv
<1>7. ASSUME NEW b \in Acquirer, AcquireReuses(b)
      PROVE  StateInv'
  BY <1>7, DockerAssumption DEF AcquireReuses, Starts, AcquireEnds, Reusable,
          Mismatch, StateFor, cmdVars, TypeOK, StateInv
<1>8. ASSUME NEW b \in Acquirer, AcquireRemoves(b)
      PROVE  StateInv'
  BY <1>8, DockerAssumption DEF AcquireRemoves, Starts, Gone, NoKeeper,
          stateVars, cmdVars, TypeOK, StateInv
<1>9. ASSUME NEW b \in Acquirer, AcquireCreates(b)
      PROVE  StateInv'
  BY <1>9, DockerAssumption DEF AcquireCreates, AcquireEnds, Creates,
          StateFor, cmdVars, TypeOK, StateInv
<1>10. ASSUME NEW b \in Acquirer, AcquireCreateFails(b)
      PROVE  StateInv'
  BY <1>10, DockerAssumption DEF AcquireCreateFails, AcquireEnds, CreateFails,
          Creates, Gone, NoKeeper, StateFor, stateVars, cmdVars, TypeOK,
          StateInv
<1>11. ASSUME NEW r \in Remover, SubmitRemove(r)
      PROVE  StateInv'
  BY <1>11, DockerAssumption DEF SubmitRemove, stateVars, keeperVars, acqVars,
          cmdVars, TypeOK, StateInv
<1>12. ASSUME NEW r \in Remover, RemoveStarts(r)
      PROVE  StateInv'
  BY <1>12, DockerAssumption DEF RemoveStarts, keeperVars, acqVars, cmdVars,
          TypeOK, StateInv
<1>13. ASSUME NEW r \in Remover, RemoveEnds(r)
      PROVE  StateInv'
  BY <1>13, DockerAssumption DEF RemoveEnds, Gone, NoKeeper, stateVars,
          keeperVars, acqVars, cmdVars, TypeOK, StateInv
<1>14. ASSUME NEW d \in Cmd, NEW b \in Acquirer, Submit(d, b)
      PROVE  StateInv'
  BY <1>14, DockerAssumption DEF Submit, stateVars, keeperVars, acqVars,
          TypeOK, StateInv
<1>15. ASSUME NEW d \in Cmd, Attempt(d)
      PROVE  StateInv'
  BY <1>15, DockerAssumption DEF Attempt, stateVars, keeperVars, acqVars,
          TypeOK, StateInv
<1>16. ASSUME NEW d \in Cmd, AttemptEnds(d)
      PROVE  StateInv'
  BY <1>16, DockerAssumption DEF AttemptEnds, stateVars, keeperVars, acqVars,
          TypeOK, StateInv
<1>17. ASSUME NEW d \in Cmd, AttemptRefused(d)
      PROVE  StateInv'
  BY <1>17, DockerAssumption DEF AttemptRefused, stateVars, keeperVars,
          acqVars, TypeOK, StateInv
<1>18. ASSUME NEW d \in Cmd, AskRecovery(d)
      PROVE  StateInv'
  BY <1>18, DockerAssumption DEF AskRecovery, stateVars, keeperVars, acqVars,
          TypeOK, StateInv
<1>19. ASSUME NEW d \in Cmd, RecoverStale(d)
      PROVE  StateInv'
  BY <1>19, DockerAssumption DEF RecoverStale, Recovers, Current, stateVars,
          keeperVars, acqVars, TypeOK, StateInv
<1>20. ASSUME NEW d \in Cmd, RecoverReplaced(d)
      PROVE  StateInv'
  BY <1>20, DockerAssumption DEF RecoverReplaced, Recovers, Current, Replaced,
          stateVars, keeperVars, acqVars, TypeOK, StateInv
<1>21. ASSUME NEW d \in Cmd, RecoverRemoves(d)
      PROVE  StateInv'
  BY <1>21, DockerAssumption DEF RecoverRemoves, Recovers, Current, Replaced,
          Gone, NoKeeper, acqVars, TypeOK, StateInv
<1>22. ASSUME NEW d \in Cmd, RecoverRemoveFails(d)
      PROVE  StateInv'
  BY <1>22, DockerAssumption DEF RecoverRemoveFails, Recovers, Current,
          Replaced, RetireState, keeperVars, acqVars, TypeOK, StateInv
<1>23. ASSUME NEW d \in Cmd, RecoverCreates(d)
      PROVE  StateInv'
  BY <1>23, DockerAssumption DEF RecoverCreates, Creates, acqVars, TypeOK,
          StateInv
<1>24. ASSUME NEW d \in Cmd, RecoverCreateFails(d)
      PROVE  StateInv'
  BY <1>24, DockerAssumption DEF RecoverCreateFails, CreateFails, Creates,
          Gone, NoKeeper, RetireState, acqVars, TypeOK, StateInv
<1>25. ASSUME NEW d \in Cmd, Retry(d)
      PROVE  StateInv'
  BY <1>25, DockerAssumption DEF Retry, MayRetry, stateVars, keeperVars,
          acqVars, TypeOK, StateInv
<1>26. ASSUME NEW d \in Cmd, RetryEnds(d)
      PROVE  StateInv'
  BY <1>26, DockerAssumption DEF RetryEnds, stateVars, keeperVars, acqVars,
          TypeOK, StateInv
<1>27. CASE UNCHANGED vars
  BY <1>27, DockerAssumption DEF vars, stateVars, keeperVars, acqVars,
          cmdVars, TypeOK, StateInv
<1> QED
  BY <1>1, <1>2, <1>3, <1>4, <1>5, <1>6, <1>7, <1>8, <1>9, <1>10, <1>11,
          <1>12, <1>13, <1>14, <1>15, <1>16, <1>17, <1>18, <1>19, <1>20,
          <1>21, <1>22, <1>23, <1>24, <1>25, <1>26, <1>27 DEF Next, CmdStep,
          AcquireStep, RemoveStep

(* A container that is served was created for the state that serves it.   *)
LEMMA OwnKeeperStep ==
    TypeOK /\ LeaseInv /\ StateInv /\ TokenInv /\ ServesItsOwnKeeper /\
            [Next]_vars => ServesItsOwnKeeper'
<1> SUFFICES ASSUME TypeOK, LeaseInv, StateInv, TokenInv, ServesItsOwnKeeper, [Next]_vars
             PROVE  ServesItsOwnKeeper'
  OBVIOUS
<1>1. CASE Fills
  BY <1>1, DockerAssumption DEF Fills, stateVars, acqVars, cmdVars, TypeOK,
          StateInv, TokenInv, StateOf, LeaseInv, ServesItsOwnKeeper
<1>2. CASE Recedes
  BY <1>2, DockerAssumption DEF Recedes, stateVars, acqVars, cmdVars, TypeOK,
          StateInv, TokenInv, StateOf, LeaseInv, ServesItsOwnKeeper
<1>3. CASE Dies
  BY <1>3, DockerAssumption DEF Dies, stateVars, acqVars, cmdVars, TypeOK,
          StateInv, TokenInv, StateOf, LeaseInv, ServesItsOwnKeeper
<1>4. CASE Restart
  BY <1>4, DockerAssumption DEF Restart, Lost, keeperVars, TypeOK, StateInv,
          TokenInv, StateOf, LeaseInv, ServesItsOwnKeeper
<1>5. ASSUME NEW b \in Acquirer, SubmitAcquire(b)
      PROVE  ServesItsOwnKeeper'
  BY <1>5, DockerAssumption DEF SubmitAcquire, stateVars, keeperVars, cmdVars,
          TypeOK, StateInv, TokenInv, StateOf, LeaseInv, ServesItsOwnKeeper
<1>6. ASSUME NEW b \in Acquirer, AcquireFails(b)
      PROVE  ServesItsOwnKeeper'
  BY <1>6, DockerAssumption DEF AcquireFails, Starts, AcquireEnds, stateVars,
          keeperVars, cmdVars, TypeOK, StateInv, TokenInv, StateOf, LeaseInv,
          ServesItsOwnKeeper
<1>7. ASSUME NEW b \in Acquirer, AcquireReuses(b)
      PROVE  ServesItsOwnKeeper'
  BY <1>7, DockerAssumption DEF AcquireReuses, Starts, AcquireEnds, Reusable,
          Mismatch, StateFor, cmdVars, TypeOK, StateInv, TokenInv, StateOf,
          LeaseInv, ServesItsOwnKeeper
<1>8. ASSUME NEW b \in Acquirer, AcquireRemoves(b)
      PROVE  ServesItsOwnKeeper'
  BY <1>8, DockerAssumption DEF AcquireRemoves, Starts, Gone, NoKeeper,
          stateVars, cmdVars, TypeOK, StateInv, TokenInv, StateOf, LeaseInv,
          ServesItsOwnKeeper
<1>9. ASSUME NEW b \in Acquirer, AcquireCreates(b)
      PROVE  ServesItsOwnKeeper'
  BY <1>9, DockerAssumption DEF AcquireCreates, AcquireEnds, Creates,
          StateFor, cmdVars, TypeOK, StateInv, TokenInv, StateOf, LeaseInv,
          ServesItsOwnKeeper
<1>10. ASSUME NEW b \in Acquirer, AcquireCreateFails(b)
      PROVE  ServesItsOwnKeeper'
  BY <1>10, DockerAssumption DEF AcquireCreateFails, AcquireEnds, CreateFails,
          Creates, Gone, NoKeeper, StateFor, stateVars, cmdVars, TypeOK,
          StateInv, TokenInv, StateOf, LeaseInv, ServesItsOwnKeeper
<1>11. ASSUME NEW r \in Remover, SubmitRemove(r)
      PROVE  ServesItsOwnKeeper'
  BY <1>11, DockerAssumption DEF SubmitRemove, stateVars, keeperVars, acqVars,
          cmdVars, TypeOK, StateInv, TokenInv, StateOf, LeaseInv,
          ServesItsOwnKeeper
<1>12. ASSUME NEW r \in Remover, RemoveStarts(r)
      PROVE  ServesItsOwnKeeper'
  BY <1>12, DockerAssumption DEF RemoveStarts, keeperVars, acqVars, cmdVars,
          TypeOK, StateInv, TokenInv, StateOf, LeaseInv, ServesItsOwnKeeper
<1>13. ASSUME NEW r \in Remover, RemoveEnds(r)
      PROVE  ServesItsOwnKeeper'
  BY <1>13, DockerAssumption DEF RemoveEnds, Gone, NoKeeper, stateVars,
          keeperVars, acqVars, cmdVars, TypeOK, StateInv, TokenInv, StateOf,
          LeaseInv, ServesItsOwnKeeper
<1>14. ASSUME NEW d \in Cmd, NEW b \in Acquirer, Submit(d, b)
      PROVE  ServesItsOwnKeeper'
  BY <1>14, DockerAssumption DEF Submit, stateVars, keeperVars, acqVars,
          TypeOK, StateInv, TokenInv, StateOf, LeaseInv, ServesItsOwnKeeper
<1>15. ASSUME NEW d \in Cmd, Attempt(d)
      PROVE  ServesItsOwnKeeper'
  BY <1>15, DockerAssumption DEF Attempt, stateVars, keeperVars, acqVars,
          TypeOK, StateInv, TokenInv, StateOf, LeaseInv, ServesItsOwnKeeper
<1>16. ASSUME NEW d \in Cmd, AttemptEnds(d)
      PROVE  ServesItsOwnKeeper'
  BY <1>16, DockerAssumption DEF AttemptEnds, stateVars, keeperVars, acqVars,
          TypeOK, StateInv, TokenInv, StateOf, LeaseInv, ServesItsOwnKeeper
<1>17. ASSUME NEW d \in Cmd, AttemptRefused(d)
      PROVE  ServesItsOwnKeeper'
  BY <1>17, DockerAssumption DEF AttemptRefused, stateVars, keeperVars,
          acqVars, TypeOK, StateInv, TokenInv, StateOf, LeaseInv,
          ServesItsOwnKeeper
<1>18. ASSUME NEW d \in Cmd, AskRecovery(d)
      PROVE  ServesItsOwnKeeper'
  BY <1>18, DockerAssumption DEF AskRecovery, stateVars, keeperVars, acqVars,
          TypeOK, StateInv, TokenInv, StateOf, LeaseInv, ServesItsOwnKeeper
<1>19. ASSUME NEW d \in Cmd, RecoverStale(d)
      PROVE  ServesItsOwnKeeper'
  BY <1>19, DockerAssumption DEF RecoverStale, Recovers, Current, stateVars,
          keeperVars, acqVars, TypeOK, StateInv, TokenInv, StateOf, LeaseInv,
          ServesItsOwnKeeper
<1>20. ASSUME NEW d \in Cmd, RecoverReplaced(d)
      PROVE  ServesItsOwnKeeper'
  BY <1>20, DockerAssumption DEF RecoverReplaced, Recovers, Current, Replaced,
          stateVars, keeperVars, acqVars, TypeOK, StateInv, TokenInv, StateOf,
          LeaseInv, ServesItsOwnKeeper
<1>21. ASSUME NEW d \in Cmd, RecoverRemoves(d)
      PROVE  ServesItsOwnKeeper'
  BY <1>21, DockerAssumption DEF RecoverRemoves, Recovers, Current, Replaced,
          Gone, NoKeeper, acqVars, TypeOK, StateInv, TokenInv, StateOf,
          LeaseInv, ServesItsOwnKeeper
<1>22. ASSUME NEW d \in Cmd, RecoverRemoveFails(d)
      PROVE  ServesItsOwnKeeper'
  BY <1>22, DockerAssumption DEF RecoverRemoveFails, Recovers, Current,
          Replaced, RetireState, keeperVars, acqVars, TypeOK, StateInv,
          TokenInv, StateOf, LeaseInv, ServesItsOwnKeeper
<1>23. ASSUME NEW d \in Cmd, RecoverCreates(d)
      PROVE  ServesItsOwnKeeper'
  BY <1>23, DockerAssumption DEF RecoverCreates, Creates, acqVars, TypeOK,
          StateInv, TokenInv, StateOf, LeaseInv, ServesItsOwnKeeper
<1>24. ASSUME NEW d \in Cmd, RecoverCreateFails(d)
      PROVE  ServesItsOwnKeeper'
  BY <1>24, DockerAssumption DEF RecoverCreateFails, CreateFails, Creates,
          Gone, NoKeeper, RetireState, acqVars, TypeOK, StateInv, TokenInv,
          StateOf, LeaseInv, ServesItsOwnKeeper
<1>25. ASSUME NEW d \in Cmd, Retry(d)
      PROVE  ServesItsOwnKeeper'
  BY <1>25, DockerAssumption DEF Retry, MayRetry, stateVars, keeperVars,
          acqVars, TypeOK, StateInv, TokenInv, StateOf, LeaseInv,
          ServesItsOwnKeeper
<1>26. ASSUME NEW d \in Cmd, RetryEnds(d)
      PROVE  ServesItsOwnKeeper'
  BY <1>26, DockerAssumption DEF RetryEnds, stateVars, keeperVars, acqVars,
          TypeOK, StateInv, TokenInv, StateOf, LeaseInv, ServesItsOwnKeeper
<1>27. CASE UNCHANGED vars
  BY <1>27, DockerAssumption DEF vars, stateVars, keeperVars, acqVars,
          cmdVars, TypeOK, StateInv, TokenInv, StateOf, LeaseInv,
          ServesItsOwnKeeper
<1> QED
  BY <1>1, <1>2, <1>3, <1>4, <1>5, <1>6, <1>7, <1>8, <1>9, <1>10, <1>11,
          <1>12, <1>13, <1>14, <1>15, <1>16, <1>17, <1>18, <1>19, <1>20,
          <1>21, <1>22, <1>23, <1>24, <1>25, <1>26, <1>27 DEF Next, CmdStep,
          AcquireStep, RemoveStep

(* Tokens tell the containers apart.                                       *)
LEMMA TokenStep ==
    TypeOK /\ LeaseInv /\ StateInv /\ TokenInv /\ [Next]_vars => TokenInv'
<1> SUFFICES ASSUME TypeOK, LeaseInv, StateInv, TokenInv, [Next]_vars
             PROVE  TokenInv'
  OBVIOUS
<1>a. \A o \in Op, e \in Lifecycle : Gate!Runs(o) /\ Gate!Runs(e) => o = e
  BY RunsAlone DEF LeaseInv
<1>1. CASE Fills
  BY <1>1, <1>a, OpsDiffer, DockerAssumption DEF Fills, stateVars, acqVars,
          cmdVars, TypeOK, StateInv, LeaseInv, StateOf, TokenInv, NoKeeper
<1>2. CASE Recedes
  BY <1>2, <1>a, OpsDiffer, DockerAssumption DEF Recedes, stateVars, acqVars,
          cmdVars, TypeOK, StateInv, LeaseInv, StateOf, TokenInv, NoKeeper
<1>3. CASE Dies
  BY <1>3, <1>a, OpsDiffer, DockerAssumption DEF Dies, stateVars, acqVars,
          cmdVars, TypeOK, StateInv, LeaseInv, StateOf, TokenInv, NoKeeper
<1>4. CASE Restart
  BY <1>4, <1>a, OpsDiffer, DockerAssumption DEF Restart, Lost, keeperVars,
          TypeOK, StateInv, LeaseInv, StateOf, TokenInv, NoKeeper
<1>5. ASSUME NEW b \in Acquirer, SubmitAcquire(b)
      PROVE  TokenInv'
  BY <1>5, <1>a, OpsDiffer, DockerAssumption DEF SubmitAcquire, stateVars,
          keeperVars, cmdVars, TypeOK, StateInv, LeaseInv, StateOf, TokenInv,
          NoKeeper
<1>6. ASSUME NEW b \in Acquirer, AcquireFails(b)
      PROVE  TokenInv'
  BY <1>6, <1>a, OpsDiffer, DockerAssumption DEF AcquireFails, Starts,
          AcquireEnds, stateVars, keeperVars, cmdVars, TypeOK, StateInv,
          LeaseInv, StateOf, TokenInv, NoKeeper
<1>7. ASSUME NEW b \in Acquirer, AcquireReuses(b)
      PROVE  TokenInv'
  BY <1>7, <1>a, OpsDiffer, DockerAssumption DEF AcquireReuses, Starts,
          AcquireEnds, Reusable, Mismatch, StateFor, cmdVars, TypeOK,
          StateInv, LeaseInv, StateOf, TokenInv, NoKeeper
<1>8. ASSUME NEW b \in Acquirer, AcquireRemoves(b)
      PROVE  TokenInv'
  BY <1>8, <1>a, OpsDiffer, DockerAssumption DEF AcquireRemoves, Starts, Gone,
          NoKeeper, stateVars, cmdVars, TypeOK, StateInv, LeaseInv, StateOf,
          TokenInv, NoKeeper
<1>9. ASSUME NEW b \in Acquirer, AcquireCreates(b)
      PROVE  TokenInv'
  BY <1>9, <1>a, OpsDiffer, DockerAssumption DEF AcquireCreates, AcquireEnds,
          Creates, StateFor, cmdVars, TypeOK, StateInv, LeaseInv, StateOf,
          TokenInv, NoKeeper
<1>10. ASSUME NEW b \in Acquirer, AcquireCreateFails(b)
      PROVE  TokenInv'
  BY <1>10, <1>a, OpsDiffer, DockerAssumption DEF AcquireCreateFails,
          AcquireEnds, CreateFails, Creates, Gone, NoKeeper, StateFor,
          stateVars, cmdVars, TypeOK, StateInv, LeaseInv, StateOf, TokenInv,
          NoKeeper
<1>11. ASSUME NEW r \in Remover, SubmitRemove(r)
      PROVE  TokenInv'
  BY <1>11, <1>a, OpsDiffer, DockerAssumption DEF SubmitRemove, stateVars,
          keeperVars, acqVars, cmdVars, TypeOK, StateInv, LeaseInv, StateOf,
          TokenInv, NoKeeper
<1>12. ASSUME NEW r \in Remover, RemoveStarts(r)
      PROVE  TokenInv'
  BY <1>12, <1>a, OpsDiffer, DockerAssumption DEF RemoveStarts, keeperVars,
          acqVars, cmdVars, TypeOK, StateInv, LeaseInv, StateOf, TokenInv,
          NoKeeper
<1>13. ASSUME NEW r \in Remover, RemoveEnds(r)
      PROVE  TokenInv'
  BY <1>13, <1>a, OpsDiffer, DockerAssumption DEF RemoveEnds, Gone, NoKeeper,
          stateVars, keeperVars, acqVars, cmdVars, TypeOK, StateInv, LeaseInv,
          StateOf, TokenInv, NoKeeper
<1>14. ASSUME NEW d \in Cmd, NEW b \in Acquirer, Submit(d, b)
      PROVE  TokenInv'
  BY <1>14, <1>a, OpsDiffer, DockerAssumption DEF Submit, stateVars,
          keeperVars, acqVars, TypeOK, StateInv, LeaseInv, StateOf, TokenInv,
          NoKeeper
<1>15. ASSUME NEW d \in Cmd, Attempt(d)
      PROVE  TokenInv'
  BY <1>15, <1>a, OpsDiffer, DockerAssumption DEF Attempt, stateVars,
          keeperVars, acqVars, TypeOK, StateInv, LeaseInv, StateOf, TokenInv,
          NoKeeper
<1>16. ASSUME NEW d \in Cmd, AttemptEnds(d)
      PROVE  TokenInv'
  BY <1>16, <1>a, OpsDiffer, DockerAssumption DEF AttemptEnds, stateVars,
          keeperVars, acqVars, TypeOK, StateInv, LeaseInv, StateOf, TokenInv,
          NoKeeper
<1>17. ASSUME NEW d \in Cmd, AttemptRefused(d)
      PROVE  TokenInv'
  BY <1>17, <1>a, OpsDiffer, DockerAssumption DEF AttemptRefused, stateVars,
          keeperVars, acqVars, TypeOK, StateInv, LeaseInv, StateOf, TokenInv,
          NoKeeper
<1>18. ASSUME NEW d \in Cmd, AskRecovery(d)
      PROVE  TokenInv'
  BY <1>18, <1>a, OpsDiffer, DockerAssumption DEF AskRecovery, stateVars,
          keeperVars, acqVars, TypeOK, StateInv, LeaseInv, StateOf, TokenInv,
          NoKeeper
<1>19. ASSUME NEW d \in Cmd, RecoverStale(d)
      PROVE  TokenInv'
  BY <1>19, <1>a, OpsDiffer, DockerAssumption DEF RecoverStale, Recovers,
          Current, stateVars, keeperVars, acqVars, TypeOK, StateInv, LeaseInv,
          StateOf, TokenInv, NoKeeper
<1>20. ASSUME NEW d \in Cmd, RecoverReplaced(d)
      PROVE  TokenInv'
  BY <1>20, <1>a, OpsDiffer, DockerAssumption DEF RecoverReplaced, Recovers,
          Current, Replaced, stateVars, keeperVars, acqVars, TypeOK, StateInv,
          LeaseInv, StateOf, TokenInv, NoKeeper
<1>21. ASSUME NEW d \in Cmd, RecoverRemoves(d)
      PROVE  TokenInv'
  BY <1>21, <1>a, OpsDiffer, DockerAssumption DEF RecoverRemoves, Recovers,
          Current, Replaced, Gone, NoKeeper, acqVars, TypeOK, StateInv,
          LeaseInv, StateOf, TokenInv, NoKeeper
<1>22. ASSUME NEW d \in Cmd, RecoverRemoveFails(d)
      PROVE  TokenInv'
  BY <1>22, <1>a, OpsDiffer, DockerAssumption DEF RecoverRemoveFails,
          Recovers, Current, Replaced, RetireState, keeperVars, acqVars,
          TypeOK, StateInv, LeaseInv, StateOf, TokenInv, NoKeeper
<1>23. ASSUME NEW d \in Cmd, RecoverCreates(d)
      PROVE  TokenInv'
  BY <1>23, <1>a, OpsDiffer, DockerAssumption DEF RecoverCreates, Creates,
          acqVars, TypeOK, StateInv, LeaseInv, StateOf, TokenInv, NoKeeper
<1>24. ASSUME NEW d \in Cmd, RecoverCreateFails(d)
      PROVE  TokenInv'
  BY <1>24, <1>a, OpsDiffer, DockerAssumption DEF RecoverCreateFails,
          CreateFails, Creates, Gone, NoKeeper, RetireState, acqVars, TypeOK,
          StateInv, LeaseInv, StateOf, TokenInv, NoKeeper
<1>25. ASSUME NEW d \in Cmd, Retry(d)
      PROVE  TokenInv'
  BY <1>25, <1>a, OpsDiffer, DockerAssumption DEF Retry, MayRetry, stateVars,
          keeperVars, acqVars, TypeOK, StateInv, LeaseInv, StateOf, TokenInv,
          NoKeeper
<1>26. ASSUME NEW d \in Cmd, RetryEnds(d)
      PROVE  TokenInv'
  BY <1>26, <1>a, OpsDiffer, DockerAssumption DEF RetryEnds, stateVars,
          keeperVars, acqVars, TypeOK, StateInv, LeaseInv, StateOf, TokenInv,
          NoKeeper
<1>27. CASE UNCHANGED vars
  BY <1>27, <1>a, OpsDiffer, DockerAssumption DEF vars, stateVars, keeperVars,
          acqVars, cmdVars, TypeOK, StateInv, LeaseInv, StateOf, TokenInv,
          NoKeeper
<1> QED
  BY <1>1, <1>2, <1>3, <1>4, <1>5, <1>6, <1>7, <1>8, <1>9, <1>10, <1>11,
          <1>12, <1>13, <1>14, <1>15, <1>16, <1>17, <1>18, <1>19, <1>20,
          <1>21, <1>22, <1>23, <1>24, <1>25, <1>26, <1>27 DEF Next, CmdStep,
          AcquireStep, RemoveStep

(* A generation is torn down once.                                         *)
LEMMA RecoveredStep ==
    TypeOK /\ LeaseInv /\ StateInv /\ TokenInv /\ RecoveredInv /\ [Next]_vars
            => RecoveredInv'
<1> SUFFICES ASSUME TypeOK, LeaseInv, StateInv, TokenInv, RecoveredInv, [Next]_vars
             PROVE  RecoveredInv'
  OBVIOUS
<1>a. \A o \in Op, e \in Lifecycle : Gate!Runs(o) /\ Gate!Runs(e) => o = e
  BY RunsAlone DEF LeaseInv
<1>1. CASE Fills
  BY <1>1, <1>a, OpsDiffer, DockerAssumption DEF Fills, stateVars, acqVars,
          cmdVars, TypeOK, StateInv, LeaseInv, StateOf, TokenInv, RecoveredInv
<1>2. CASE Recedes
  BY <1>2, <1>a, OpsDiffer, DockerAssumption DEF Recedes, stateVars, acqVars,
          cmdVars, TypeOK, StateInv, LeaseInv, StateOf, TokenInv, RecoveredInv
<1>3. CASE Dies
  BY <1>3, <1>a, OpsDiffer, DockerAssumption DEF Dies, stateVars, acqVars,
          cmdVars, TypeOK, StateInv, LeaseInv, StateOf, TokenInv, RecoveredInv
<1>4. CASE Restart
  <2>1. \A x \in recovered : x[1] \in Acquirer
    BY DEF TypeOK
  <2>2. mapped' = NoState /\ recovered' = recovered /\ gen' = gen
    BY <1>4 DEF Restart
  <2>3. \A b \in Acquirer : acq[b] \in {"ready", "gone"} => acq'[b] = "gone"
    BY <1>4 DEF Restart, Lost, TypeOK
  <2> QED
    BY <2>1, <2>2, <2>3, DockerAssumption DEF RecoveredInv
<1>5. ASSUME NEW b \in Acquirer, SubmitAcquire(b)
      PROVE  RecoveredInv'
  BY <1>5, <1>a, OpsDiffer, DockerAssumption DEF SubmitAcquire, stateVars,
          keeperVars, cmdVars, TypeOK, StateInv, LeaseInv, StateOf, TokenInv,
          RecoveredInv
<1>6. ASSUME NEW b \in Acquirer, AcquireFails(b)
      PROVE  RecoveredInv'
  BY <1>6, <1>a, OpsDiffer, DockerAssumption DEF AcquireFails, Starts,
          AcquireEnds, stateVars, keeperVars, cmdVars, TypeOK, StateInv,
          LeaseInv, StateOf, TokenInv, RecoveredInv
<1>7. ASSUME NEW b \in Acquirer, AcquireReuses(b)
      PROVE  RecoveredInv'
  BY <1>7, <1>a, OpsDiffer, DockerAssumption DEF AcquireReuses, Starts,
          AcquireEnds, Reusable, Mismatch, StateFor, cmdVars, TypeOK,
          StateInv, LeaseInv, StateOf, TokenInv, RecoveredInv
<1>8. ASSUME NEW b \in Acquirer, AcquireRemoves(b)
      PROVE  RecoveredInv'
  BY <1>8, <1>a, OpsDiffer, DockerAssumption DEF AcquireRemoves, Starts, Gone,
          NoKeeper, stateVars, cmdVars, TypeOK, StateInv, LeaseInv, StateOf,
          TokenInv, RecoveredInv
<1>9. ASSUME NEW b \in Acquirer, AcquireCreates(b)
      PROVE  RecoveredInv'
  BY <1>9, <1>a, OpsDiffer, DockerAssumption DEF AcquireCreates, AcquireEnds,
          Creates, StateFor, cmdVars, TypeOK, StateInv, LeaseInv, StateOf,
          TokenInv, RecoveredInv
<1>10. ASSUME NEW b \in Acquirer, AcquireCreateFails(b)
      PROVE  RecoveredInv'
  BY <1>10, <1>a, OpsDiffer, DockerAssumption DEF AcquireCreateFails,
          AcquireEnds, CreateFails, Creates, Gone, NoKeeper, StateFor,
          stateVars, cmdVars, TypeOK, StateInv, LeaseInv, StateOf, TokenInv,
          RecoveredInv
<1>11. ASSUME NEW r \in Remover, SubmitRemove(r)
      PROVE  RecoveredInv'
  BY <1>11, <1>a, OpsDiffer, DockerAssumption DEF SubmitRemove, stateVars,
          keeperVars, acqVars, cmdVars, TypeOK, StateInv, LeaseInv, StateOf,
          TokenInv, RecoveredInv
<1>12. ASSUME NEW r \in Remover, RemoveStarts(r)
      PROVE  RecoveredInv'
  BY <1>12, <1>a, OpsDiffer, DockerAssumption DEF RemoveStarts, keeperVars,
          acqVars, cmdVars, TypeOK, StateInv, LeaseInv, StateOf, TokenInv,
          RecoveredInv
<1>13. ASSUME NEW r \in Remover, RemoveEnds(r)
      PROVE  RecoveredInv'
  BY <1>13, <1>a, OpsDiffer, DockerAssumption DEF RemoveEnds, Gone, NoKeeper,
          stateVars, keeperVars, acqVars, cmdVars, TypeOK, StateInv, LeaseInv,
          StateOf, TokenInv, RecoveredInv
<1>14. ASSUME NEW d \in Cmd, NEW b \in Acquirer, Submit(d, b)
      PROVE  RecoveredInv'
  BY <1>14, <1>a, OpsDiffer, DockerAssumption DEF Submit, stateVars,
          keeperVars, acqVars, TypeOK, StateInv, LeaseInv, StateOf, TokenInv,
          RecoveredInv
<1>15. ASSUME NEW d \in Cmd, Attempt(d)
      PROVE  RecoveredInv'
  BY <1>15, <1>a, OpsDiffer, DockerAssumption DEF Attempt, stateVars,
          keeperVars, acqVars, TypeOK, StateInv, LeaseInv, StateOf, TokenInv,
          RecoveredInv
<1>16. ASSUME NEW d \in Cmd, AttemptEnds(d)
      PROVE  RecoveredInv'
  BY <1>16, <1>a, OpsDiffer, DockerAssumption DEF AttemptEnds, stateVars,
          keeperVars, acqVars, TypeOK, StateInv, LeaseInv, StateOf, TokenInv,
          RecoveredInv
<1>17. ASSUME NEW d \in Cmd, AttemptRefused(d)
      PROVE  RecoveredInv'
  BY <1>17, <1>a, OpsDiffer, DockerAssumption DEF AttemptRefused, stateVars,
          keeperVars, acqVars, TypeOK, StateInv, LeaseInv, StateOf, TokenInv,
          RecoveredInv
<1>18. ASSUME NEW d \in Cmd, AskRecovery(d)
       PROVE  RecoveredInv'
  <2>1. /\ \A c \in Cmd : cmd[c] = "recreating" => cmd'[c] = "recreating"
        /\ UNCHANGED <<recovered, mapped, gen, acq, stateOf, handle, token>>
    BY <1>18 DEF AskRecovery, stateVars, acqVars, TypeOK
  <2> QED
    BY <2>1 DEF RecoveredInv, StateOf
<1>19. ASSUME NEW d \in Cmd, RecoverStale(d)
      PROVE  RecoveredInv'
  BY <1>19, <1>a, OpsDiffer, DockerAssumption DEF RecoverStale, Recovers,
          Current, stateVars, keeperVars, acqVars, TypeOK, StateInv, LeaseInv,
          StateOf, TokenInv, RecoveredInv
<1>20. ASSUME NEW d \in Cmd, RecoverReplaced(d)
      PROVE  RecoveredInv'
  BY <1>20, <1>a, OpsDiffer, DockerAssumption DEF RecoverReplaced, Recovers,
          Current, Replaced, stateVars, keeperVars, acqVars, TypeOK, StateInv,
          LeaseInv, StateOf, TokenInv, RecoveredInv
<1>21. ASSUME NEW d \in Cmd, RecoverRemoves(d)
       PROVE  RecoveredInv'
  <2>1. /\ cmd[d] = "recovering" /\ cmd' = [cmd EXCEPT ![d] = "recreating"]
        /\ recovered' = recovered \cup {<<StateOf(d), token[d]>>}
        /\ UNCHANGED <<mapped, gen, acq, stateOf, handle, token>>
    BY <1>21 DEF RecoverRemoves, Recovers, acqVars
  <2>2. cmd'[d] = "recreating" /\ \A c \in Cmd : cmd[c] = "recreating" => cmd'[c] = "recreating"
    BY <2>1 DEF TypeOK
  <2>3. \A c \in Cmd : StateOf(c)' = StateOf(c) /\ token'[c] = token[c]
    BY <2>1 DEF StateOf
  <2>4. acq[StateOf(d)] = "ready" /\ token[d] <= gen[StateOf(d)]
    BY <2>1 DEF StateInv, TokenInv, StateOf
  <2> SUFFICES ASSUME NEW x \in recovered'
               PROVE  /\ acq'[x[1]] \in {"ready", "gone"} /\ x[2] <= gen'[x[1]]
                      /\ x[2] = gen'[x[1]] /\ mapped' = x[1] =>
                           \E c \in Cmd : cmd'[c] = "recreating" /\ x = <<StateOf(c)', token'[c]>>
    BY DEF RecoveredInv
  <2>5. CASE x \in recovered
    BY <2>1, <2>2, <2>3, <2>5 DEF RecoveredInv
  <2>6. CASE x = <<StateOf(d), token[d]>>
    BY <2>1, <2>2, <2>3, <2>4, <2>6
  <2> QED
    BY <2>1, <2>5, <2>6
<1>22. ASSUME NEW d \in Cmd, RecoverRemoveFails(d)
      PROVE  RecoveredInv'
  BY <1>22, <1>a, OpsDiffer, DockerAssumption DEF RecoverRemoveFails,
          Recovers, Current, Replaced, RetireState, keeperVars, acqVars,
          TypeOK, StateInv, LeaseInv, StateOf, TokenInv, RecoveredInv
<1>23. ASSUME NEW d \in Cmd, RecoverCreates(d)
      PROVE  RecoveredInv'
  BY <1>23, <1>a, OpsDiffer, DockerAssumption DEF RecoverCreates, Creates,
          acqVars, TypeOK, StateInv, LeaseInv, StateOf, TokenInv, RecoveredInv
<1>24. ASSUME NEW d \in Cmd, RecoverCreateFails(d)
      PROVE  RecoveredInv'
  BY <1>24, <1>a, OpsDiffer, DockerAssumption DEF RecoverCreateFails,
          CreateFails, Creates, Gone, NoKeeper, RetireState, acqVars, TypeOK,
          StateInv, LeaseInv, StateOf, TokenInv, RecoveredInv
<1>25. ASSUME NEW d \in Cmd, Retry(d)
      PROVE  RecoveredInv'
  BY <1>25, <1>a, OpsDiffer, DockerAssumption DEF Retry, MayRetry, stateVars,
          keeperVars, acqVars, TypeOK, StateInv, LeaseInv, StateOf, TokenInv,
          RecoveredInv
<1>26. ASSUME NEW d \in Cmd, RetryEnds(d)
      PROVE  RecoveredInv'
  BY <1>26, <1>a, OpsDiffer, DockerAssumption DEF RetryEnds, stateVars,
          keeperVars, acqVars, TypeOK, StateInv, LeaseInv, StateOf, TokenInv,
          RecoveredInv
<1>27. CASE UNCHANGED vars
  BY <1>27, <1>a, OpsDiffer, DockerAssumption DEF vars, stateVars, keeperVars,
          acqVars, cmdVars, TypeOK, StateInv, LeaseInv, StateOf, TokenInv,
          RecoveredInv
<1> QED
  BY <1>1, <1>2, <1>3, <1>4, <1>5, <1>6, <1>7, <1>8, <1>9, <1>10, <1>11,
          <1>12, <1>13, <1>14, <1>15, <1>16, <1>17, <1>18, <1>19, <1>20,
          <1>21, <1>22, <1>23, <1>24, <1>25, <1>26, <1>27 DEF Next, CmdStep,
          AcquireStep, RemoveStep

-----------------------------------------------------------------------------
(* The invariant holds at first: nothing was asked for.                    *)
LEMMA IInvInit ==
    Init => IInv
<1> SUFFICES ASSUME Init
             PROVE  IInv
  OBVIOUS
<1>1. TypeOK
  <2>1. keeper \in [at : Nat, owner : Acquirer \cup {NoState}, up : BOOLEAN, full : BOOLEAN]
        /\ made = 0 /\ keeper.at = 0 /\ ~keeper.up /\ ~keeper.full
    BY DEF Init, NoKeeper
  <2>2. /\ gen \in [Acquirer -> Nat] /\ conf \in [Acquirer -> Config]
        /\ token \in [Cmd -> Nat] /\ seen \in [Cmd -> Nat] /\ again \in [Cmd -> Nat]
    BY DEF Init
  <2>3. /\ acq \in [Acquirer -> {"new", "line", "creating", "ready", "failed", "gone"}]
        /\ stateOf \in [Acquirer -> Acquirer \cup {NoState}]
        /\ rem \in [Remover -> {"new", "line", "removing", "done", "gone"}]
        /\ cmd \in [Cmd -> Phases] /\ handle \in [Cmd -> Acquirer \cup {NoState}]
    BY DEF Init, Phases
  <2> QED
    BY <2>1, <2>2, <2>3 DEF Init, TypeOK
<1>2. LeaseInv /\ StateInv
  BY DEF Init, LeaseInv, StateInv
<1>3. TokenInv /\ ServesItsOwnKeeper /\ RecoveredInv
  BY DEF Init, TokenInv, ServesItsOwnKeeper, RecoveredInv
<1> QED
  BY <1>1, <1>2, <1>3 DEF IInv

(* Every step keeps it.                                                    *)
LEMMA IInvStep ==
    IInv /\ [Next]_vars => IInv'
BY TypeStep, LeaseStep, StateStep, OwnKeeperStep, TokenStep, RecoveredStep DEF IInv

(* The invariant holds of every behaviour.                                 *)
LEMMA Invariant ==
    Spec => []IInv
BY IInvInit, IInvStep, PTL DEF Spec

-----------------------------------------------------------------------------
(* Every variable of the provider keeps its type.                          *)
THEOREM DockerTyped ==
    Spec => []TypeOK
<1>1. IInv => TypeOK
  BY DEF IInv
<1> QED
  BY <1>1, Invariant, PTL

(* What a lifecycle serves was created by it: no container left behind by  *)
(* a failed removal, a failed recovery or a restart is adopted.            *)
THEOREM NoContainerAdopted ==
    Spec => []ServesItsOwnKeeper
<1>1. IInv => ServesItsOwnKeeper
  BY DEF IInv
<1> QED
  BY <1>1, Invariant, PTL

(* A retry runs in another container than its first attempt, one of its    *)
(* own lifecycle.                                                          *)
THEOREM RetryIsSafe ==
    Spec => []RetryMeetsTheNextKeeper
<1>1. IInv => RetryMeetsTheNextKeeper
  <2> SUFFICES ASSUME IInv, NEW c \in Cmd
               PROVE  /\ cmd[c] = "again" => again[c] # seen[c]
                      /\ cmd[c] \in {"recreating", "retrying", "again"} =>
                           mapped = StateOf(c) /\ keeper.owner \in {StateOf(c), NoState}
    BY DEF RetryMeetsTheNextKeeper
  <2>1. cmd[c] \in {"recreating", "retrying", "again"} => mapped = StateOf(c) /\ mapped # NoState
    BY DockerAssumption DEF IInv, TokenInv, StateInv, StateOf
  <2> QED
    BY <2>1 DEF IInv, TokenInv, ServesItsOwnKeeper
<1> QED
  BY <1>1, Invariant, PTL

(* A step under which a command works, or a recovery begins, leaves the    *)
(* first its container and repeats no teardown.                            *)
LEMMA KeeperStep ==
    IInv /\ [Next]_vars => KeeperStays
<1> SUFFICES ASSUME IInv, [Next]_vars
             PROVE  KeeperStays
  OBVIOUS
<1>a. \A o \in Op, e \in Lifecycle : Gate!Runs(o) /\ Gate!Runs(e) => o = e
  BY RunsAlone DEF LeaseInv, IInv
<1>1. CASE Fills
  BY <1>1, <1>a, OpsDiffer, DockerAssumption DEF Fills, stateVars, acqVars,
          cmdVars, KeeperStays, IInv, TypeOK, LeaseInv, StateOf, TokenInv,
          RecoveredInv
<1>2. CASE Recedes
  BY <1>2, <1>a, OpsDiffer, DockerAssumption DEF Recedes, stateVars, acqVars,
          cmdVars, KeeperStays, IInv, TypeOK, LeaseInv, StateOf, TokenInv,
          RecoveredInv
<1>3. CASE Dies
  BY <1>3, <1>a, OpsDiffer, DockerAssumption DEF Dies, stateVars, acqVars,
          cmdVars, KeeperStays, IInv, TypeOK, LeaseInv, StateOf, TokenInv,
          RecoveredInv
<1>4. CASE Restart
  BY <1>4, <1>a, OpsDiffer, DockerAssumption DEF Restart, Lost, keeperVars,
          KeeperStays, IInv, TypeOK, LeaseInv, StateOf, TokenInv, RecoveredInv
<1>5. ASSUME NEW b \in Acquirer, SubmitAcquire(b)
      PROVE  KeeperStays
  BY <1>5, <1>a, OpsDiffer, DockerAssumption DEF SubmitAcquire, stateVars,
          keeperVars, cmdVars, KeeperStays, IInv, TypeOK, LeaseInv, StateOf,
          TokenInv, RecoveredInv
<1>6. ASSUME NEW b \in Acquirer, AcquireFails(b)
      PROVE  KeeperStays
  BY <1>6, <1>a, OpsDiffer, DockerAssumption DEF AcquireFails, Starts,
          AcquireEnds, stateVars, keeperVars, cmdVars, KeeperStays, IInv,
          TypeOK, LeaseInv, StateOf, TokenInv, RecoveredInv
<1>7. ASSUME NEW b \in Acquirer, AcquireReuses(b)
      PROVE  KeeperStays
  BY <1>7, <1>a, OpsDiffer, DockerAssumption DEF AcquireReuses, Starts,
          AcquireEnds, Reusable, Mismatch, StateFor, cmdVars, KeeperStays,
          IInv, TypeOK, LeaseInv, StateOf, TokenInv, RecoveredInv
<1>8. ASSUME NEW b \in Acquirer, AcquireRemoves(b)
      PROVE  KeeperStays
  BY <1>8, <1>a, OpsDiffer, DockerAssumption DEF AcquireRemoves, Starts, Gone,
          NoKeeper, stateVars, cmdVars, KeeperStays, IInv, TypeOK, LeaseInv,
          StateOf, TokenInv, RecoveredInv
<1>9. ASSUME NEW b \in Acquirer, AcquireCreates(b)
      PROVE  KeeperStays
  BY <1>9, <1>a, OpsDiffer, DockerAssumption DEF AcquireCreates, AcquireEnds,
          Creates, StateFor, cmdVars, KeeperStays, IInv, TypeOK, LeaseInv,
          StateOf, TokenInv, RecoveredInv
<1>10. ASSUME NEW b \in Acquirer, AcquireCreateFails(b)
      PROVE  KeeperStays
  BY <1>10, <1>a, OpsDiffer, DockerAssumption DEF AcquireCreateFails,
          AcquireEnds, CreateFails, Creates, Gone, NoKeeper, StateFor,
          stateVars, cmdVars, KeeperStays, IInv, TypeOK, LeaseInv, StateOf,
          TokenInv, RecoveredInv
<1>11. ASSUME NEW r \in Remover, SubmitRemove(r)
      PROVE  KeeperStays
  BY <1>11, <1>a, OpsDiffer, DockerAssumption DEF SubmitRemove, stateVars,
          keeperVars, acqVars, cmdVars, KeeperStays, IInv, TypeOK, LeaseInv,
          StateOf, TokenInv, RecoveredInv
<1>12. ASSUME NEW r \in Remover, RemoveStarts(r)
      PROVE  KeeperStays
  BY <1>12, <1>a, OpsDiffer, DockerAssumption DEF RemoveStarts, keeperVars,
          acqVars, cmdVars, KeeperStays, IInv, TypeOK, LeaseInv, StateOf,
          TokenInv, RecoveredInv
<1>13. ASSUME NEW r \in Remover, RemoveEnds(r)
      PROVE  KeeperStays
  BY <1>13, <1>a, OpsDiffer, DockerAssumption DEF RemoveEnds, Gone, NoKeeper,
          stateVars, keeperVars, acqVars, cmdVars, KeeperStays, IInv, TypeOK,
          LeaseInv, StateOf, TokenInv, RecoveredInv
<1>14. ASSUME NEW d \in Cmd, NEW b \in Acquirer, Submit(d, b)
      PROVE  KeeperStays
  BY <1>14, <1>a, OpsDiffer, DockerAssumption DEF Submit, stateVars,
          keeperVars, acqVars, KeeperStays, IInv, TypeOK, LeaseInv, StateOf,
          TokenInv, RecoveredInv
<1>15. ASSUME NEW d \in Cmd, Attempt(d)
      PROVE  KeeperStays
  BY <1>15, <1>a, OpsDiffer, DockerAssumption DEF Attempt, stateVars,
          keeperVars, acqVars, KeeperStays, IInv, TypeOK, LeaseInv, StateOf,
          TokenInv, RecoveredInv
<1>16. ASSUME NEW d \in Cmd, AttemptEnds(d)
      PROVE  KeeperStays
  BY <1>16, <1>a, OpsDiffer, DockerAssumption DEF AttemptEnds, stateVars,
          keeperVars, acqVars, KeeperStays, IInv, TypeOK, LeaseInv, StateOf,
          TokenInv, RecoveredInv
<1>17. ASSUME NEW d \in Cmd, AttemptRefused(d)
      PROVE  KeeperStays
  BY <1>17, <1>a, OpsDiffer, DockerAssumption DEF AttemptRefused, stateVars,
          keeperVars, acqVars, KeeperStays, IInv, TypeOK, LeaseInv, StateOf,
          TokenInv, RecoveredInv
<1>18. ASSUME NEW d \in Cmd, AskRecovery(d)
      PROVE  KeeperStays
  BY <1>18, <1>a, OpsDiffer, DockerAssumption DEF AskRecovery, stateVars,
          keeperVars, acqVars, KeeperStays, IInv, TypeOK, LeaseInv, StateOf,
          TokenInv, RecoveredInv
<1>19. ASSUME NEW d \in Cmd, RecoverStale(d)
      PROVE  KeeperStays
  BY <1>19, <1>a, OpsDiffer, DockerAssumption DEF RecoverStale, Recovers,
          Current, stateVars, keeperVars, acqVars, KeeperStays, IInv, TypeOK,
          LeaseInv, StateOf, TokenInv, RecoveredInv
<1>20. ASSUME NEW d \in Cmd, RecoverReplaced(d)
      PROVE  KeeperStays
  BY <1>20, <1>a, OpsDiffer, DockerAssumption DEF RecoverReplaced, Recovers,
          Current, Replaced, stateVars, keeperVars, acqVars, KeeperStays, IInv,
          TypeOK, LeaseInv, StateOf, TokenInv, RecoveredInv
<1>21. ASSUME NEW d \in Cmd, RecoverRemoves(d)
       PROVE  KeeperStays
  <2>1. /\ cmd[d] = "recovering" /\ cmd' = [cmd EXCEPT ![d] = "recreating"]
        /\ Gate!Runs(Recovery(d)) /\ mapped = StateOf(d) /\ ~(token[d] < gen[StateOf(d)])
    BY <1>21 DEF RecoverRemoves, Recovers, Current, Replaced
  <2>2. \A c \in Cmd : cmd[c] # "executing" /\ (cmd[c] \in {"recreating", "again"} => c = d)
    BY <1>a, <2>1, OpsDiffer DEF IInv, LeaseInv
  <2>3. token[d] = gen[StateOf(d)]
    BY <2>1 DEF IInv, TypeOK, TokenInv, StateInv, StateOf
  <2>4. <<StateOf(d), token[d]>> \notin recovered
    BY <2>1, <2>2, <2>3 DEF IInv, RecoveredInv
  <2>5. \A c \in Cmd : c # d => cmd'[c] = cmd[c]
    BY <2>1 DEF IInv, TypeOK
  <2> QED
    BY <2>1, <2>2, <2>4, <2>5 DEF KeeperStays
<1>22. ASSUME NEW d \in Cmd, RecoverRemoveFails(d)
      PROVE  KeeperStays
  BY <1>22, <1>a, OpsDiffer, DockerAssumption DEF RecoverRemoveFails,
          Recovers, Current, Replaced, RetireState, keeperVars, acqVars,
          KeeperStays, IInv, TypeOK, LeaseInv, StateOf, TokenInv, RecoveredInv
<1>23. ASSUME NEW d \in Cmd, RecoverCreates(d)
      PROVE  KeeperStays
  BY <1>23, <1>a, OpsDiffer, DockerAssumption DEF RecoverCreates, Creates,
          acqVars, KeeperStays, IInv, TypeOK, LeaseInv, StateOf, TokenInv,
          RecoveredInv
<1>24. ASSUME NEW d \in Cmd, RecoverCreateFails(d)
      PROVE  KeeperStays
  BY <1>24, <1>a, OpsDiffer, DockerAssumption DEF RecoverCreateFails,
          CreateFails, Creates, Gone, NoKeeper, RetireState, acqVars,
          KeeperStays, IInv, TypeOK, LeaseInv, StateOf, TokenInv, RecoveredInv
<1>25. ASSUME NEW d \in Cmd, Retry(d)
      PROVE  KeeperStays
  BY <1>25, <1>a, OpsDiffer, DockerAssumption DEF Retry, MayRetry, stateVars,
          keeperVars, acqVars, KeeperStays, IInv, TypeOK, LeaseInv, StateOf,
          TokenInv, RecoveredInv
<1>26. ASSUME NEW d \in Cmd, RetryEnds(d)
      PROVE  KeeperStays
  BY <1>26, <1>a, OpsDiffer, DockerAssumption DEF RetryEnds, stateVars,
          keeperVars, acqVars, KeeperStays, IInv, TypeOK, LeaseInv, StateOf,
          TokenInv, RecoveredInv
<1>27. CASE UNCHANGED vars
  BY <1>27, <1>a, OpsDiffer, DockerAssumption DEF vars, stateVars, keeperVars,
          acqVars, cmdVars, KeeperStays, IInv, TypeOK, LeaseInv, StateOf,
          TokenInv, RecoveredInv
<1> QED
  BY <1>1, <1>2, <1>3, <1>4, <1>5, <1>6, <1>7, <1>8, <1>9, <1>10, <1>11,
          <1>12, <1>13, <1>14, <1>15, <1>16, <1>17, <1>18, <1>19, <1>20,
          <1>21, <1>22, <1>23, <1>24, <1>25, <1>26, <1>27 DEF Next, CmdStep,
          AcquireStep, RemoveStep

(* No container is removed or replaced under a command that runs in it,    *)
(* and a generation is torn down by one recovery.                          *)
THEOREM KeeperStaysUnderCommands ==
    Spec => CommandsKeepTheirKeeper
<1>1. IInv /\ [Next]_vars => [KeeperStays]_vars
  BY KeeperStep
<1>2. Spec => [][KeeperStays]_vars
  BY <1>1, Invariant, PTL DEF Spec
<1> QED
  BY <1>2 DEF CommandsKeepTheirKeeper, KeeperStays

-----------------------------------------------------------------------------
(* The manager above a provider (SandboxManager), by itself, for any       *)
(* turns, reaper passes and deletions: a handle served from the map is on  *)
(* live compute, no turn waits for an acquire that is not under way, and   *)
(* a sandbox nobody asked to remove is in the map, until an acquire fails  *)
(* after the removal of its own sandbox was asked for.                     *)
AcquireBy(u) == [op |-> "acquire", by |-> u]
LastCall == calls[Len(calls)]

(* The acquires in the queue are those of the entries being acquired, each *)
(* once.                                                                   *)
CallsMatchEntries ==
    /\ \A i, j \in 1..Len(calls) :
          calls[i].op = "acquire" /\ calls[i] = calls[j] => i = j
    /\ \A i \in 1..Len(calls) :
          calls[i].op = "acquire" => entry[calls[i].by] = "acquiring"
    /\ \A u \in Turn : entry[u] = "acquiring" =>
          \E i \in 1..Len(calls) : calls[i] = AcquireBy(u)
    /\ \A u \in Turn : turn[u] = "new" => entry[u] = "none"
    /\ \A u \in Turn : turn[u] = "waiting" =>
          from[u] \in Turn /\ entry[from[u]] = "acquiring"

(* The provider was last called for the entry in the map.                  *)
LastCallIsTheEntrys ==
    /\ entries # Nobody /\ entry[entries] = "ready" => live /\ calls = <<>>
    /\ entries # Nobody /\ entry[entries] = "acquiring" =>
          calls # <<>> /\ LastCall = AcquireBy(entries)

ManagerInv == ManagerTypeOK /\ CallsMatchEntries /\ LastCallIsTheEntrys

(* What enqueuing a call does to the queue.                                *)
LEMMA CallMade ==
    ASSUME ManagerTypeOK, NEW c \in Call, calls' = Append(calls, c)
    PROVE /\ calls' \in Seq(Call) /\ Len(calls') = Len(calls) + 1 /\ Len(calls) \in Nat
          /\ calls' # <<>> /\ LastCall' = c
          /\ \A i \in 1..Len(calls) : calls'[i] = calls[i]
          /\ calls'[Len(calls) + 1] = c
          /\ \A i \in 1..Len(calls') : i \in 1..Len(calls) \/ calls'[i] = c
BY DEF ManagerTypeOK, LastCall

(* What completing the oldest call does to it.                             *)
LEMMA CallDone ==
    ASSUME ManagerTypeOK, calls # <<>>, calls' = Tail(calls)
    PROVE /\ calls' \in Seq(Call) /\ Len(calls') = Len(calls) - 1 /\ Len(calls) \in Nat \ {0}
          /\ Head(calls) = calls[1] /\ Head(calls) \in Call
          /\ \A i \in 1..Len(calls') : i + 1 \in 1..Len(calls) /\ calls'[i] = calls[i + 1]
          /\ calls' # <<>> => LastCall' = LastCall
          /\ calls' = <<>> => LastCall = Head(calls)
<1>1. calls \in Seq(Call) BY DEF ManagerTypeOK
<1>2. /\ calls' \in Seq(Call) /\ Len(calls') = Len(calls) - 1 /\ Len(calls) \in Nat \ {0}
      /\ Head(calls) = calls[1] /\ Head(calls) \in Call
  BY <1>1
<1>3. \A i \in 1..Len(calls') : i + 1 \in 1..Len(calls) /\ calls'[i] = calls[i + 1]
  BY <1>1, <1>2
<1>4. calls' # <<>> => LastCall' = LastCall
  <2> SUFFICES ASSUME calls' # <<>> PROVE LastCall' = LastCall OBVIOUS
  <2>1. Len(calls') \in 1..Len(calls') BY <1>2
  <2> QED BY <2>1, <1>2, <1>3 DEF LastCall
<1>5. calls' = <<>> => LastCall = Head(calls)
  BY <1>2 DEF LastCall
<1> QED BY <1>2, <1>3, <1>4, <1>5

LEMMA ManagerInit == InitManager => ManagerInv
<1> SUFFICES ASSUME InitManager PROVE ManagerInv OBVIOUS
<1>1. ManagerTypeOK
  <2>1. calls \in Seq(Call) BY DEF InitManager
  <2>2. /\ entry \in [Turn -> {"none", "acquiring", "ready", "failed"}]
        /\ turn \in [Turn -> {"new", "waiting", "using", "ended", "failed"}]
        /\ from \in [Turn -> Turn \cup {Nobody}]
        /\ scan \in [Reaper -> Turn \cup {Nobody}]
        /\ reaper \in [Reaper -> {"new", "scanned", "done"}]
        /\ touched \in [Reaper -> BOOLEAN]
        /\ deleter \in [Deleter -> {"new", "done"}]
    BY DEF InitManager
  <2>3. /\ \A r \in Reaper : reaper[r] # "scanned"
        /\ \A u \in Turn : turn[u] = "new" /\ from[u] = Nobody
    BY DEF InitManager
  <2>4. entries = Nobody /\ closed = FALSE /\ live = FALSE /\ released = {}
    BY DEF InitManager
  <2> QED BY <2>1, <2>2, <2>3, <2>4 DEF ManagerTypeOK
<1>2. CallsMatchEntries BY DEF InitManager, CallsMatchEntries
<1>3. LastCallIsTheEntrys BY DEF InitManager, LastCallIsTheEntrys
<1> QED BY <1>1, <1>2, <1>3 DEF ManagerInv

LEMMA ManagerTypeStep ==
    ManagerAssumption /\ ManagerTypeOK /\ [NextManager]_managerVars => ManagerTypeOK'
<1> SUFFICES ASSUME ManagerAssumption, ManagerTypeOK, [NextManager]_managerVars
             PROVE  ManagerTypeOK'
  OBVIOUS
<1> USE DEF ManagerAssumption, ManagerTypeOK, Touch, Provider, AskRemoval,
            Unreleased, Call, Answer, Forget, Holds, reaperVars
<1>1. CASE UNCHANGED managerVars BY <1>1 DEF managerVars
<1>2. ASSUME NEW u \in Turn, Reuse(u) PROVE ManagerTypeOK' BY <1>2 DEF Reuse
<1>3. ASSUME NEW u \in Turn, Join(u) PROVE ManagerTypeOK' BY <1>3 DEF Join
<1>4. ASSUME NEW u \in Turn, Acquire(u) PROVE ManagerTypeOK' BY <1>4 DEF Acquire
<1>5. ASSUME NEW u \in Turn, EndTurn(u) PROVE ManagerTypeOK' BY <1>5 DEF EndTurn
<1>6. ASSUME NEW u \in Turn, Acquired(u) PROVE ManagerTypeOK'
  <2>1. calls' \in Seq(Call) BY <1>6, CallDone DEF Acquired
  <2> QED BY <1>6, <2>1 DEF Acquired
<1>7. ASSUME NEW u \in Turn, AcquireFailed(u) PROVE ManagerTypeOK'
  <2>1. calls' \in Seq(Call) BY <1>7, CallDone DEF AcquireFailed
  <2> QED BY <1>7, <2>1 DEF AcquireFailed
<1>8. CASE Removed
  <2>1. calls' \in Seq(Call) BY <1>8, CallDone DEF Removed
  <2> QED BY <1>8, <2>1 DEF Removed
<1>9. ASSUME NEW r \in Reaper, Scan(r) PROVE ManagerTypeOK' BY <1>9 DEF Scan
<1>10. ASSUME NEW r \in Reaper, Visit(r) PROVE ManagerTypeOK'
  <2>1. CASE UNCHANGED <<entries, calls, released>> BY <1>10, <2>1 DEF Visit
  <2>2. CASE entries' = Nobody /\ AskRemoval("release")
    <3>1. calls' \in Seq(Call) BY <2>2
    <3> QED BY <1>10, <2>2, <3>1 DEF Visit
  <2> QED BY <1>10, <2>1, <2>2 DEF Visit
<1>11. ASSUME NEW d \in Deleter, DestroyThread(d) PROVE ManagerTypeOK'
  BY <1>11 DEF DestroyThread
<1>12. CASE ReleaseAll
  <2>1. CASE UNCHANGED <<calls, released>> BY <1>12, <2>1 DEF ReleaseAll
  <2>2. CASE AskRemoval("release")
    <3>1. calls' \in Seq(Call) BY <2>2
    <3>2. released' \in SUBSET Turn BY <2>2
    <3> QED BY <1>12, <3>1, <3>2 DEF ReleaseAll
  <2> QED BY <1>12, <2>1, <2>2 DEF ReleaseAll
<1> HIDE DEF ManagerTypeOK
<1> QED BY <1>1, <1>2, <1>3, <1>4, <1>5, <1>6, <1>7, <1>8, <1>9, <1>10, <1>11, <1>12
  DEF NextManager, ProviderStep

(* A removal was asked for: the map is empty, nothing else changed.        *)
LEMMA RemovalAsked ==
    ASSUME ManagerInv, entries' = Nobody, NEW op \in {"release", "destroy"},
           AskRemoval(op), UNCHANGED <<entry, turn, from, live>>
    PROVE CallsMatchEntries' /\ LastCallIsTheEntrys'
<1> DEFINE c == [op |-> op, by |-> Nobody]
<1>1. c \in Call /\ c.op # "acquire" BY DEF Call
<1>2. calls' = Append(calls, c) BY DEF AskRemoval, Provider
<1> HIDE DEF c
<1>3. CallsMatchEntries' BY <1>1, <1>2, CallMade DEF ManagerInv, CallsMatchEntries, AcquireBy
<1>4. LastCallIsTheEntrys' BY <1>1, <1>2, CallMade DEF ManagerInv, LastCallIsTheEntrys
<1> QED BY <1>3, <1>4

(* An acquire that is about to end is that of an acquiring entry.          *)
LEMMA HeadIsAcquiring ==
    ASSUME ManagerInv, NEW u \in Turn, calls # <<>>,
           Head(calls) = [op |-> "acquire", by |-> u]
    PROVE  entry[u] = "acquiring"
<1>1. calls \in Seq(Call) BY DEF ManagerInv, ManagerTypeOK
<1>2. 1 \in 1..Len(calls) /\ calls[1] = [op |-> "acquire", by |-> u] BY <1>1
<1>3. calls[1].op = "acquire" /\ calls[1].by = u BY <1>2
<1> QED BY <1>2, <1>3 DEF ManagerInv, CallsMatchEntries

LEMMA ManagerStep ==
    ManagerAssumption /\ ManagerInv /\ [NextManager]_managerVars => ManagerInv'
<1> SUFFICES ASSUME ManagerAssumption, ManagerInv, [NextManager]_managerVars
             PROVE  CallsMatchEntries' /\ LastCallIsTheEntrys'
  BY ManagerTypeStep DEF ManagerInv
<1> DEFINE Goal == CallsMatchEntries' /\ LastCallIsTheEntrys'
<1> USE DEF ManagerAssumption
<1>1. CASE UNCHANGED managerVars
  BY <1>1 DEF managerVars, ManagerInv, CallsMatchEntries, LastCallIsTheEntrys, LastCall
<1>2. ASSUME NEW u \in Turn, Reuse(u) PROVE Goal
  BY <1>2 DEF Reuse, ManagerInv, ManagerTypeOK, CallsMatchEntries, LastCallIsTheEntrys,
     LastCall
<1>3. ASSUME NEW u \in Turn, Join(u) PROVE Goal
  BY <1>3 DEF Join, ManagerInv, ManagerTypeOK, CallsMatchEntries, LastCallIsTheEntrys,
     LastCall
<1>4. ASSUME NEW u \in Turn, Acquire(u) PROVE Goal
  <2>1. AcquireBy(u) \in Call /\ AcquireBy(u).op = "acquire" /\ AcquireBy(u).by = u
    BY DEF AcquireBy, Call
  <2>2. calls' = Append(calls, AcquireBy(u))
    BY <1>4 DEF Acquire, Provider, AcquireBy
  <2>3. entry[u] = "none" /\ \A i \in 1..Len(calls) : calls[i] # AcquireBy(u)
    BY <1>4, <2>1 DEF Acquire, ManagerInv, CallsMatchEntries
  <2>4. entries' = u /\ entry' = [entry EXCEPT ![u] = "acquiring"]
        /\ turn' = [turn EXCEPT ![u] = "waiting"] /\ from' = [from EXCEPT ![u] = u]
    BY <1>4 DEF Acquire
  <2>5. /\ Len(calls') = Len(calls) + 1 /\ Len(calls) \in Nat /\ calls' # <<>>
        /\ LastCall' = AcquireBy(u)
        /\ \A i \in 1..Len(calls) : calls'[i] = calls[i]
        /\ calls'[Len(calls) + 1] = AcquireBy(u)
    BY <2>1, <2>2, CallMade DEF ManagerInv
  <2>6. \A i \in 1..Len(calls') : i \in 1..Len(calls) \/ i = Len(calls) + 1
    BY <2>5
  <2>7. CallsMatchEntries'
    <3>1. \A i, j \in 1..Len(calls') :
            calls'[i].op = "acquire" /\ calls'[i] = calls'[j] => i = j
      BY <2>3, <2>5, <2>6 DEF ManagerInv, CallsMatchEntries
    <3>2. \A i \in 1..Len(calls') :
            calls'[i].op = "acquire" => entry'[calls'[i].by] = "acquiring"
      BY <2>1, <2>4, <2>5, <2>6 DEF ManagerInv, CallsMatchEntries, ManagerTypeOK, Call
    <3>3. \A v \in Turn : entry'[v] = "acquiring" =>
            \E i \in 1..Len(calls') : calls'[i] = AcquireBy(v)
      <4> TAKE v \in Turn
      <4>1. CASE v = u BY <4>1, <2>5
      <4>2. ASSUME v # u, entry'[v] = "acquiring"
            PROVE \E i \in 1..Len(calls') : calls'[i] = AcquireBy(v)
        <5>1. PICK i \in 1..Len(calls) : calls[i] = AcquireBy(v)
          BY <4>2, <2>4 DEF ManagerInv, CallsMatchEntries, ManagerTypeOK
        <5> QED BY <5>1, <2>5
      <4> QED BY <4>1, <4>2
    <3>4. \A v \in Turn : turn'[v] = "new" => entry'[v] = "none"
      BY <2>4 DEF ManagerInv, CallsMatchEntries, ManagerTypeOK
    <3>5. \A v \in Turn : turn'[v] = "waiting" =>
            from'[v] \in Turn /\ entry'[from'[v]] = "acquiring"
      BY <2>4 DEF ManagerInv, CallsMatchEntries, ManagerTypeOK
    <3> QED BY <3>1, <3>2, <3>3, <3>4, <3>5 DEF CallsMatchEntries, AcquireBy
  <2>8. LastCallIsTheEntrys'
    BY <2>4, <2>5 DEF ManagerInv, LastCallIsTheEntrys, ManagerTypeOK, AcquireBy
  <2> QED BY <2>7, <2>8
<1>5. ASSUME NEW u \in Turn, EndTurn(u) PROVE Goal
  BY <1>5 DEF EndTurn, ManagerInv, ManagerTypeOK, CallsMatchEntries,
     LastCallIsTheEntrys, LastCall
<1>6. ASSUME NEW u \in Turn, Acquired(u) \/ AcquireFailed(u) PROVE Goal
  <2> DEFINE c == AcquireBy(u)
  <2>1. /\ Len(calls') = Len(calls) - 1 /\ Len(calls) \in Nat \ {0} /\ calls[1] = c
        /\ \A i \in 1..Len(calls') : i + 1 \in 1..Len(calls) /\ calls'[i] = calls[i + 1]
        /\ calls' # <<>> => LastCall' = LastCall
        /\ calls' = <<>> => LastCall = c
        /\ calls' \in Seq(Call)
    BY <1>6, CallDone DEF Acquired, AcquireFailed, AcquireBy, ManagerInv
  <2>2. c.op = "acquire" /\ c.by = u BY DEF AcquireBy
  <2>3. \E s \in {"ready", "failed"}, t \in {"using", "failed"} :
          entry' = [entry EXCEPT ![u] = s]
          /\ turn' = [w \in Turn |-> IF turn[w] = "waiting" /\ from[w] = u THEN t ELSE turn[w]]
    BY <1>6 DEF Acquired, AcquireFailed, Answer
  <2>4. from' = from BY <1>6 DEF Acquired, AcquireFailed
  <2> HIDE DEF c
  <2>5. \A i \in 1..Len(calls') : calls'[i] # c
    <3> TAKE i \in 1..Len(calls')
    <3>1. i + 1 \in 1..Len(calls) /\ 1 \in 1..Len(calls) /\ i + 1 # 1 BY <2>1
    <3> QED BY <3>1, <2>1, <2>2 DEF ManagerInv, CallsMatchEntries
  <2>6. CallsMatchEntries'
    <3>1. \A i, j \in 1..Len(calls') :
            calls'[i].op = "acquire" /\ calls'[i] = calls'[j] => i = j
      BY <2>1 DEF ManagerInv, CallsMatchEntries
    <3>2. \A i \in 1..Len(calls') :
            calls'[i].op = "acquire" => entry'[calls'[i].by] = "acquiring"
      <4> SUFFICES ASSUME NEW i \in 1..Len(calls'), calls'[i].op = "acquire"
                   PROVE entry'[calls'[i].by] = "acquiring"
        OBVIOUS
      <4>1. calls'[i] \in Call /\ calls'[i] = AcquireBy(calls'[i].by) /\ calls'[i].by \in Turn
        BY <2>1 DEF Call, AcquireBy
      <4>2. calls'[i].by # u BY <4>1, <2>5 DEF c
      <4>3. entry[calls'[i].by] = "acquiring" BY <2>1 DEF ManagerInv, CallsMatchEntries
      <4> QED BY <4>1, <4>2, <4>3, <2>3 DEF ManagerInv, ManagerTypeOK
    <3>3. \A v \in Turn : entry'[v] = "acquiring" =>
            \E i \in 1..Len(calls') : calls'[i] = AcquireBy(v)
      <4> SUFFICES ASSUME NEW v \in Turn, entry'[v] = "acquiring"
                   PROVE \E i \in 1..Len(calls') : calls'[i] = AcquireBy(v)
        OBVIOUS
      <4>1. v # u /\ entry[v] = "acquiring" BY <2>3 DEF ManagerInv, ManagerTypeOK
      <4>2. PICK i \in 1..Len(calls) : calls[i] = AcquireBy(v)
        BY <4>1 DEF ManagerInv, CallsMatchEntries
      <4>3. i # 1 BY <4>1, <4>2, <2>1, <2>2 DEF AcquireBy
      <4>4. i - 1 \in 1..Len(calls') /\ (i - 1) + 1 = i BY <4>3, <2>1
      <4>5. calls'[i - 1] = AcquireBy(v) BY <4>2, <4>4, <2>1
      <4> QED BY <4>4, <4>5
    <3>4. \A v \in Turn : turn'[v] = "new" => entry'[v] = "none"
      <4>1. entry[u] = "acquiring"
        BY <2>1, <2>2 DEF ManagerInv, CallsMatchEntries
      <4> QED BY <4>1, <2>3 DEF ManagerInv, CallsMatchEntries, ManagerTypeOK
    <3>5. \A v \in Turn : turn'[v] = "waiting" =>
            from'[v] \in Turn /\ entry'[from'[v]] = "acquiring"
      BY <2>3, <2>4 DEF ManagerInv, CallsMatchEntries, ManagerTypeOK
    <3> QED BY <3>1, <3>2, <3>3, <3>4, <3>5 DEF CallsMatchEntries, AcquireBy
  <2>7. LastCallIsTheEntrys'
    <3>1. CASE Acquired(u)
      <4>1. entry' = [entry EXCEPT ![u] = "ready"] /\ entries' = entries /\ live' = TRUE
        BY <3>1 DEF Acquired
      <4>2. entries = u => calls' = <<>>
        <5> SUFFICES ASSUME entries = u, calls' # <<>> PROVE FALSE OBVIOUS
        <5>1. entry[u] = "acquiring" BY <2>1, <2>2 DEF ManagerInv, CallsMatchEntries
        <5>2. LastCall' = c BY <5>1, <2>1 DEF ManagerInv, LastCallIsTheEntrys, c
        <5>3. Len(calls') \in 1..Len(calls') /\ calls'[Len(calls')] = c
          BY <5>2, <2>1 DEF LastCall
        <5> QED BY <5>3, <2>5
      <4>3. calls # <<>> /\ (calls' = <<>> => LastCall = c)
        BY <3>1, <2>1 DEF Acquired
      <4>4. ASSUME entries # Nobody, entries # u, entry[entries] = "acquiring"
            PROVE calls' # <<>> /\ LastCall' = AcquireBy(entries)
        <5>1. LastCall = AcquireBy(entries) BY <4>4 DEF ManagerInv, LastCallIsTheEntrys
        <5>2. LastCall # c BY <5>1, <4>4, <2>2 DEF AcquireBy
        <5> QED BY <5>1, <5>2, <2>1
      <4>5. ASSUME entries # Nobody, entries # u, entry[entries] = "ready" PROVE FALSE
        BY <4>5, <4>3 DEF ManagerInv, LastCallIsTheEntrys
      <4> QED
        BY <4>1, <4>2, <4>4, <4>5 DEF LastCallIsTheEntrys, ManagerInv, ManagerTypeOK, AcquireBy
    <3>2. CASE AcquireFailed(u)
      BY <3>2 DEF AcquireFailed, Forget, LastCallIsTheEntrys, ManagerInv,
         ManagerTypeOK
    <3> QED BY <1>6, <3>1, <3>2
  <2> QED BY <2>6, <2>7
<1>7. CASE Removed
  <2>1. /\ Len(calls') = Len(calls) - 1 /\ Len(calls) \in Nat \ {0}
        /\ calls[1].op # "acquire"
        /\ \A i \in 1..Len(calls') : i + 1 \in 1..Len(calls) /\ calls'[i] = calls[i + 1]
        /\ calls' # <<>> => LastCall' = LastCall
        /\ calls' = <<>> => LastCall = calls[1]
    BY <1>7, CallDone DEF Removed, ManagerInv
  <2>2. UNCHANGED <<entries, entry, turn, from>> /\ calls # <<>>
    BY <1>7 DEF Removed
  <2>3. CallsMatchEntries'
    <3>1. \A v \in Turn : entry[v] = "acquiring" =>
            \E i \in 1..Len(calls') : calls'[i] = AcquireBy(v)
      <4> SUFFICES ASSUME NEW v \in Turn, entry[v] = "acquiring"
                   PROVE \E i \in 1..Len(calls') : calls'[i] = AcquireBy(v)
        OBVIOUS
      <4>1. PICK i \in 1..Len(calls) : calls[i] = AcquireBy(v)
        BY DEF ManagerInv, CallsMatchEntries
      <4>2. i # 1 BY <4>1, <2>1 DEF AcquireBy
      <4>3. i - 1 \in 1..Len(calls') /\ (i - 1) + 1 = i BY <4>2, <2>1
      <4>4. calls'[i - 1] = AcquireBy(v) BY <4>1, <4>3, <2>1
      <4> QED BY <4>3, <4>4
    <3> QED BY <3>1, <2>1, <2>2 DEF ManagerInv, CallsMatchEntries, AcquireBy
  <2>4. LastCallIsTheEntrys'
    BY <2>1, <2>2 DEF ManagerInv, LastCallIsTheEntrys, AcquireBy
  <2> QED BY <2>3, <2>4
<1>8. ASSUME NEW r \in Reaper, Scan(r) PROVE Goal
  BY <1>8 DEF Scan, ManagerInv, CallsMatchEntries, LastCallIsTheEntrys, LastCall
<1>9. ASSUME NEW r \in Reaper, Visit(r) PROVE Goal
  <2>1. CASE UNCHANGED <<entries, calls, released>>
    BY <1>9, <2>1 DEF Visit, ManagerInv, CallsMatchEntries, LastCallIsTheEntrys, LastCall
  <2>2. CASE entries' = Nobody /\ AskRemoval("release")
    BY <1>9, <2>2, RemovalAsked DEF Visit
  <2> QED BY <1>9, <2>1, <2>2 DEF Visit, Forget
<1>10. ASSUME NEW d \in Deleter, DestroyThread(d) PROVE Goal
  BY <1>10, RemovalAsked DEF DestroyThread, Forget
<1>11. CASE ReleaseAll
  <2>1. CASE Holds BY <1>11, <2>1, RemovalAsked DEF ReleaseAll
  <2>2. CASE ~Holds
    BY <1>11, <2>2 DEF ReleaseAll, Holds, ManagerInv, CallsMatchEntries,
       LastCallIsTheEntrys, LastCall
  <2> QED BY <2>1, <2>2
<1> QED BY <1>1, <1>2, <1>3, <1>4, <1>5, <1>6, <1>7, <1>8, <1>9, <1>10, <1>11
  DEF NextManager, ProviderStep

LEMMA ManagerInvariant ==
    SpecManager => []ManagerInv
<1>1. ManagerInv /\ [NextManager]_managerVars => ManagerInv'
  BY ManagerAssumption, ManagerStep
<1> QED BY <1>1, ManagerInit, PTL DEF SpecManager

(* The manager's state keeps its type.                                     *)
THEOREM ManagerTyped ==
    SpecManager => []ManagerTypeOK
<1>1. ManagerInv => ManagerTypeOK BY DEF ManagerInv
<1>2. SpecManager => []ManagerInv
  BY ManagerInvariant
<1> QED BY <1>1, <1>2, PTL

(* A ready entry in the map is an entry for live compute, with no provider *)
(* call under way that could take it.                                      *)
THEOREM HandlesAreLive ==
    SpecManager => []ServedHandleIsLive
<1>1. ManagerInv => ServedHandleIsLive
  BY DEF ManagerInv, LastCallIsTheEntrys, ServedHandleIsLive
<1>2. SpecManager => []ManagerInv
  BY ManagerInvariant
<1> QED BY <1>1, <1>2, PTL

(* Whoever waits for a handle waits for an acquire that is under way.      *)
THEOREM NobodyIsStranded ==
    SpecManager => []WaitersHaveACall
<1>1. ManagerInv => WaitersHaveACall
  BY DEF ManagerInv, CallsMatchEntries, WaitersHaveACall, AcquireBy
<1>2. SpecManager => []ManagerInv
  BY ManagerInvariant
<1> QED BY <1>1, <1>2, PTL

(* Asking for a removal leaves nothing to ask for.                         *)
LEMMA AskedForAll ==
    ASSUME NEW op, AskRemoval(op), UNCHANGED entry
    PROVE  Unreleased' = {}
BY DEF AskRemoval, Unreleased

(* A step that changes neither which entries there are nor what was asked  *)
(* for hides nothing.                                                      *)
LEMMA SameEntriesHideNothing ==
    ASSUME UNCHANGED <<entries, entry, released>>
    PROVE  Hidden' = Hidden
BY DEF Hidden, Unreleased

LateStep == \E v \in Turn \ {entries} : entry[v] = "acquiring" /\ entry'[v] = "failed"

LEMMA HiddenStep ==
    ManagerAssumption /\ ManagerInv /\ [NextManager]_managerVars
        => Hidden' \subseteq Hidden \/ LateStep
<1> SUFFICES ASSUME ManagerAssumption, ManagerInv, [NextManager]_managerVars
             PROVE  Hidden' \subseteq Hidden \/ LateStep
  OBVIOUS
<1> DEFINE Goal == Hidden' \subseteq Hidden \/ LateStep
<1> USE DEF ManagerAssumption
<1>1. CASE UNCHANGED managerVars BY <1>1, SameEntriesHideNothing DEF managerVars
<1>2. ASSUME NEW u \in Turn, Reuse(u) \/ Join(u) \/ EndTurn(u) PROVE Goal
  BY <1>2, SameEntriesHideNothing DEF Reuse, Join, EndTurn
<1>3. ASSUME NEW u \in Turn, Acquire(u) PROVE Goal
  BY <1>3 DEF Acquire, Hidden, Unreleased, ManagerInv, ManagerTypeOK
<1>4. ASSUME NEW u \in Turn, Acquired(u) PROVE Goal
  <2>1. entry[u] = "acquiring" BY <1>4, HeadIsAcquiring DEF Acquired
  <2> QED
    BY <1>4, <2>1 DEF Acquired, Hidden, Unreleased, ManagerInv, ManagerTypeOK
<1>5. ASSUME NEW u \in Turn, AcquireFailed(u) PROVE Goal
  <2>1. entry[u] = "acquiring" BY <1>5, HeadIsAcquiring DEF AcquireFailed
  <2>2. entry' = [entry EXCEPT ![u] = "failed"] /\ UNCHANGED released
    BY <1>5 DEF AcquireFailed
  <2>3. CASE u = entries
    BY <2>2, <2>3 DEF Hidden, Unreleased, ManagerInv, ManagerTypeOK
  <2>4. CASE u # entries
    BY <2>1, <2>2, <2>4 DEF LateStep, ManagerInv, ManagerTypeOK
  <2> QED BY <2>3, <2>4
<1>6. CASE Removed BY <1>6, SameEntriesHideNothing DEF Removed
<1>7. ASSUME NEW r \in Reaper, Scan(r) PROVE Goal
  BY <1>7, SameEntriesHideNothing DEF Scan
<1>8. ASSUME NEW r \in Reaper, Visit(r) PROVE Goal
  <2>1. CASE UNCHANGED <<entries, calls, released>>
    BY <1>8, <2>1, SameEntriesHideNothing DEF Visit
  <2>2. CASE AskRemoval("release")
    BY <1>8, <2>2, AskedForAll DEF Visit, Hidden
  <2> QED BY <1>8, <2>1, <2>2 DEF Visit
<1>9. ASSUME NEW d \in Deleter, DestroyThread(d) PROVE Goal
  BY <1>9, AskedForAll DEF DestroyThread, Hidden
<1>10. CASE ReleaseAll
  <2>1. CASE Holds BY <1>10, <2>1, AskedForAll DEF ReleaseAll, Hidden
  <2>2. CASE ~Holds
    BY <1>10, <2>2, SameEntriesHideNothing DEF ReleaseAll, Holds
  <2> QED BY <2>1, <2>2
<1> QED BY <1>1, <1>2, <1>3, <1>4, <1>5, <1>6, <1>7, <1>8, <1>9, <1>10
  DEF NextManager, ProviderStep

(* What failed and what was asked for stays so.                            *)
LEMMA FailuresStay ==
    ManagerAssumption /\ ManagerInv /\ [NextManager]_managerVars =>
        released \subseteq released'
        /\ \A v \in Turn : entry[v] = "failed" => entry'[v] = "failed"
<1> SUFFICES ASSUME ManagerAssumption, ManagerInv, [NextManager]_managerVars
             PROVE  released \subseteq released'
                    /\ \A v \in Turn : entry[v] = "failed" => entry'[v] = "failed"
  OBVIOUS
<1> DEFINE Goal == released \subseteq released'
                   /\ \A v \in Turn : entry[v] = "failed" => entry'[v] = "failed"
<1>1. CASE UNCHANGED managerVars BY <1>1 DEF managerVars
<1>2. ASSUME NEW u \in Turn, Reuse(u) \/ Join(u) \/ EndTurn(u) PROVE Goal
  BY <1>2 DEF Reuse, Join, EndTurn
<1>3. ASSUME NEW u \in Turn, Acquire(u) PROVE Goal
  BY <1>3 DEF Acquire, ManagerInv, ManagerTypeOK, CallsMatchEntries
<1>4. ASSUME NEW u \in Turn, Acquired(u) \/ AcquireFailed(u) PROVE Goal
  <2>1. entry[u] = "acquiring" BY <1>4, HeadIsAcquiring DEF Acquired, AcquireFailed
  <2> QED BY <1>4, <2>1 DEF Acquired, AcquireFailed, ManagerInv, ManagerTypeOK
<1>5. CASE Removed BY <1>5 DEF Removed
<1>6. ASSUME NEW r \in Reaper, Scan(r) \/ Visit(r) PROVE Goal
  BY <1>6 DEF Scan, Visit, AskRemoval
<1>7. ASSUME NEW d \in Deleter, DestroyThread(d) PROVE Goal
  BY <1>7 DEF DestroyThread, AskRemoval
<1>8. CASE ReleaseAll BY <1>8 DEF ReleaseAll, AskRemoval
<1> QED BY <1>1, <1>2, <1>3, <1>4, <1>5, <1>6, <1>7, <1>8 DEF NextManager, ProviderStep

(* A sandbox is hidden only in the step in which an acquire rejects whose  *)
(* entry had left the map.                                                 *)
THEOREM OnlyLateFailuresHide ==
    SpecManager => OnlyALateFailureHides
<1>1. ManagerInv /\ [NextManager]_managerVars =>
        [Hidden' \subseteq Hidden \/ LateStep]_managerVars
  BY ManagerAssumption, HiddenStep
<1>2. SpecManager => [][Hidden' \subseteq Hidden \/ LateStep]_managerVars
  BY <1>1, ManagerInvariant, PTL DEF SpecManager
<1> QED BY <1>2 DEF OnlyALateFailureHides, LateStep

HiddenOnlyIfLate == Hidden = {} \/ LateFailure

(* As long as no acquire failed after the removal of its own sandbox was   *)
(* asked for, every sandbox nobody asked to remove is in the map: failures *)
(* of acquires nobody overtook, reaper, deletes and shutdown hide nothing. *)
THEOREM NothingHiddenUnlessLate ==
    SpecManager => []HiddenOnlyIfLate
<1>1. InitManager => HiddenOnlyIfLate
  BY DEF InitManager, HiddenOnlyIfLate, Hidden, Unreleased
<1>2. ManagerInv /\ HiddenOnlyIfLate /\ [NextManager]_managerVars => HiddenOnlyIfLate'
  <2> SUFFICES ASSUME ManagerInv, HiddenOnlyIfLate, [NextManager]_managerVars
               PROVE  HiddenOnlyIfLate'
    OBVIOUS
  <2>1. /\ released \subseteq released' /\ released \subseteq Turn
        /\ \A v \in Turn : entry[v] = "failed" => entry'[v] = "failed"
    BY ManagerAssumption, FailuresStay DEF ManagerInv, ManagerTypeOK
  <2>2. CASE LateFailure BY <2>1, <2>2 DEF LateFailure, HiddenOnlyIfLate
  <2>3. CASE Hidden = {} /\ Hidden' \subseteq Hidden BY <2>3 DEF HiddenOnlyIfLate
  <2>4. CASE Hidden = {} /\ LateStep
    <3>1. PICK v \in Turn \ {entries} : entry[v] = "acquiring" /\ entry'[v] = "failed"
      BY <2>4 DEF LateStep
    <3>2. v \in released BY <2>4, <3>1 DEF Hidden, Unreleased
    <3> QED BY <2>1, <3>1, <3>2 DEF LateFailure, HiddenOnlyIfLate
  <2> QED BY <2>2, <2>3, <2>4, ManagerAssumption, HiddenStep DEF HiddenOnlyIfLate
<1> QED BY <1>1, <1>2, ManagerInvariant, PTL DEF SpecManager

ShutdownMissesOnlyIfLate ==
    [][~closed /\ closed' => Unreleased' = {} \/ LateFailure']_managerVars

(* The shutdown asks for the removal of every sandbox, as releaseAll says  *)
(* of itself, unless an acquire failed late.                               *)
THEOREM ShutdownMissesNothingElse ==
    SpecManager => ShutdownMissesOnlyIfLate
<1>1. ManagerInv /\ HiddenOnlyIfLate' /\ [NextManager]_managerVars =>
        [~closed /\ closed' => Unreleased' = {} \/ LateFailure']_managerVars
  <2> SUFFICES ASSUME HiddenOnlyIfLate', NextManager, ~closed, closed'
               PROVE  Unreleased' = {} \/ LateFailure'
    OBVIOUS
  <2>1. ReleaseAll
    BY DEF NextManager, ProviderStep, Reuse, Join, Acquire, EndTurn, Acquired,
       AcquireFailed, Removed, Scan, Visit, DestroyThread
  <2>2. entries' = Nobody /\ Nobody \notin Turn
    BY <2>1, ManagerAssumption DEF ReleaseAll, ManagerAssumption
  <2> QED BY <2>2 DEF HiddenOnlyIfLate, Hidden, Unreleased
<1>2. SpecManager => [][~closed /\ closed' => Unreleased' = {} \/ LateFailure']_managerVars
  BY <1>1, ManagerInvariant, NothingHiddenUnlessLate, PTL DEF SpecManager
<1> QED BY <1>2 DEF ShutdownMissesOnlyIfLate
=============================================================================
