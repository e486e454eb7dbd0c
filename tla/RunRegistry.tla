---------------------------- MODULE RunRegistry ----------------------------
(***************************************************************************)
(* The process-local registry of in-flight runs                            *)
(* (packages/cli/src/lib/dev/run-registry.ts).                             *)
(*                                                                         *)
(* A thread has one run slot.  `begin` is a synchronous check-and-set, so  *)
(* it is one action; so is every other method.  A run is identified by the *)
(* RunHandle its `begin` returned: the code compares entries by object     *)
(* identity, and a Run of this module stands for that object.  A Claim     *)
(* stands for the RunClaim object a POST /threads/:id/cancel holds while   *)
(* it awaits its authorization.                                            *)
(*                                                                         *)
(* Each run is handed a source signal of its own (the request's shutdown   *)
(* signal, or for AG-UI the request controller); `fired` is the set of the *)
(* runs whose source signal has aborted.                                   *)
(***************************************************************************)
CONSTANTS Thread, Run, Claim, NoRun

(* What the theorems about the registry assume.                            *)
RegistryAssumption == NoRun \notin Run

VARIABLES
    entries,    \* entries[t]: the run that holds t's slot, or NoRun
    handle,     \* handle[r]: "new", "held" or "released"
    threadOf,   \* threadOf[r]: the thread r was begun on
    cancelled,  \* the runs cancelled through the registry
    aborted,    \* the runs whose composed signal has aborted
    fired,      \* the runs whose source signal has aborted
    claims      \* claims[c]: the run c is bound to, or NoRun

registryVars == <<entries, handle, threadOf, cancelled, aborted, fired, claims>>

Init ==
    /\ entries = [t \in Thread |-> NoRun]
    /\ handle = [r \in Run |-> "new"]
    /\ threadOf \in [Run -> Thread]
    /\ cancelled = {}
    /\ aborted = {}
    /\ fired = {}
    /\ claims = [c \in Claim |-> NoRun]

(* begin on a free slot.  A source signal that already fired aborts the    *)
(* composed signal at once.                                                *)
Begin(t, r) ==
    /\ handle[r] = "new"
    /\ entries[t] = NoRun
    /\ entries' = [entries EXCEPT ![t] = r]
    /\ handle' = [handle EXCEPT ![r] = "held"]
    /\ threadOf' = [threadOf EXCEPT ![r] = t]
    /\ aborted' = IF r \in fired THEN aborted \cup {r} ELSE aborted
    /\ UNCHANGED <<cancelled, fired, claims>>

(* release: idempotent, and guarded by the identity of the entry.          *)
Release(r) ==
    /\ handle[r] = "held"
    /\ handle' = [handle EXCEPT ![r] = "released"]
    /\ entries' = [entries EXCEPT
                     ![threadOf[r]] = IF @ = r THEN NoRun ELSE @]
    /\ UNCHANGED <<threadOf, cancelled, aborted, fired, claims>>

(* claim(threadId): binds to whatever run holds the slot right now.        *)
TakeClaim(c, t) ==
    /\ claims[c] = NoRun
    /\ claims' = [claims EXCEPT ![c] = entries[t]]
    /\ UNCHANGED <<entries, handle, threadOf, cancelled, aborted, fired>>

Bound(c) == /\ claims[c] # NoRun
            /\ entries[threadOf[claims[c]]] = claims[c]

(* entry.cancel: marks the run and aborts its composed signal.             *)
CancelEntry(r) ==
    /\ cancelled' = cancelled \cup {r}
    /\ aborted' = aborted \cup {r}
    /\ UNCHANGED <<entries, handle, threadOf, fired, claims>>

(* Mutant: the identity guard is missing.                                  *)
CancelReplaced(c) == claims[c] # NoRun /\ CancelEntry(claims[c])

(* claim.cancel(): true, and a cancel, only if the claimed run still holds *)
(* the slot.                                                               *)
CancelClaim(c) ==
    /\ Bound(c)
    /\ CancelEntry(claims[c])

(* cancel(threadId): resolves the entry at call time.                      *)
CancelThread(t) ==
    /\ entries[t] # NoRun
    /\ CancelEntry(entries[t])

(* The source signals of the runs in S abort.  Only a held run still has   *)
(* its listener: release() removed it from the others.                     *)
SourceAbort(S) ==
    /\ fired' = fired \cup S
    /\ aborted' = aborted \cup {r \in S : handle[r] = "held"}
    /\ UNCHANGED <<entries, handle, threadOf, cancelled, claims>>

Next ==
    \/ \E r \in Run :
         \/ \E t \in Thread : Begin(t, r)
         \/ Release(r)
         \/ r \notin fired /\ SourceAbort({r})
    \/ Run \ fired # {} /\ SourceAbort(Run)
    \/ \E c \in Claim :
         \/ \E t \in Thread : TakeClaim(c, t)
         \/ CancelClaim(c)
    \/ \E t \in Thread : CancelThread(t)

Spec == Init /\ [][Next]_registryVars

-----------------------------------------------------------------------------
(* Every component of the registry's state has its type.                   *)
TypeOK ==
    /\ entries \in [Thread -> Run \cup {NoRun}]
    /\ handle \in [Run -> {"new", "held", "released"}]
    /\ threadOf \in [Run -> Thread]
    /\ cancelled \subseteq Run
    /\ aborted \subseteq Run
    /\ fired \subseteq Run
    /\ claims \in [Claim -> Run \cup {NoRun}]

(* A run holds its thread's slot exactly while its handle is unreleased:   *)
(* no sequence of begins, releases, cancels and aborts orphans a live run  *)
(* or leaves a finished one blocking the thread (the "unkillable run" of   *)
(* run-registry.ts:7-8).                                                   *)
EntryIffHeld ==
    \A r \in Run, t \in Thread :
        entries[t] = r <=> handle[r] = "held" /\ threadOf[r] = t

(* A live run whose source signal fired has an aborted signal, whether the *)
(* signal fired before or after begin; and an aborted run was cancelled or *)
(* its source fired.                                                       *)
AbortTracksSources ==
    /\ \A r \in Run : handle[r] = "held" /\ r \in fired => r \in aborted
    /\ cancelled \subseteq aborted
    /\ aborted \subseteq cancelled \cup fired

(* A claim never cancels a run that replaced the one it observed: only a   *)
(* run that holds its slot is newly cancelled, and by a claim only the run *)
(* that claim was bound to before the step.                                *)
CancelHitsHolder ==
    [][\A r \in cancelled' \ cancelled :
          handle[r] = "held" /\ entries[threadOf[r]] = r]_registryVars

=============================================================================
