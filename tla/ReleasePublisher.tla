--------------------------- MODULE ReleasePublisher ---------------------------
(***************************************************************************)
(* The serial npm publisher (scripts/release/publisher.mjs). A run looks   *)
(* at every package of the sealed manifest, publishes the missing ones in  *)
(* order, each only when the one before reads back verified, and reads all *)
(* of them again. It keeps nothing: a run that died, failed or ran out of  *)
(* time is started again and finds its place by reading the registry, and  *)
(* the registry shows an accepted version part by part, in any order and   *)
(* as late as it likes. The workflow's concurrency group keeps runs apart; *)
(* other publishers work at any time.                                      *)
(*                                                                         *)
(* Every read of the registry is a step; between reads the run only        *)
(* computes, so what follows from a read is part of its step.              *)
(***************************************************************************)
EXTENDS Naturals, FiniteSets

CONSTANTS
    Last,           \* the packages are 1 .. Last, in the manifest's order
    MaxTrouble,     \* bound: the runs that die, time out or hit a read that fails
    MaxOthers       \* bound: the publications by others

ASSUME PublisherAssumption ==
    Last \in Nat \ {0} /\ MaxTrouble \in Nat /\ MaxOthers \in Nat

Package == 1 .. Last
(* What a version shows: its record, its dist-tag, its tarball and its     *)
(* signature with the provenance.                                          *)
Facet == {"version", "tag", "tarball", "audit"}
(* A dist-tag as the publisher compares it with the candidate.             *)
Tag == {"older", "own", "newer"}
Pass == {"start", "initial", "again", "sweep", "publish", "accepted", "wait", "final", "ended"}
Read == {"metadata", "version", "tarball", "audit"}
Outcome == {"open", "failed", "superseded", "complete"}

VARIABLES
    held,       \* held[p]: whose bytes the registry has under this version
    shown,      \* shown[p]: the facets of our version that reads return by now
    newer,      \* newer[p]: a newer latest: "no", "latest", or "replaced" but still read
    pass,       \* where the run is in publishManifestSerially
    index,      \* the package it is at
    next,       \* the next read of that package
    tags,       \* the latest of each package as the run read it last
    swept,      \* the packages the sweep has read
    record,     \* the latest in the version record as the run read it last
    found,      \* the packages the initial pass found published
    started,    \* candidateStarted
    outcome,    \* what the run returned
    sent,       \* history: the packages this run has published
    seen,       \* history: the packages this run has read anything of our version of
    warned,     \* history: this run has read a newer latest
    trouble, others \* the bounds' counters

registryVars == <<held, shown, newer, others>>
readVars == <<next, tags, swept, record, seen, warned>>
runVars == <<pass, index, found, started, outcome, sent, trouble>>
vars == <<registryVars, readVars, runVars>>

Init ==
    /\ held = [p \in Package |-> "nobody"]
    /\ shown = [p \in Package |-> {}]
    /\ newer = [p \in Package |-> "no"]
    /\ pass = "start" /\ index = 1 /\ next = "metadata"
    /\ tags = [p \in Package |-> "older"] /\ swept = {}
    /\ record = "older"
    /\ found = {} /\ started = FALSE /\ outcome = "open"
    /\ sent = {} /\ seen = {} /\ warned = FALSE
    /\ trouble = 0 /\ others = 0

-----------------------------------------------------------------------------
(* The registry, and the others.                                           *)
Latest(p) == IF newer[p] # "no" THEN "newer"
             ELSE IF "tag" \in shown[p] THEN "own" ELSE "older"

(* A facet of an accepted version reaches the readers. The tag is ours,    *)
(* unless somebody has set it to a newer version since.                    *)
Shows(p, f) ==
    /\ held[p] # "nobody" /\ f \notin shown[p]
    /\ shown' = [shown EXCEPT ![p] = @ \cup {f}]
    /\ newer' = IF f = "tag" /\ newer[p] = "replaced" THEN [newer EXCEPT ![p] = "no"] ELSE newer
    /\ UNCHANGED <<held, others, readVars, runVars>>

(* Another publisher releases a newer version of p, or takes our version.  *)
NewerRelease(p) ==
    /\ others < MaxOthers /\ newer[p] # "latest"
    /\ newer' = [newer EXCEPT ![p] = "latest"] /\ others' = others + 1
    /\ UNCHANGED <<held, shown, readVars, runVars>>

ForeignBytes(p) ==
    /\ others < MaxOthers /\ held[p] = "nobody"
    /\ held' = [held EXCEPT ![p] = "theirs"] /\ others' = others + 1
    /\ UNCHANGED <<shown, newer, readVars, runVars>>

-----------------------------------------------------------------------------
(* Where a run goes. Goes(to, p) also starts a round of reads of p.        *)
Goes(to, p) == pass' = to /\ index' = p /\ next' = "metadata" /\ UNCHANGED outcome
Ends(how) == pass' = "ended" /\ outcome' = how /\ UNCHANGED <<index, next>>
ReadsOn(read) == next' = read /\ UNCHANGED <<pass, index, outcome>>

(* A newer latest is a conflict with a candidate that has been started,    *)
(* and leaves nothing to do for one that has not.                          *)
Superseded(begun) == Ends(IF begun THEN "failed" ELSE "superseded")

(* Package p's turn: wait for it if the initial pass found it published,   *)
(* look for it again otherwise; after the last package, the final pass.    *)
Turn(p, known) ==
    IF p > Last THEN Goes("final", 1) ELSE Goes(IF p \in known THEN "wait" ELSE "again", p)

(* The next poll of waitUntilVerified starts over. Mutant: it keeps the    *)
(* metadata that it has.                                                   *)
PollsTheVersion == ReadsOn("version")
Polls == ReadsOn("metadata")

(* What a round that is not verified means: wait on, or fail the last pass.*)
NotYet == IF pass = "wait" THEN Polls ELSE Ends("failed")

(* newerLatest. Mutant: of all packages it looks at the present one.       *)
NewerHere == tags[index] = "newer"
NewerLatest == \E p \in Package : tags[p] = "newer"

(* The initial pass has classified its package; it decides after the last. *)
Classified(known, begun) ==
    IF index < Last THEN Goes("initial", index + 1)
    ELSE IF NewerLatest THEN Superseded(begun) ELSE Turn(1, known)

ReadsTag(p) ==
    /\ tags' = [tags EXCEPT ![p] = Latest(p)]
    /\ warned' = (warned \/ Latest(p) = "newer")
    /\ seen' = IF Latest(p) = "own" THEN seen \cup {p} ELSE seen

-----------------------------------------------------------------------------
(* A run starts with nothing but its arguments.                            *)
Start ==
    /\ pass \in {"start", "ended"}
    /\ pass' = "initial" /\ index' = 1 /\ next' = "metadata"
    /\ tags' = [p \in Package |-> "older"] /\ swept' = {} /\ record' = "older"
    /\ found' = {} /\ started' = FALSE /\ outcome' = "open"
    /\ sent' = {} /\ seen' = {} /\ warned' = FALSE
    /\ UNCHANGED <<registryVars, trouble>>

(* It dies, fails in a read, or comes to one of its deadlines.             *)
Stops ==
    /\ pass \notin {"start", "ended"} /\ trouble < MaxTrouble
    /\ Ends("failed") /\ trouble' = trouble + 1
    /\ UNCHANGED <<registryVars, tags, swept, record, seen, warned, found, started, sent>>

(* observePackageMetadata. waitUntilVerified retries one that fails, which *)
(* changes nothing.                                                        *)
ReadMetadata ==
    /\ pass \in {"initial", "wait", "final"} /\ next = "metadata"
    /\ ReadsTag(index)
    /\ IF pass = "wait" /\ Latest(index) = "newer" THEN Ends("failed") ELSE ReadsOn("version")
    /\ UNCHANGED <<registryVars, swept, record, found, started, sent, trouble>>

(* observeVersion, and analyzeVersion up to the download: absent, somebody *)
(* else's bytes, or ours.                                                  *)
Absent ==
    CASE pass = "initial" -> Classified(found, started)
      [] pass = "again" -> Goes("sweep", index)
      [] OTHER -> NotYet

ReadVersion ==
    LET present == "version" \in shown[index]
    IN  /\ \/ pass \in {"initial", "wait", "final"} /\ next = "version"
           \/ pass = "again" /\ next = "metadata"
        /\ record' = IF present THEN Latest(index) ELSE "older"
        /\ seen' = IF present THEN seen \cup {index} ELSE seen
        /\ warned' = (warned \/ (present /\ Latest(index) = "newer"))
        /\ IF ~present THEN Absent
           ELSE IF held[index] = "theirs" THEN Ends("failed") ELSE ReadsOn("tarball")
        /\ UNCHANGED <<registryVars, tags, swept, found, started, sent, trouble>>

(* Mutant: a version whose tarball is still a 404 is not published.        *)
PublishedWhenComplete(status) == status = "present"
IsPublished(status) == status \in {"present", "tarball-pending"}

RegistryReady == tags[index] = "own" /\ record = "own"

(* The rest of analyzeVersion, and what its caller makes of the status.    *)
ReadTarball ==
    LET status == IF "tarball" \in shown[index] THEN "present" ELSE "tarball-pending"
        published == IsPublished(status)
    IN  /\ pass \in {"initial", "again", "wait", "final"} /\ next = "tarball"
        /\ started' = (started \/ (pass \in {"initial", "again"} /\ published))
        /\ found' = IF pass = "initial" /\ published THEN found \cup {index} ELSE found
        /\ CASE pass = "initial" -> Classified(found', started')
             [] pass = "again" -> Goes(IF published THEN "wait" ELSE "sweep", index)
             [] OTHER -> IF status = "present" /\ RegistryReady THEN ReadsOn("audit") ELSE NotYet
        /\ UNCHANGED <<registryVars, tags, swept, record, seen, warned, sent, trouble>>

(* observeNpmAudit: the package is verified, or its audit is pending.      *)
Verified ==
    IF pass = "wait" THEN Turn(index + 1, found)
    ELSE IF index < Last THEN Goes("final", index + 1) ELSE Ends("complete")

ReadAudit ==
    /\ pass \in {"wait", "final"} /\ next = "audit"
    /\ IF "audit" \in shown[index] THEN Verified ELSE NotYet
    /\ UNCHANGED <<registryVars, tags, swept, record, seen, warned, found, started, sent, trouble>>

(* sweepLatest reads every latest at once, the answers in any order.       *)
SweepRead(p) ==
    /\ pass = "sweep" /\ p \notin swept
    /\ ReadsTag(p) /\ swept' = swept \cup {p}
    /\ UNCHANGED <<registryVars, pass, index, next, record, found, started, outcome, sent, trouble>>

Swept ==
    /\ pass = "sweep" /\ swept = Package
    /\ swept' = {}
    /\ started' = (started \/ (~NewerLatest /\ tags[index] = "own"))
    /\ IF NewerLatest THEN Superseded(started)
       ELSE Goes(IF tags[index] = "own" THEN "wait" ELSE "publish", index)
    /\ UNCHANGED <<registryVars, tags, record, seen, warned, found, sent, trouble>>

(* npm publish: the registry takes the version and sets its tag, or has    *)
(* the version and refuses; the answer comes back in a step of its own.    *)
Publish ==
    /\ pass = "publish"
    /\ IF held[index] = "nobody"
       THEN /\ held' = [held EXCEPT ![index] = "ours"]
            /\ newer' = [newer EXCEPT ![index] = IF @ = "latest" THEN "replaced" ELSE @]
            /\ sent' = sent \cup {index}
            /\ Goes("accepted", index)
       ELSE Ends("failed") /\ UNCHANGED <<held, newer, sent>>
    /\ UNCHANGED <<shown, others, tags, swept, record, seen, warned, found, started, trouble>>

(* Mutants: the run goes on without waiting; the candidate counts as       *)
(* started only when a package of it is found.                             *)
AcceptedHasty ==
    /\ pass = "accepted"
    /\ started' = TRUE /\ Turn(index + 1, found)
    /\ UNCHANGED <<registryVars, tags, swept, record, seen, warned, found, sent, trouble>>
AcceptedUncounted ==
    /\ pass = "accepted"
    /\ Goes("wait", index)
    /\ UNCHANGED <<registryVars, tags, swept, record, seen, warned, found, started, sent, trouble>>
Accepted ==
    /\ pass = "accepted"
    /\ started' = TRUE /\ Goes("wait", index)
    /\ UNCHANGED <<registryVars, tags, swept, record, seen, warned, found, sent, trouble>>

RunStep ==
    \/ ReadMetadata \/ ReadVersion \/ ReadTarball \/ ReadAudit
    \/ \E p \in Package : SweepRead(p)
    \/ Swept \/ Publish \/ Accepted

Next ==
    \/ Start \/ Stops \/ RunStep
    \/ \E p \in Package, f \in Facet : Shows(p, f)
    \/ \E p \in Package : NewerRelease(p) \/ ForeignBytes(p)

Spec == Init /\ [][Next]_vars

(* A run takes its steps or is stopped, a run that ended is started again  *)
(* (by hand, or by the workflow's schedule), and the registry shows what   *)
(* it has accepted at last.                                                *)
Fairness ==
    /\ WF_vars(RunStep) /\ WF_vars(Start)
    /\ \A p \in Package, f \in Facet : WF_vars(Shows(p, f))
FairSpec == Spec /\ Fairness

-----------------------------------------------------------------------------
TypeOK ==
    /\ held \in [Package -> {"nobody", "ours", "theirs"}]
    /\ shown \in [Package -> SUBSET Facet]
    /\ newer \in [Package -> {"no", "latest", "replaced"}]
    /\ pass \in Pass /\ index \in Package /\ next \in Read
    /\ tags \in [Package -> Tag] /\ swept \subseteq Package /\ record \in Tag
    /\ found \subseteq Package /\ started \in BOOLEAN /\ outcome \in Outcome
    /\ sent \subseteq Package /\ seen \subseteq Package /\ warned \in BOOLEAN
    /\ trouble \in 0 .. MaxTrouble /\ others \in 0 .. MaxOthers

(* A package is never on the registry before those it depends on can be    *)
(* read in full, whichever run published which of them: ours at p means    *)
(* that every facet of the packages before it is shown.                    *)
Readable(p) == held[p] = "ours" /\ shown[p] = Facet
DependenciesFirst ==
    \A p, q \in Package : q < p /\ held[p] = "ours" => Readable(q)

(* A run that has read any sign of our version of a package, its record    *)
(* (with or without the tarball) or its tag, does not publish it.          *)
NeverRepublishes == pass = "publish" => index \notin seen

(* A run that has read a newer latest of any package, in any pass,         *)
(* publishes nothing more and does not report the release as complete.     *)
NewerEndsTheRun == warned => pass # "publish" /\ outcome # "complete"

(* What a run returns is true. One that was superseded has published       *)
(* nothing, and its initial pass has found nothing published: a newer      *)
(* version over a candidate that is out in part is a conflict, never a     *)
(* silent success. One that is complete leaves every package readable,     *)
(* under our bytes.                                                        *)
ResultsAreTrue ==
    /\ outcome = "superseded" => sent = {} /\ found = {}
    /\ outcome = "complete" => \A p \in Package : Readable(p)

(* However often runs die, and whatever the registry shows how late, the   *)
(* candidate is completed again and again, unless somebody else publishes. *)
Completes == []<>(outcome = "complete") \/ <>(others > 0)

===============================================================================
