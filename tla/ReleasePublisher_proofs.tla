----------------------- MODULE ReleasePublisher_proofs -----------------------
(***************************************************************************)
(* Proofs about ReleasePublisher, for any number of packages, of runs that *)
(* die and of publications by others.                                      *)
(*                                                                         *)
(* IInv has a part for each reason the properties hold: what a read has    *)
(* returned stays true of the registry (ShownInv), the loop leaves         *)
(* readable packages behind (OrderInv), its variables go together          *)
(* (RunInv), and the two signs that forbid a publication, ours and a newer *)
(* one, are still there when the next decision reads (SeenInv,             *)
(* ReplacedInv, WarnedInv).                                                *)
(***************************************************************************)
EXTENDS ReleasePublisher, TLAPS

Active == {"again", "sweep", "publish", "accepted", "wait"}

(* What reads have returned is there, and stays there.                     *)
ShownInv ==
    /\ \A p \in Package : shown[p] # {} => held[p] # "nobody"
    /\ \A p \in Package : tags[p] = "own" => "tag" \in shown[p]
    /\ next \in {"tarball", "audit"} => held[index] = "ours" /\ "version" \in shown[index]
    /\ next = "audit" => {"tag", "tarball"} \subseteq shown[index]

(* The packages before the one the run is at are readable.                 *)
OrderInv ==
    /\ DependenciesFirst
    /\ pass \in Active => \A q \in Package : q < index => Readable(q)
    /\ pass = "final" \/ outcome = "complete" => \A q \in Package : Readable(q)

(* How the run's variables go together.                                    *)
RunInv ==
    /\ pass # "ended" => outcome = "open"
    /\ pass \notin {"sweep", "ended"} => swept = {}
    /\ ~started => found = {} /\ (pass \notin {"accepted", "ended"} => sent = {})
    /\ outcome = "superseded" => sent = {} /\ found = {}

(* A package of which the run has seen a sign shows it again to the reads  *)
(* that decide whether to publish it.                                      *)
SeenInv ==
    /\ \A p \in seen : "version" \in shown[p] \/ "tag" \in shown[p]
    /\ pass = "sweep" /\ index \in seen =>
         "tag" \in shown[index] /\ (index \in swept => tags[index] # "older")
    /\ NeverRepublishes

(* Only a version the run has published itself can replace a newer latest  *)
(* unnoticed: an older replacement was read as newer by the initial pass.  *)
ReadBy(p) == p < index \/ (p = index /\ next # "metadata")
ReplacedInv ==
    /\ pass = "initial" => \A p \in Package :
         /\ ReadBy(p) /\ newer[p] = "replaced" => tags[p] = "newer"
         /\ ~ReadBy(p) => tags[p] = "older"
    /\ pass \in Active => \A p \in Package : p > index => newer[p] # "replaced"
    /\ pass \in {"again", "sweep", "publish"} => newer[index] # "replaced"
    /\ pass = "wait" /\ next = "version" => newer[index] # "replaced"

(* A newer latest that was read is still there to be read by the next      *)
(* step that could publish or complete.                                    *)
WarnedInv ==
    warned =>
        /\ pass \notin {"start", "publish", "accepted"} /\ outcome # "complete"
        /\ pass = "initial" => \E p \in Package : tags[p] = "newer" \/ newer[p] = "latest"
        /\ pass = "again" => \E p \in Package : p >= index /\ newer[p] = "latest"
        /\ pass = "sweep" => \E p \in Package :
             IF p \in swept THEN tags[p] = "newer" ELSE newer[p] = "latest"
        /\ pass = "wait" => \E p \in Package :
             /\ p >= index /\ newer[p] = "latest"
             /\ p = index => next = "metadata" \/ (next = "tarball" /\ record = "newer")
        /\ pass = "final" =>
             /\ next \in {"version", "tarball"}
             /\ tags[index] = "newer" \/ (next = "tarball" /\ record = "newer")

IInv == /\ TypeOK /\ ShownInv /\ OrderInv /\ RunInv
        /\ SeenInv /\ ReplacedInv /\ WarnedInv

-----------------------------------------------------------------------------
(* The state of the registry and of the run keeps its type.                *)
LEMMA TypeStep ==
    TypeOK /\ [Next]_vars => TypeOK'
<1> SUFFICES ASSUME TypeOK, [Next]_vars
             PROVE  TypeOK'
  OBVIOUS
<1> USE DEF Package
<1>1. CASE Start
  <2>1. 1 \in Package /\ [p \in Package |-> "older"] \in [Package -> Tag]
    BY PublisherAssumption DEF Tag
  <2> QED
    BY <1>1, <2>1 DEF Start, registryVars, TypeOK, Pass, Read, Outcome
<1>2. CASE Stops
  BY <1>2, PublisherAssumption DEF Stops, Ends, registryVars, TypeOK, Pass,
          Read, Outcome, Tag, Facet
<1>3. CASE ReadMetadata
  BY <1>3, PublisherAssumption DEF ReadMetadata, ReadsTag, Latest, Ends,
          ReadsOn, registryVars, TypeOK, Pass, Read, Outcome, Tag, Facet
<1>4. CASE ReadVersion
  BY <1>4, PublisherAssumption DEF ReadVersion, Absent, Classified,
          NewerLatest, Superseded, Turn, NotYet, Polls, Latest, Goes, Ends,
          ReadsOn, registryVars, TypeOK, Pass, Read, Outcome, Tag, Facet
<1>5. CASE ReadTarball
  BY <1>5, PublisherAssumption DEF ReadTarball, IsPublished, RegistryReady,
          Classified, NewerLatest, Superseded, Turn, NotYet, Polls, Goes,
          Ends, ReadsOn, registryVars, TypeOK, Pass, Read, Outcome, Tag, Facet
<1>6. CASE ReadAudit
  BY <1>6, PublisherAssumption DEF ReadAudit, Verified, Turn, NotYet, Polls,
          Goes, Ends, ReadsOn, registryVars, TypeOK, Pass, Read, Outcome, Tag,
          Facet
<1>7. ASSUME NEW p \in Package, SweepRead(p)
      PROVE  TypeOK'
  BY <1>7, PublisherAssumption DEF SweepRead, ReadsTag, Latest, registryVars,
          TypeOK, Pass, Read, Outcome, Tag, Facet
<1>8. CASE Swept
  BY <1>8, PublisherAssumption DEF Swept, NewerLatest, Superseded, Goes, Ends,
          registryVars, TypeOK, Pass, Read, Outcome, Tag, Facet
<1>9. CASE Publish
  BY <1>9, PublisherAssumption DEF Publish, Goes, Ends, TypeOK, Pass, Read,
          Outcome, Tag, Facet
<1>10. CASE Accepted
  BY <1>10, PublisherAssumption DEF Accepted, Goes, registryVars, TypeOK,
          Pass, Read, Outcome, Tag, Facet
<1>11. ASSUME NEW p \in Package, NEW f \in Facet, Shows(p, f)
      PROVE  TypeOK'
  BY <1>11, PublisherAssumption DEF Shows, readVars, runVars, TypeOK, Pass,
          Read, Outcome, Tag, Facet
<1>12. ASSUME NEW p \in Package, NewerRelease(p)
      PROVE  TypeOK'
  BY <1>12, PublisherAssumption DEF NewerRelease, readVars, runVars, TypeOK,
          Pass, Read, Outcome, Tag, Facet
<1>13. ASSUME NEW p \in Package, ForeignBytes(p)
      PROVE  TypeOK'
  BY <1>13, PublisherAssumption DEF ForeignBytes, readVars, runVars, TypeOK,
          Pass, Read, Outcome, Tag, Facet
<1>14. CASE UNCHANGED vars
  BY <1>14, PublisherAssumption DEF vars, registryVars, readVars, runVars,
          TypeOK, Pass, Read, Outcome, Tag, Facet
<1> QED
  BY <1>1, <1>2, <1>3, <1>4, <1>5, <1>6, <1>7, <1>8, <1>9, <1>10, <1>11, <1>12, <1>13, <1>14 DEF Next, RunStep

(* A read of our version, or of its tag, stays true.                       *)
LEMMA ShownStep ==
    TypeOK /\ ShownInv /\ [Next]_vars => ShownInv'
<1> SUFFICES ASSUME TypeOK, ShownInv, [Next]_vars
             PROVE  ShownInv'
  OBVIOUS
<1> USE DEF Package
<1>1. CASE Start
  BY <1>1, PublisherAssumption DEF Start, registryVars, TypeOK, ShownInv, Tag,
          Facet
<1>2. CASE Stops
  BY <1>2, PublisherAssumption DEF Stops, Ends, registryVars, TypeOK,
          ShownInv, Tag, Facet
<1>3. CASE ReadMetadata
  BY <1>3, PublisherAssumption DEF ReadMetadata, ReadsTag, Latest, Ends,
          ReadsOn, registryVars, TypeOK, ShownInv, Tag, Facet
<1>4. CASE ReadVersion
  BY <1>4, PublisherAssumption DEF ReadVersion, Absent, Classified,
          NewerLatest, Superseded, Turn, NotYet, Polls, Latest, Goes, Ends,
          ReadsOn, registryVars, TypeOK, ShownInv, Tag, Facet
<1>5. CASE ReadTarball
  BY <1>5, PublisherAssumption DEF ReadTarball, IsPublished, RegistryReady,
          Classified, NewerLatest, Superseded, Turn, NotYet, Polls, Goes,
          Ends, ReadsOn, registryVars, TypeOK, ShownInv, Tag, Facet
<1>6. CASE ReadAudit
  BY <1>6, PublisherAssumption DEF ReadAudit, Verified, Turn, NotYet, Polls,
          Goes, Ends, ReadsOn, registryVars, TypeOK, ShownInv, Tag, Facet
<1>7. ASSUME NEW p \in Package, SweepRead(p)
      PROVE  ShownInv'
  BY <1>7, PublisherAssumption DEF SweepRead, ReadsTag, Latest, registryVars,
          TypeOK, ShownInv, Tag, Facet
<1>8. CASE Swept
  BY <1>8, PublisherAssumption DEF Swept, NewerLatest, Superseded, Goes, Ends,
          registryVars, TypeOK, ShownInv, Tag, Facet
<1>9. CASE Publish
  BY <1>9, PublisherAssumption DEF Publish, Goes, Ends, TypeOK, ShownInv, Tag,
          Facet
<1>10. CASE Accepted
  BY <1>10, PublisherAssumption DEF Accepted, Goes, registryVars, TypeOK,
          ShownInv, Tag, Facet
<1>11. ASSUME NEW p \in Package, NEW f \in Facet, Shows(p, f)
      PROVE  ShownInv'
  BY <1>11, PublisherAssumption DEF Shows, readVars, runVars, TypeOK,
          ShownInv, Tag, Facet
<1>12. ASSUME NEW p \in Package, NewerRelease(p)
      PROVE  ShownInv'
  BY <1>12, PublisherAssumption DEF NewerRelease, readVars, runVars, TypeOK,
          ShownInv, Tag, Facet
<1>13. ASSUME NEW p \in Package, ForeignBytes(p)
      PROVE  ShownInv'
  BY <1>13, PublisherAssumption DEF ForeignBytes, readVars, runVars, TypeOK,
          ShownInv, Tag, Facet
<1>14. CASE UNCHANGED vars
  BY <1>14, PublisherAssumption DEF vars, registryVars, readVars, runVars,
          TypeOK, ShownInv, Tag, Facet
<1> QED
  BY <1>1, <1>2, <1>3, <1>4, <1>5, <1>6, <1>7, <1>8, <1>9, <1>10, <1>11, <1>12, <1>13, <1>14 DEF Next, RunStep

(* The loop goes on to the next package behind a readable one.             *)
LEMMA OrderStep ==
    TypeOK /\ ShownInv /\ OrderInv /\ RunInv /\ [Next]_vars => OrderInv'
<1> SUFFICES ASSUME TypeOK, ShownInv, OrderInv, RunInv, [Next]_vars
             PROVE  OrderInv'
  OBVIOUS
<1> USE DEF Package
<1>1. CASE Start
  BY <1>1, PublisherAssumption DEF Start, registryVars, TypeOK, Pass, Read,
          Outcome, Tag, Facet, ShownInv, OrderInv, DependenciesFirst,
          Readable, RunInv, Active
<1>2. CASE Stops
  BY <1>2, PublisherAssumption DEF Stops, Ends, registryVars, TypeOK, Pass,
          Read, Outcome, Tag, Facet, ShownInv, OrderInv, DependenciesFirst,
          Readable, RunInv, Active
<1>3. CASE ReadMetadata
  BY <1>3, PublisherAssumption DEF ReadMetadata, ReadsTag, Latest, Ends,
          ReadsOn, registryVars, TypeOK, Pass, Read, Outcome, Tag, Facet,
          ShownInv, OrderInv, DependenciesFirst, Readable, RunInv, Active
<1>4. CASE ReadVersion
  BY <1>4, PublisherAssumption DEF ReadVersion, Absent, Classified,
          NewerLatest, Superseded, Turn, NotYet, Polls, Latest, Goes, Ends,
          ReadsOn, registryVars, TypeOK, Pass, Read, Outcome, Tag, Facet,
          ShownInv, OrderInv, DependenciesFirst, Readable, RunInv, Active
<1>5. CASE ReadTarball
  BY <1>5, PublisherAssumption DEF ReadTarball, IsPublished, RegistryReady,
          Classified, NewerLatest, Superseded, Turn, NotYet, Polls, Goes,
          Ends, ReadsOn, registryVars, TypeOK, Pass, Read, Outcome, Tag,
          Facet, ShownInv, OrderInv, DependenciesFirst, Readable, RunInv,
          Active
<1>6. CASE ReadAudit
  <2>1. "audit" \in shown[index] => Readable(index)
    BY <1>6 DEF ReadAudit, TypeOK, ShownInv, Readable, Facet
  <2>2. CASE "audit" \notin shown[index]
    BY <1>6, <2>2 DEF ReadAudit, NotYet, Polls, Ends, ReadsOn, registryVars,
          TypeOK, OrderInv, DependenciesFirst, Readable, RunInv, Active
  <2>3. CASE "audit" \in shown[index] /\ pass = "wait"
    <3>1. \A q \in Package : q < index + 1 => Readable(q)
      BY <2>1, <2>3 DEF TypeOK, OrderInv, Active
    <3>2. /\ UNCHANGED <<held, shown, outcome>> /\ outcome = "open"
          /\ \/ index + 1 > Last /\ pass' = "final" /\ index' = 1
             \/ index + 1 <= Last /\ pass' \in {"wait", "again"} /\ index' = index + 1
      BY <1>6, <2>3, PublisherAssumption DEF ReadAudit, Verified, Turn, Goes,
          registryVars, RunInv, TypeOK
    <3>3. CASE pass' = "final"
      <4>1. \A q \in Package : Readable(q)
        BY <3>1, <3>2, <3>3, PublisherAssumption DEF TypeOK
      <4> QED
        BY <3>2, <3>3, <4>1 DEF OrderInv, DependenciesFirst, Readable, Active
    <3>4. CASE pass' \in {"wait", "again"}
      BY <3>1, <3>2, <3>4 DEF OrderInv, DependenciesFirst, Readable, Active
    <3> QED
      BY <3>2, <3>3, <3>4
  <2>4. CASE "audit" \in shown[index] /\ pass = "final"
    BY <1>6, <2>4, PublisherAssumption DEF ReadAudit, Verified, Goes, Ends,
          registryVars, TypeOK, OrderInv, DependenciesFirst, Readable, RunInv,
          Active
  <2> QED
    BY <1>6, <2>2, <2>3, <2>4 DEF ReadAudit
<1>7. ASSUME NEW p \in Package, SweepRead(p)
      PROVE  OrderInv'
  BY <1>7, PublisherAssumption DEF SweepRead, ReadsTag, Latest, registryVars,
          TypeOK, Pass, Read, Outcome, Tag, Facet, ShownInv, OrderInv,
          DependenciesFirst, Readable, RunInv, Active
<1>8. CASE Swept
  BY <1>8, PublisherAssumption DEF Swept, NewerLatest, Superseded, Goes, Ends,
          registryVars, TypeOK, Pass, Read, Outcome, Tag, Facet, ShownInv,
          OrderInv, DependenciesFirst, Readable, RunInv, Active
<1>9. CASE Publish
  BY <1>9, PublisherAssumption DEF Publish, Goes, Ends, TypeOK, Pass, Read,
          Outcome, Tag, Facet, ShownInv, OrderInv, DependenciesFirst,
          Readable, RunInv, Active
<1>10. CASE Accepted
  BY <1>10, PublisherAssumption DEF Accepted, Goes, registryVars, TypeOK,
          Pass, Read, Outcome, Tag, Facet, ShownInv, OrderInv,
          DependenciesFirst, Readable, RunInv, Active
<1>11. ASSUME NEW p \in Package, NEW f \in Facet, Shows(p, f)
      PROVE  OrderInv'
  BY <1>11, PublisherAssumption DEF Shows, readVars, runVars, TypeOK, Pass,
          Read, Outcome, Tag, Facet, ShownInv, OrderInv, DependenciesFirst,
          Readable, RunInv, Active
<1>12. ASSUME NEW p \in Package, NewerRelease(p)
      PROVE  OrderInv'
  BY <1>12, PublisherAssumption DEF NewerRelease, readVars, runVars, TypeOK,
          Pass, Read, Outcome, Tag, Facet, ShownInv, OrderInv,
          DependenciesFirst, Readable, RunInv, Active
<1>13. ASSUME NEW p \in Package, ForeignBytes(p)
      PROVE  OrderInv'
  BY <1>13, PublisherAssumption DEF ForeignBytes, readVars, runVars, TypeOK,
          Pass, Read, Outcome, Tag, Facet, ShownInv, OrderInv,
          DependenciesFirst, Readable, RunInv, Active
<1>14. CASE UNCHANGED vars
  BY <1>14, PublisherAssumption DEF vars, registryVars, readVars, runVars,
          TypeOK, Pass, Read, Outcome, Tag, Facet, ShownInv, OrderInv,
          DependenciesFirst, Readable, RunInv, Active
<1> QED
  BY <1>1, <1>2, <1>3, <1>4, <1>5, <1>6, <1>7, <1>8, <1>9, <1>10, <1>11, <1>12, <1>13, <1>14 DEF Next, RunStep

(* The run's variables go together.                                        *)
LEMMA RunInvStep ==
    TypeOK /\ RunInv /\ [Next]_vars => RunInv'
<1> SUFFICES ASSUME TypeOK, RunInv, [Next]_vars
             PROVE  RunInv'
  OBVIOUS
<1> USE DEF Package
<1>1. CASE Start
  BY <1>1, PublisherAssumption DEF Start, registryVars, TypeOK, Pass, Read,
          Outcome, Tag, Facet, RunInv
<1>2. CASE Stops
  BY <1>2, PublisherAssumption DEF Stops, Ends, registryVars, TypeOK, Pass,
          Read, Outcome, Tag, Facet, RunInv
<1>3. CASE ReadMetadata
  BY <1>3, PublisherAssumption DEF ReadMetadata, ReadsTag, Latest, Ends,
          ReadsOn, registryVars, TypeOK, Pass, Read, Outcome, Tag, Facet,
          RunInv
<1>4. CASE ReadVersion
  BY <1>4, PublisherAssumption DEF ReadVersion, Absent, Classified,
          NewerLatest, Superseded, Turn, NotYet, Polls, Latest, Goes, Ends,
          ReadsOn, registryVars, TypeOK, Pass, Read, Outcome, Tag, Facet,
          RunInv
<1>5. CASE ReadTarball
  BY <1>5, PublisherAssumption DEF ReadTarball, IsPublished, RegistryReady,
          Classified, NewerLatest, Superseded, Turn, NotYet, Polls, Goes,
          Ends, ReadsOn, registryVars, TypeOK, Pass, Read, Outcome, Tag,
          Facet, RunInv
<1>6. CASE ReadAudit
  BY <1>6, PublisherAssumption DEF ReadAudit, Verified, Turn, NotYet, Polls,
          Goes, Ends, ReadsOn, registryVars, TypeOK, Pass, Read, Outcome, Tag,
          Facet, RunInv
<1>7. ASSUME NEW p \in Package, SweepRead(p)
      PROVE  RunInv'
  BY <1>7, PublisherAssumption DEF SweepRead, ReadsTag, Latest, registryVars,
          TypeOK, Pass, Read, Outcome, Tag, Facet, RunInv
<1>8. CASE Swept
  BY <1>8, PublisherAssumption DEF Swept, NewerLatest, Superseded, Goes, Ends,
          registryVars, TypeOK, Pass, Read, Outcome, Tag, Facet, RunInv
<1>9. CASE Publish
  BY <1>9, PublisherAssumption DEF Publish, Goes, Ends, TypeOK, Pass, Read,
          Outcome, Tag, Facet, RunInv
<1>10. CASE Accepted
  BY <1>10, PublisherAssumption DEF Accepted, Goes, registryVars, TypeOK,
          Pass, Read, Outcome, Tag, Facet, RunInv
<1>11. ASSUME NEW p \in Package, NEW f \in Facet, Shows(p, f)
      PROVE  RunInv'
  BY <1>11, PublisherAssumption DEF Shows, readVars, runVars, TypeOK, Pass,
          Read, Outcome, Tag, Facet, RunInv
<1>12. ASSUME NEW p \in Package, NewerRelease(p)
      PROVE  RunInv'
  BY <1>12, PublisherAssumption DEF NewerRelease, readVars, runVars, TypeOK,
          Pass, Read, Outcome, Tag, Facet, RunInv
<1>13. ASSUME NEW p \in Package, ForeignBytes(p)
      PROVE  RunInv'
  BY <1>13, PublisherAssumption DEF ForeignBytes, readVars, runVars, TypeOK,
          Pass, Read, Outcome, Tag, Facet, RunInv
<1>14. CASE UNCHANGED vars
  BY <1>14, PublisherAssumption DEF vars, registryVars, readVars, runVars,
          TypeOK, Pass, Read, Outcome, Tag, Facet, RunInv
<1> QED
  BY <1>1, <1>2, <1>3, <1>4, <1>5, <1>6, <1>7, <1>8, <1>9, <1>10, <1>11, <1>12, <1>13, <1>14 DEF Next, RunStep

(* The signs of our version that the run has read can be read again.       *)
LEMMA SeenStep ==
    TypeOK /\ ShownInv /\ RunInv /\ SeenInv /\ [Next]_vars => SeenInv'
<1> SUFFICES ASSUME TypeOK, ShownInv, RunInv, SeenInv, [Next]_vars
             PROVE  SeenInv'
  OBVIOUS
<1> USE DEF Package
<1>1. CASE Start
  BY <1>1, PublisherAssumption DEF Start, registryVars, TypeOK, Pass, Read,
          Outcome, Tag, Facet, ShownInv, RunInv, SeenInv, NeverRepublishes
<1>2. CASE Stops
  BY <1>2, PublisherAssumption DEF Stops, Ends, registryVars, TypeOK, Pass,
          Read, Outcome, Tag, Facet, ShownInv, RunInv, SeenInv,
          NeverRepublishes
<1>3. CASE ReadMetadata
  BY <1>3, PublisherAssumption DEF ReadMetadata, ReadsTag, Latest, Ends,
          ReadsOn, registryVars, TypeOK, Pass, Read, Outcome, Tag, Facet,
          ShownInv, RunInv, SeenInv, NeverRepublishes
<1>4. CASE ReadVersion
  BY <1>4, PublisherAssumption DEF ReadVersion, Absent, Classified,
          NewerLatest, Superseded, Turn, NotYet, Polls, Latest, Goes, Ends,
          ReadsOn, registryVars, TypeOK, Pass, Read, Outcome, Tag, Facet,
          ShownInv, RunInv, SeenInv, NeverRepublishes
<1>5. CASE ReadTarball
  BY <1>5, PublisherAssumption DEF ReadTarball, IsPublished, RegistryReady,
          Classified, NewerLatest, Superseded, Turn, NotYet, Polls, Goes,
          Ends, ReadsOn, registryVars, TypeOK, Pass, Read, Outcome, Tag,
          Facet, ShownInv, RunInv, SeenInv, NeverRepublishes
<1>6. CASE ReadAudit
  BY <1>6, PublisherAssumption DEF ReadAudit, Verified, Turn, NotYet, Polls,
          Goes, Ends, ReadsOn, registryVars, TypeOK, Pass, Read, Outcome, Tag,
          Facet, ShownInv, RunInv, SeenInv, NeverRepublishes
<1>7. ASSUME NEW p \in Package, SweepRead(p)
      PROVE  SeenInv'
  BY <1>7, PublisherAssumption DEF SweepRead, ReadsTag, Latest, registryVars,
          TypeOK, Pass, Read, Outcome, Tag, Facet, ShownInv, RunInv, SeenInv,
          NeverRepublishes
<1>8. CASE Swept
  BY <1>8, PublisherAssumption DEF Swept, NewerLatest, Superseded, Goes, Ends,
          registryVars, TypeOK, Pass, Read, Outcome, Tag, Facet, ShownInv,
          RunInv, SeenInv, NeverRepublishes
<1>9. CASE Publish
  BY <1>9, PublisherAssumption DEF Publish, Goes, Ends, TypeOK, Pass, Read,
          Outcome, Tag, Facet, ShownInv, RunInv, SeenInv, NeverRepublishes
<1>10. CASE Accepted
  BY <1>10, PublisherAssumption DEF Accepted, Goes, registryVars, TypeOK,
          Pass, Read, Outcome, Tag, Facet, ShownInv, RunInv, SeenInv,
          NeverRepublishes
<1>11. ASSUME NEW p \in Package, NEW f \in Facet, Shows(p, f)
      PROVE  SeenInv'
  BY <1>11, PublisherAssumption DEF Shows, readVars, runVars, TypeOK, Pass,
          Read, Outcome, Tag, Facet, ShownInv, RunInv, SeenInv,
          NeverRepublishes
<1>12. ASSUME NEW p \in Package, NewerRelease(p)
      PROVE  SeenInv'
  BY <1>12, PublisherAssumption DEF NewerRelease, readVars, runVars, TypeOK,
          Pass, Read, Outcome, Tag, Facet, ShownInv, RunInv, SeenInv,
          NeverRepublishes
<1>13. ASSUME NEW p \in Package, ForeignBytes(p)
      PROVE  SeenInv'
  BY <1>13, PublisherAssumption DEF ForeignBytes, readVars, runVars, TypeOK,
          Pass, Read, Outcome, Tag, Facet, ShownInv, RunInv, SeenInv,
          NeverRepublishes
<1>14. CASE UNCHANGED vars
  BY <1>14, PublisherAssumption DEF vars, registryVars, readVars, runVars,
          TypeOK, Pass, Read, Outcome, Tag, Facet, ShownInv, RunInv, SeenInv,
          NeverRepublishes
<1> QED
  BY <1>1, <1>2, <1>3, <1>4, <1>5, <1>6, <1>7, <1>8, <1>9, <1>10, <1>11, <1>12, <1>13, <1>14 DEF Next, RunStep

(* A newer latest the run has not read as newer was not there to be read.  *)
LEMMA ReplacedStep ==
    TypeOK /\ RunInv /\ ReplacedInv /\ [Next]_vars => ReplacedInv'
<1> SUFFICES ASSUME TypeOK, RunInv, ReplacedInv, [Next]_vars
             PROVE  ReplacedInv'
  OBVIOUS
<1> USE DEF Package
<1>1. CASE Start
  BY <1>1, PublisherAssumption DEF Start, registryVars, TypeOK, Pass, Read,
          Outcome, Tag, Facet, RunInv, ReplacedInv, ReadBy, Active
<1>2. CASE Stops
  BY <1>2, PublisherAssumption DEF Stops, Ends, registryVars, TypeOK, Pass,
          Read, Outcome, Tag, Facet, RunInv, ReplacedInv, ReadBy, Active
<1>3. CASE ReadMetadata
  BY <1>3, PublisherAssumption DEF ReadMetadata, ReadsTag, Latest, Ends,
          ReadsOn, registryVars, TypeOK, Pass, Read, Outcome, Tag, Facet,
          RunInv, ReplacedInv, ReadBy, Active
<1>4. CASE ReadVersion
  BY <1>4, PublisherAssumption DEF ReadVersion, Absent, Classified,
          NewerLatest, Superseded, Turn, NotYet, Polls, Latest, Goes, Ends,
          ReadsOn, registryVars, TypeOK, Pass, Read, Outcome, Tag, Facet,
          RunInv, ReplacedInv, ReadBy, Active
<1>5. CASE ReadTarball
  BY <1>5, PublisherAssumption DEF ReadTarball, IsPublished, RegistryReady,
          Classified, NewerLatest, Superseded, Turn, NotYet, Polls, Goes,
          Ends, ReadsOn, registryVars, TypeOK, Pass, Read, Outcome, Tag,
          Facet, RunInv, ReplacedInv, ReadBy, Active
<1>6. CASE ReadAudit
  BY <1>6, PublisherAssumption DEF ReadAudit, Verified, Turn, NotYet, Polls,
          Goes, Ends, ReadsOn, registryVars, TypeOK, Pass, Read, Outcome, Tag,
          Facet, RunInv, ReplacedInv, ReadBy, Active
<1>7. ASSUME NEW p \in Package, SweepRead(p)
      PROVE  ReplacedInv'
  BY <1>7, PublisherAssumption DEF SweepRead, ReadsTag, Latest, registryVars,
          TypeOK, Pass, Read, Outcome, Tag, Facet, RunInv, ReplacedInv,
          ReadBy, Active
<1>8. CASE Swept
  BY <1>8, PublisherAssumption DEF Swept, NewerLatest, Superseded, Goes, Ends,
          registryVars, TypeOK, Pass, Read, Outcome, Tag, Facet, RunInv,
          ReplacedInv, ReadBy, Active
<1>9. CASE Publish
  BY <1>9, PublisherAssumption DEF Publish, Goes, Ends, TypeOK, Pass, Read,
          Outcome, Tag, Facet, RunInv, ReplacedInv, ReadBy, Active
<1>10. CASE Accepted
  BY <1>10, PublisherAssumption DEF Accepted, Goes, registryVars, TypeOK,
          Pass, Read, Outcome, Tag, Facet, RunInv, ReplacedInv, ReadBy, Active
<1>11. ASSUME NEW p \in Package, NEW f \in Facet, Shows(p, f)
      PROVE  ReplacedInv'
  BY <1>11, PublisherAssumption DEF Shows, readVars, runVars, TypeOK, Pass,
          Read, Outcome, Tag, Facet, RunInv, ReplacedInv, ReadBy, Active
<1>12. ASSUME NEW p \in Package, NewerRelease(p)
      PROVE  ReplacedInv'
  BY <1>12, PublisherAssumption DEF NewerRelease, readVars, runVars, TypeOK,
          Pass, Read, Outcome, Tag, Facet, RunInv, ReplacedInv, ReadBy, Active
<1>13. ASSUME NEW p \in Package, ForeignBytes(p)
      PROVE  ReplacedInv'
  BY <1>13, PublisherAssumption DEF ForeignBytes, readVars, runVars, TypeOK,
          Pass, Read, Outcome, Tag, Facet, RunInv, ReplacedInv, ReadBy, Active
<1>14. CASE UNCHANGED vars
  BY <1>14, PublisherAssumption DEF vars, registryVars, readVars, runVars,
          TypeOK, Pass, Read, Outcome, Tag, Facet, RunInv, ReplacedInv,
          ReadBy, Active
<1> QED
  BY <1>1, <1>2, <1>3, <1>4, <1>5, <1>6, <1>7, <1>8, <1>9, <1>10, <1>11, <1>12, <1>13, <1>14 DEF Next, RunStep

(* A newer latest the run has read is in the way of its next decision.     *)
LEMMA WarnedStep ==
    TypeOK /\ ShownInv /\ RunInv /\ ReplacedInv /\ WarnedInv /\ [Next]_vars => WarnedInv'
<1> SUFFICES ASSUME TypeOK, ShownInv, RunInv, ReplacedInv, WarnedInv, [Next]_vars
             PROVE  WarnedInv'
  OBVIOUS
<1> USE DEF Package
<1>1. CASE Start
  BY <1>1, PublisherAssumption DEF Start, registryVars, TypeOK, Pass, Read,
          Outcome, Tag, Facet, ShownInv, RunInv, ReplacedInv, ReadBy, Active,
          WarnedInv
<1>2. CASE Stops
  BY <1>2, PublisherAssumption DEF Stops, Ends, registryVars, TypeOK, Pass,
          Read, Outcome, Tag, Facet, ShownInv, RunInv, ReplacedInv, ReadBy,
          Active, WarnedInv
<1>3. CASE ReadMetadata
  BY <1>3, PublisherAssumption DEF ReadMetadata, ReadsTag, Latest, Ends,
          ReadsOn, registryVars, TypeOK, Pass, Read, Outcome, Tag, Facet,
          ShownInv, RunInv, ReplacedInv, ReadBy, Active, WarnedInv
<1>4. CASE ReadVersion
  BY <1>4, PublisherAssumption DEF ReadVersion, Absent, Classified,
          NewerLatest, Superseded, Turn, NotYet, Polls, Latest, Goes, Ends,
          ReadsOn, registryVars, TypeOK, Pass, Read, Outcome, Tag, Facet,
          ShownInv, RunInv, ReplacedInv, ReadBy, Active, WarnedInv
<1>5. CASE ReadTarball
  BY <1>5, PublisherAssumption DEF ReadTarball, IsPublished, RegistryReady,
          Classified, NewerLatest, Superseded, Turn, NotYet, Polls, Goes,
          Ends, ReadsOn, registryVars, TypeOK, Pass, Read, Outcome, Tag,
          Facet, ShownInv, RunInv, ReplacedInv, ReadBy, Active, WarnedInv
<1>6. CASE ReadAudit
  <2> SUFFICES ASSUME warned
               PROVE  WarnedInv'
    BY <1>6 DEF ReadAudit, WarnedInv
  <2>1. pass = "wait"
    BY <1>6 DEF ReadAudit, WarnedInv
  <2>2. PICK p \in Package : p > index /\ newer[p] = "latest"
    BY <1>6, <2>1 DEF ReadAudit, WarnedInv, TypeOK
  <2>3. CASE "audit" \notin shown[index]
    BY <1>6, <2>1, <2>2, <2>3 DEF ReadAudit, NotYet, Polls, ReadsOn,
          registryVars, TypeOK, RunInv, WarnedInv
  <2>4. CASE "audit" \in shown[index]
    <3>1. index + 1 \in Package /\ p >= index + 1
      BY <2>2, PublisherAssumption DEF TypeOK
    <3>2. /\ pass' = IF index + 1 \in found THEN "wait" ELSE "again"
          /\ index' = index + 1 /\ next' = "metadata"
          /\ UNCHANGED <<registryVars, outcome, warned>>
      BY <1>6, <2>1, <2>4, <3>1, PublisherAssumption DEF ReadAudit, Verified, Turn, Goes
    <3>3. pass' \in {"wait", "again"} /\ outcome' # "complete"
      BY <2>1, <3>2 DEF RunInv
    <3>4. p >= index' /\ newer'[p] = "latest" /\ next' = "metadata"
      BY <2>2, <3>1, <3>2 DEF registryVars
    <3> QED
      BY <3>3, <3>4 DEF WarnedInv
  <2> QED
    BY <2>3, <2>4
<1>7. ASSUME NEW p \in Package, SweepRead(p)
      PROVE  WarnedInv'
  BY <1>7, PublisherAssumption DEF SweepRead, ReadsTag, Latest, registryVars,
          TypeOK, Pass, Read, Outcome, Tag, Facet, ShownInv, RunInv,
          ReplacedInv, ReadBy, Active, WarnedInv
<1>8. CASE Swept
  <2>1. warned => NewerLatest
    BY <1>8 DEF Swept, WarnedInv, NewerLatest
  <2>2. NewerLatest => pass' = "ended" /\ outcome' \in {"failed", "superseded"}
    BY <1>8 DEF Swept, Superseded, Ends
  <2>3. warned' = warned
    BY <1>8 DEF Swept
  <2>4. warned' => pass' = "ended" /\ outcome' # "complete"
    BY <2>1, <2>2, <2>3
  <2>5. CASE ~NewerLatest
    BY <2>1, <2>3, <2>5 DEF WarnedInv
  <2>6. CASE NewerLatest
    BY <2>2, <2>6 DEF WarnedInv
  <2> QED
    BY <2>5, <2>6
<1>9. CASE Publish
  BY <1>9, PublisherAssumption DEF Publish, Goes, Ends, TypeOK, Pass, Read,
          Outcome, Tag, Facet, ShownInv, RunInv, ReplacedInv, ReadBy, Active,
          WarnedInv
<1>10. CASE Accepted
  BY <1>10, PublisherAssumption DEF Accepted, Goes, registryVars, TypeOK,
          Pass, Read, Outcome, Tag, Facet, ShownInv, RunInv, ReplacedInv,
          ReadBy, Active, WarnedInv
<1>11. ASSUME NEW p \in Package, NEW f \in Facet, Shows(p, f)
      PROVE  WarnedInv'
  BY <1>11, PublisherAssumption DEF Shows, readVars, runVars, TypeOK, Pass,
          Read, Outcome, Tag, Facet, ShownInv, RunInv, ReplacedInv, ReadBy,
          Active, WarnedInv
<1>12. ASSUME NEW p \in Package, NewerRelease(p)
      PROVE  WarnedInv'
  BY <1>12, PublisherAssumption DEF NewerRelease, readVars, runVars, TypeOK,
          Pass, Read, Outcome, Tag, Facet, ShownInv, RunInv, ReplacedInv,
          ReadBy, Active, WarnedInv
<1>13. ASSUME NEW p \in Package, ForeignBytes(p)
      PROVE  WarnedInv'
  BY <1>13, PublisherAssumption DEF ForeignBytes, readVars, runVars, TypeOK,
          Pass, Read, Outcome, Tag, Facet, ShownInv, RunInv, ReplacedInv,
          ReadBy, Active, WarnedInv
<1>14. CASE UNCHANGED vars
  BY <1>14, PublisherAssumption DEF vars, registryVars, readVars, runVars,
          TypeOK, Pass, Read, Outcome, Tag, Facet, ShownInv, RunInv,
          ReplacedInv, ReadBy, Active, WarnedInv
<1> QED
  BY <1>1, <1>2, <1>3, <1>4, <1>5, <1>6, <1>7, <1>8, <1>9, <1>10, <1>11, <1>12, <1>13, <1>14 DEF Next, RunStep

-----------------------------------------------------------------------------
(* The invariant holds at first, with no run yet and nothing published.    *)
LEMMA IInvInit ==
    Init => IInv
<1> SUFFICES ASSUME Init
             PROVE  IInv
  OBVIOUS
<1>1. 1 \in Package /\ [p \in Package |-> "older"] \in [Package -> Tag]
  BY PublisherAssumption DEF Package, Tag
<1>2. TypeOK
  <2>1. /\ held \in [Package -> {"nobody", "ours", "theirs"}]
        /\ shown \in [Package -> SUBSET Facet]
        /\ newer \in [Package -> {"no", "latest", "replaced"}]
    BY DEF Init
  <2>2. 0 \in 0 .. MaxTrouble /\ 0 \in 0 .. MaxOthers
    BY PublisherAssumption
  <2> QED
    BY <1>1, <2>1, <2>2 DEF Init, TypeOK, Pass, Read, Outcome, Tag
<1>3. ShownInv
  <2>1. \A p \in Package : shown[p] = {} /\ tags[p] # "own"
    BY DEF Init
  <2>2. next = "metadata"
    BY DEF Init
  <2> QED
    BY <2>1, <2>2 DEF ShownInv
<1>4. OrderInv /\ RunInv
  BY <1>1 DEF Init, OrderInv, DependenciesFirst, RunInv, Active
<1>5. SeenInv /\ ReplacedInv /\ WarnedInv
  BY <1>1 DEF Init, SeenInv, NeverRepublishes, ReplacedInv, WarnedInv, Active
<1> QED
  BY <1>2, <1>3, <1>4, <1>5 DEF IInv

(* Every step keeps it.                                                    *)
LEMMA IInvStep ==
    IInv /\ [Next]_vars => IInv'
BY TypeStep, ShownStep, OrderStep, RunInvStep, SeenStep, ReplacedStep, WarnedStep
   DEF IInv

(* The invariant holds of every behaviour.                                 *)
LEMMA Invariant ==
    Spec => []IInv
BY IInvInit, IInvStep, PTL DEF Spec

-----------------------------------------------------------------------------
(* Every variable of the registry and of the run keeps its type.           *)
THEOREM PublisherTyped ==
    Spec => []TypeOK
<1>1. IInv => TypeOK
  BY DEF IInv
<1> QED
  BY <1>1, Invariant, PTL

(* A package is never on the registry under our bytes before every package *)
(* it depends on can be read in full.                                      *)
THEOREM PublishedInOrder ==
    Spec => []DependenciesFirst
<1>1. IInv => DependenciesFirst
  BY DEF IInv, OrderInv
<1> QED
  BY <1>1, Invariant, PTL

(* A run does not publish a version of which it has read any sign, however *)
(* the registry showed its parts.                                          *)
THEOREM NothingPublishedTwice ==
    Spec => []NeverRepublishes
<1>1. IInv => NeverRepublishes
  BY DEF IInv, SeenInv
<1> QED
  BY <1>1, Invariant, PTL

(* A run that has read a newer latest of any package publishes nothing     *)
(* more and does not report the release as complete.                       *)
THEOREM NewerAlwaysEndsTheRun ==
    Spec => []NewerEndsTheRun
<1>1. IInv => NewerEndsTheRun
  BY DEF IInv, WarnedInv, NewerEndsTheRun
<1> QED
  BY <1>1, Invariant, PTL

(* A run that returns "superseded" found and published nothing; one that   *)
(* returns "complete" leaves every package readable under our bytes.       *)
THEOREM ReportsAreTrue ==
    Spec => []ResultsAreTrue
<1>1. IInv => ResultsAreTrue
  BY DEF IInv, OrderInv, RunInv, ResultsAreTrue
<1> QED
  BY <1>1, Invariant, PTL

=============================================================================
