---------------------------- MODULE LiveTurnHub ----------------------------
(***************************************************************************)
(* The fan-out of one thread's live turn to the viewers attached to it     *)
(* (packages/cli/src/lib/dev/live-turn-hub.ts), with the producers that    *)
(* publish into it and the attach handler that reads from it               *)
(* (runtime-fetch-core.ts, handleApAttachRequest).                         *)
(*                                                                         *)
(* The hub's map is keyed by thread id; one thread shows it all.  A Turn   *)
(* is the object one open() installs, a Viewer one GET attach request.  A  *)
(* frame carries the numbers of the chunks merged into it.                 *)
(***************************************************************************)
EXTENDS Integers, Sequences, FiniteSets, SequencesExt

CONSTANTS
    Turn, Viewer, NoTurn,
    Call,           \* subagent call ids
    MaxViewers,     \* apAttachMaxViewers
    DigestMax,      \* digestMaxBytes
    QueueMaxBytes,  \* subscriberMaxBytes
    QueueMaxFrames, \* subscriberMaxFrames
    MaxPublish      \* bound: chunks the turns publish, all together

ASSUME HubAssumption ==
    /\ NoTurn \notin Turn /\ "none" \notin Call
    /\ MaxViewers \in Nat /\ DigestMax \in Nat /\ QueueMaxBytes \in Nat
    /\ QueueMaxFrames \in Nat /\ MaxPublish \in Nat

VARIABLES
    entry,    \* the turn in the map, or NoTurn
    opened, ended,
    digest,   \* digest[t]: its frames, their bytes, and whether it was kept
    sent,     \* history: every frame turn t delivered, the terminal included
    subs,     \* subs[t]: the subscribers of t
    at,       \* at[v]: the turn v subscribed to, or NoTurn
    snap,     \* snap[v]: the copy of the digest v was handed
    since,    \* history: how many frames at[v] had delivered by then
    queue, bytes,
    dropped,  \* the viewers dropped for an overflow
    left,     \* those that went away or were turned down by the middleware
    got,      \* got[v]: the frames next() returned to v
    reader    \* where the attach request of v is

turnVars == <<entry, opened, ended, digest, sent>>
queueVars == <<queue, bytes, dropped, subs>>
viewVars == <<at, snap, since, left, got>>
vars == <<turnVars, queueVars, viewVars, reader>>

-----------------------------------------------------------------------------
(* Frames: a text chunk, a subagent's chunk, any other event, the end.     *)
Frame(type, call, data) == [type |-> type, call |-> call, data |-> data]
Terminal == Frame("done", "none", <<>>)
Chunks(n) == {Frame("chunk", "none", <<n>>), Frame("other", "none", <<n>>)}
             \cup {Frame("subagent", c, <<n>>) : c \in Call}

(* An event of another type is as big as it likes: here, bigger.           *)
FrameBytes(f) == Len(f.data) + (IF f.type = "other" THEN 2 ELSE 1)
TotalBytes(s) ==
    LET upTo[i \in 0..Len(s)] == IF i = 0 THEN 0 ELSE upTo[i - 1] + FrameBytes(s[i])
    IN  upTo[Len(s)]

Init ==
    /\ entry = NoTurn
    /\ opened = {} /\ ended = {}
    /\ digest = [t \in Turn |-> [frames |-> <<>>, bytes |-> 0, kept |-> TRUE]]
    /\ sent = [t \in Turn |-> <<>>]
    /\ subs = [t \in Turn |-> {}]
    /\ at = [v \in Viewer |-> NoTurn]
    /\ snap = [v \in Viewer |-> [frames |-> <<>>, bytes |-> 0, kept |-> TRUE]]
    /\ since = [v \in Viewer |-> 0]
    /\ queue = [v \in Viewer |-> <<>>]
    /\ bytes = [v \in Viewer |-> 0]
    /\ dropped = {} /\ left = {}
    /\ got = [v \in Viewer |-> <<>>]
    /\ reader = [v \in Viewer |-> "new"]

-----------------------------------------------------------------------------
(* The digest.  A text chunk joins a text chunk that is last; a subagent's *)
(* chunk joins the first entry of its call.                                *)
Joined(f, g) == [f EXCEPT !.data = @ \o g.data]
OfCall(s, c) == {i \in DOMAIN s : s[i].type = "subagent" /\ s[i].call = c}

(* Mutant: a text chunk joins the first text chunk of the digest.          *)
MergePlaceAnyChunk(s, f) ==
    LET same == {i \in DOMAIN s : s[i].type = f.type /\ s[i].call = f.call}
    IN  IF f.type = "other" \/ same = {} THEN 0
        ELSE CHOOSE i \in same : \A j \in same : i <= j

(* Where frame f is merged into digest s, or 0.                            *)
MergePlace(s, f) ==
    CASE f.type = "chunk" /\ s # <<>> /\ s[Len(s)].type = "chunk" -> Len(s)
      [] f.type = "subagent" /\ OfCall(s, f.call) # {} ->
           CHOOSE i \in OfCall(s, f.call) : \A j \in OfCall(s, f.call) : i <= j
      [] OTHER -> 0

AppendCoalesced(s, f) ==
    LET i == MergePlace(s, f) IN
    IF i = 0 THEN Append(s, f) ELSE [s EXCEPT ![i] = Joined(@, f)]

AddedBytes(s, f) == IF MergePlace(s, f) = 0 THEN FrameBytes(f) ELSE Len(f.data)

(* The digest after f; past the cap it is dropped whole (truncated).       *)
DigestWith(d, f) ==
    LET n == d.bytes + AddedBytes(d.frames, f) IN
    IF ~d.kept THEN d
    ELSE IF n > DigestMax THEN [frames |-> <<>>, bytes |-> n, kept |-> FALSE]
    ELSE [frames |-> AppendCoalesced(d.frames, f), bytes |-> n, kept |-> TRUE]

-----------------------------------------------------------------------------
(* Delivery.  A subscriber whose queue has no room is dropped, alone.      *)
Overflows(v, f) == \/ Len(queue[v]) + 1 > QueueMaxFrames
                   \/ bytes[v] + FrameBytes(f) > QueueMaxBytes

(* Mutant: a dropped viewer keeps its place.                               *)
StaysAlways(v, f) == TRUE

Stays(v, f) == ~Overflows(v, f)

Deliver(t, f) ==
    LET full == {v \in subs[t] : Overflows(v, f)}
        fed == subs[t] \ full
    IN  /\ sent' = [sent EXCEPT ![t] = Append(@, f)]
        /\ dropped' = dropped \cup full
        /\ subs' = [subs EXCEPT ![t] = {v \in @ : Stays(v, f)}]
        /\ queue' = [v \in Viewer |-> IF v \in full THEN <<>>
                                      ELSE IF v \in fed THEN Append(queue[v], f)
                                      ELSE queue[v]]
        /\ bytes' = [v \in Viewer |-> IF v \in full THEN 0
                                      ELSE IF v \in fed THEN bytes[v] + FrameBytes(f)
                                      ELSE bytes[v]]
        /\ reader' = [v \in Viewer |-> IF v \in subs[t] /\ reader[v] = "asleep" THEN "awake"
                                       ELSE reader[v]]

-----------------------------------------------------------------------------
(* The producers.                                                          *)

(* Mutant: a forced close forgets the terminal frame.                      *)
ForceCloseSilently(t) ==
    /\ ended' = ended \cup {t}
    /\ UNCHANGED <<sent, queueVars, reader>>

(* An entry in the map has not ended, so the test of the code holds.       *)
ForceClose(t) ==
    /\ ended' = ended \cup {t}
    /\ Deliver(t, Terminal)

(* open: a turn still in the map is closed and replaced.                   *)
Open(t) ==
    /\ t \notin opened
    /\ opened' = opened \cup {t}
    /\ IF entry # NoTurn THEN ForceClose(entry)
       ELSE UNCHANGED <<ended, sent, queueVars, reader>>
    /\ entry' = t
    /\ UNCHANGED <<digest, viewVars>>

(* The guard of publish and close.  (A producer that fails it does         *)
(* nothing.)                                                               *)
Live(t) == entry = t /\ t \notin ended

Published == Cardinality(UNION {{t} \X DOMAIN sent[t] : t \in Turn}) - Cardinality(ended)

Publish(t, f) ==
    /\ Live(t)
    /\ Published < MaxPublish
    /\ digest' = [digest EXCEPT ![t] = DigestWith(@, f)]
    /\ Deliver(t, f)
    /\ UNCHANGED <<entry, opened, ended, viewVars>>

Close(t) ==
    /\ Live(t)
    /\ ended' = ended \cup {t}
    /\ Deliver(t, Terminal)
    /\ entry' = NoTurn
    /\ UNCHANGED <<opened, digest, viewVars>>

(* closeAll, when the server closes.                                       *)
CloseAll ==
    /\ entry # NoTurn
    /\ ForceClose(entry)
    /\ entry' = NoTurn
    /\ UNCHANGED <<opened, digest, viewVars>>

-----------------------------------------------------------------------------
(* The attach request of a viewer.                                         *)
Subscribe(v, t) ==
    /\ at' = [at EXCEPT ![v] = t]
    /\ snap' = [snap EXCEPT ![v] = digest[t]]
    /\ since' = [since EXCEPT ![v] = Len(sent[t])]
    /\ subs' = [subs EXCEPT ![t] = @ \cup {v}]
    /\ reader' = [reader EXCEPT ![v] = "auth"]

(* attach: nothing live, the turn is at capacity, or a snapshot and a      *)
(* subscription in one synchronous section.                                *)
Attach(v) ==
    /\ reader[v] = "new"
    /\ IF entry = NoTurn \/ Cardinality(subs[entry]) >= MaxViewers
       THEN /\ reader' = [reader EXCEPT ![v] = "refused"]
            /\ UNCHANGED <<at, snap, since, subs>>
       ELSE Subscribe(v, entry)
    /\ UNCHANGED <<turnVars, queue, bytes, dropped, left, got>>

(* detach().                                                               *)
Detach(v) ==
    /\ queue' = [queue EXCEPT ![v] = <<>>]
    /\ bytes' = [bytes EXCEPT ![v] = 0]
    /\ subs' = [subs EXCEPT ![at[v]] = @ \ {v}]
    /\ reader' = [reader EXCEPT ![v] = "over"]
    /\ UNCHANGED dropped

(* The client goes away, or the middleware rejects one of the routes the   *)
(* snapshot would disclose.                                                *)
Leave(v) ==
    /\ reader[v] \in {"auth", "reading", "asleep", "awake", "ending"}
    /\ Detach(v)
    /\ left' = left \cup {v}
    /\ UNCHANGED <<turnVars, at, snap, since, got>>

(* The route middleware ran and the state frame went out.                  *)
StartReading(v) ==
    /\ reader[v] = "auth"
    /\ reader' = [reader EXCEPT ![v] = "reading"]
    /\ UNCHANGED <<turnVars, queueVars, viewVars>>

(* One turn of the loop of next(): null, a frame, or a sleep.              *)
NextStep(v) ==
    IF v \in dropped THEN "ending"
    ELSE IF queue[v] # <<>> THEN "reading"
    ELSE IF at[v] \in ended /\ Contains(got[v], Terminal) THEN "ending"
    ELSE "asleep"

Pull(v) ==
    /\ reader[v] \in {"reading", "awake"}
    /\ reader' = [reader EXCEPT ![v] = NextStep(v)]
    /\ IF NextStep(v) = "reading"
       THEN /\ got' = [got EXCEPT ![v] = Append(@, Head(queue[v]))]
            /\ bytes' = [bytes EXCEPT ![v] = @ - FrameBytes(Head(queue[v]))]
            /\ queue' = [queue EXCEPT ![v] = Tail(@)]
       ELSE UNCHANGED <<got, bytes, queue>>
    /\ UNCHANGED <<turnVars, dropped, subs, at, snap, since, left>>

(* The generator is done: the request detaches.                            *)
Finish(v) ==
    /\ reader[v] = "ending"
    /\ Detach(v)
    /\ UNCHANGED <<turnVars, viewVars>>

-----------------------------------------------------------------------------
Produce(t) == Open(t) \/ Close(t) \/ \E f \in Chunks(Len(sent[t]) + 1) : Publish(t, f)

View(v) == Attach(v) \/ Leave(v) \/ StartReading(v) \/ Pull(v) \/ Finish(v)

Next == CloseAll \/ (\E t \in Turn : Produce(t)) \/ (\E v \in Viewer : View(v))

Spec == Init /\ [][Next]_vars

-----------------------------------------------------------------------------
Readers == {"new", "refused", "auth", "reading", "asleep", "awake", "ending", "over"}
FrameType == [type : {"chunk", "other", "subagent", "done"}, call : Call \cup {"none"},
              data : Seq(Nat)]

(* Every component has its type, and no queue is past its limits.          *)
TypeOK ==
    /\ entry \in Turn \cup {NoTurn}
    /\ opened \subseteq Turn /\ ended \subseteq opened
    /\ \A t \in Turn : /\ digest[t].frames \in Seq(FrameType)
                       /\ digest[t].bytes \in Nat /\ digest[t].kept \in BOOLEAN
                       /\ sent[t] \in Seq(FrameType)
    /\ subs \in [Turn -> SUBSET Viewer]
    /\ at \in [Viewer -> Turn \cup {NoTurn}]
    /\ dropped \subseteq Viewer /\ left \subseteq Viewer
    /\ \A v \in Viewer : /\ queue[v] \in Seq(FrameType) /\ Len(queue[v]) <= QueueMaxFrames
                         /\ bytes[v] \in 0..QueueMaxBytes
                         /\ got[v] \in Seq(FrameType)
    /\ reader \in [Viewer -> Readers]

(* The text of one call, or of the turn itself, in a sequence of frames.   *)
Text(s, c) ==
    LET upTo[i \in 0..Len(s)] ==
          IF i = 0 THEN <<>>
          ELSE IF s[i].call = c THEN upTo[i - 1] \o s[i].data ELSE upTo[i - 1]
    IN  upTo[Len(s)]
Calls == Call \cup {"none"}

(* The view of an attached viewer has neither a gap nor a repetition: the  *)
(* frames it received and those queued for it are exactly what the turn    *)
(* delivered since it attached, and its snapshot, unless truncated, reads  *)
(* like everything before, call by call.                                   *)
ViewIsExact ==
    \A v \in Viewer : at[v] # NoTurn /\ v \notin left =>
        LET all == sent[at[v]] IN
        /\ v \notin dropped => got[v] \o queue[v] = SubSeq(all, since[v] + 1, Len(all))
        /\ IsPrefix(got[v], SubSeq(all, since[v] + 1, Len(all)))
        /\ snap[v].kept => \A c \in Calls :
             Text(snap[v].frames, c) = Text(SubSeq(all, 1, since[v]), c)

(* What the caps are enforced on is exact: the byte counts are the bytes   *)
(* that are kept, and a place among a turn's viewers is held by a viewer   *)
(* that still reads. No merge, overflow or departure leaks either.         *)
AccountsAreExact ==
    /\ \A t \in Turn : digest[t].kept => digest[t].bytes = TotalBytes(digest[t].frames)
    /\ \A v \in Viewer : bytes[v] = TotalBytes(queue[v])
    /\ \A t \in Turn : subs[t] = {v \in Viewer : /\ at[v] = t
                                                /\ reader[v] # "over"
                                                /\ v \notin dropped}

(* A turn that ended has delivered its terminal frame, once and last,      *)
(* although its producer still holds the handle. No viewer sleeps through  *)
(* it, through a drop or through a frame: no wake-up is lost between the   *)
(* queue check of next() and a delivery or a forced close. And a stream    *)
(* that ended by itself has shown the terminal frame, or was dropped.      *)
Told(v) == v \in left \/ v \in dropped \/ Contains(got[v], Terminal)
EndsAreTold ==
    /\ \A t \in Turn : \A i \in DOMAIN sent[t] :
         sent[t][i] = Terminal <=> t \in ended /\ i = Len(sent[t])
    /\ \A v \in Viewer : /\ reader[v] = "asleep" =>
                              queue[v] = <<>> /\ v \notin dropped /\ at[v] \notin ended
                         /\ reader[v] \in {"ending", "over"} => Told(v)
=============================================================================
