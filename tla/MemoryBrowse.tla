---------------------------- MODULE MemoryBrowse ----------------------------
(***************************************************************************)
(* The Inspector's memory browser: the reducer that keeps a window of rows *)
(* resident (packages/inspector/src/browse/browse-machine.ts) with its     *)
(* reconciliation (browse-reconcile.ts), over a store that answers keyset  *)
(* windows (packages/memory/src/sqlite-store.ts) and that others write.    *)
(*                                                                         *)
(* A row is its id, its updatedAt and its status. Answers come at any time *)
(* and in any order, those of superseded requests too: the machine does    *)
(* not rely on the abort its hook adds.                                    *)
(***************************************************************************)
EXTENDS Naturals, Sequences, FiniteSets, Functions

CONSTANTS
    Row,            \* ids of rows, numbers: the order breaks ties by id
    Initially,      \* the rows the store has at first
    PageSize,       \* BROWSE_PAGE_SIZE
    ResidentCap,    \* BROWSE_RESIDENT_CAP
    MaxTrouble      \* bound: writes, failing requests and query changes, all together

ASSUME BrowseAssumption ==
    /\ Row \subseteq Nat /\ Initially \subseteq Row /\ IsFiniteSet(Initially)
    /\ PageSize \in Nat \ {0} /\ ResidentCap \in Nat \ {0} /\ PageSize <= ResidentCap
    /\ MaxTrouble \in Nat

VARIABLES
    table,      \* the store: the rows it has
    clock,      \* updatedAt of the last write
    revision, query, fulfilled, inFlight, queuedLoadMore, initialFailure, kindErrors,
    requests,   \* the requests sent and not answered, with the page once it is read
    failures

stateVars == <<revision, query, fulfilled, inFlight, queuedLoadMore, initialFailure, kindErrors>>
vars == <<table, clock, stateVars, requests, failures>>

(* Two questions: every row, or the active ones (a status filter).         *)
Query == {"all", "active"}
Matches(r, q) == q = "all" \/ r.active
NoCursor == [query |-> "none", at |-> 0, id |-> 0]
Nothing == [revision |-> 0, records |-> <<>>, total |-> 0, continuation |-> NoCursor,
            asked |-> {}, readAt |-> 0]
NoRequest == [revision |-> 0, kind |-> "none", query |-> "all", limit |-> 0, cursor |-> NoCursor]

Trouble == clock + failures + revision
Init ==
    /\ table = {[id |-> i, at |-> 0, active |-> TRUE] : i \in Initially}
    /\ clock = 0
    /\ revision = 0 /\ query = "all"
    /\ fulfilled = Nothing /\ inFlight = NoRequest
    /\ queuedLoadMore = FALSE
    /\ initialFailure = 0 /\ kindErrors = {}
    /\ requests = {} /\ failures = 0

-----------------------------------------------------------------------------
(* The store. updatedAt DESC, id ASC; a cursor names the last row seen. A  *)
(* window that filled has a continuation.                                  *)
InOrder(S, before) ==
    [i \in 1..Cardinality(S) |-> CHOOSE x \in S : Cardinality(before[x]) = i - 1]

Before(a, b) == a.at > b.at \/ (a.at = b.at /\ a.id < b.id)
Ordered(S) == InOrder(S, [r \in S |-> {x \in S : Before(x, r)}])
Matching(q) == {r \in table : Matches(r, q)}
Cursor(q, r) == [query |-> q, at |-> r.at, id |-> r.id]
After(S, c) == {r \in S : c = NoCursor \/ Before(c, r)}
Ids(s) == {s[i].id : i \in DOMAIN s}
Upto(s, n) == SubSeq(s, 1, IF n < Len(s) THEN n ELSE Len(s))

Browse(q, limit, c) ==
    LET rows == Upto(Ordered(After(Matching(q), c)), limit)
    IN  [records |-> rows,
         total |-> Cardinality(Matching(q)),
         continuation |-> IF rows # <<>> /\ Len(rows) = limit
                          THEN Cursor(q, rows[Len(rows)]) ELSE NoCursor]

(* Others: put a row, update one (an approval makes it active again),      *)
(* supersede one, which leaves updatedAt alone, delete one.                *)
Write ==
    /\ Trouble < MaxTrouble
    /\ clock' = clock + 1
    /\ \/ \E i \in Row :
            table' = {r \in table : r.id # i} \cup {[id |-> i, at |-> clock', active |-> TRUE]}
       \/ \E r \in table : r.active /\ table' = (table \ {r}) \cup {[r EXCEPT !.active = FALSE]}
       \/ \E r \in table : table' = table \ {r}
    /\ UNCHANGED <<stateVars, requests, failures>>

-----------------------------------------------------------------------------
(* browse-reconcile. A filter keeps the rows at some positions.            *)
KeptAt(s, I) ==
    LET order == InOrder(I, [i \in I |-> {j \in I : j < i}])
    IN  [k \in DOMAIN order |-> s[order[k]]]
DedupeById(prev, next) ==
    prev \o KeptAt(next, {i \in DOMAIN next : next[i].id \notin Ids(prev)})

(* Mutant: the rows past the refreshed span are dropped.                   *)
ReconcileHeadOnly(resident, refreshed, filled) == refreshed
(* The refreshed rows first; of the others those past the span stay.       *)
ReconcileRefreshedWindow(resident, refreshed, filled) ==
    IF ~filled THEN refreshed
    ELSE refreshed \o KeptAt(resident,
                             {i \in DOMAIN resident :
                                 /\ resident[i].id \notin Ids(refreshed)
                                 /\ Before(refreshed[Len(refreshed)], resident[i])})

(* The machine's questions about its state.                                *)
IsFulfilled == revision # 0 /\ fulfilled.revision = revision
HasMore(f) == f.revision = revision /\ f.continuation # NoCursor
CanLoadMore(f) == HasMore(f) /\ Len(f.records) < ResidentCap

RefreshLimit ==
    LET n == Len(fulfilled.records)
    IN  IF n < PageSize THEN PageSize ELSE IF n > ResidentCap THEN ResidentCap ELSE n

Request(rev, kind, q, limit, c) ==
    [revision |-> rev, kind |-> kind, query |-> q, limit |-> limit, cursor |-> c]
Initial(rev, q) == Request(rev, "initial", q, PageSize, NoCursor)
Refresh == Request(revision, "refresh", query, RefreshLimit, NoCursor)
LoadMore(f) ==
    LET room == ResidentCap - Len(f.records)
    IN  Request(revision, "load-more", query, IF room < PageSize THEN room ELSE PageSize, f.continuation)

(* Mutant: the refreshed set may outgrow the cap.                          *)
WithinCapNever(s) == s
WithinCap(s) == Upto(s, ResidentCap)

Sent(r) == [req |-> r, read |-> FALSE, page |-> [records |-> <<>>, total |-> 0, continuation |-> NoCursor],
            readAt |-> 0]
Start(r) == inFlight' = r /\ requests' = requests \cup {Sent(r)}

-----------------------------------------------------------------------------
(* The reducer's events. A new question (the mount's too): the old rows    *)
(* stay on screen and are no base for anything.                            *)
QueryChanged ==
    /\ Trouble < MaxTrouble
    /\ \E q \in Query :
        /\ revision = 0 \/ q # query
        /\ query' = q
        /\ Start(Initial(revision + 1, q))
    /\ revision' = revision + 1
    /\ queuedLoadMore' = FALSE
    /\ initialFailure' = 0 /\ kindErrors' = {}
    /\ UNCHANGED <<table, clock, fulfilled, failures>>

PollTick ==
    /\ inFlight = NoRequest /\ IsFulfilled
    /\ Start(Refresh)
    /\ UNCHANGED <<table, clock, revision, query, fulfilled, queuedLoadMore, initialFailure,
                   kindErrors, failures>>

Retry ==
    /\ inFlight = NoRequest /\ revision # 0
    /\ Start(IF ~IsFulfilled THEN Initial(revision, query)
             ELSE IF "load-more" \in kindErrors /\ CanLoadMore(fulfilled) THEN LoadMore(fulfilled)
             ELSE Refresh)
    /\ UNCHANGED <<table, clock, revision, query, fulfilled, queuedLoadMore, initialFailure,
                   kindErrors, failures>>

LoadMoreRequested ==
    /\ CanLoadMore(fulfilled)
    /\ \/ inFlight.kind = "refresh" /\ queuedLoadMore' = TRUE /\ UNCHANGED <<inFlight, requests>>
       \/ inFlight = NoRequest /\ Start(LoadMore(fulfilled)) /\ UNCHANGED queuedLoadMore
    /\ UNCHANGED <<table, clock, revision, query, fulfilled, initialFailure, kindErrors, failures>>

(* The store reads a window for a request.                                 *)
Read ==
    \E m \in requests :
        /\ ~m.read
        /\ requests' = (requests \ {m}) \cup
              {[m EXCEPT !.read = TRUE, !.readAt = clock,
                         !.page = Browse(m.req.query, m.req.limit, m.req.cursor)]}
        /\ UNCHANGED <<table, clock, stateVars, failures>>

(* A settled request lets the queued load-more run, if it still can.       *)
Drain(f, left) ==
    /\ queuedLoadMore' = FALSE
    /\ IF queuedLoadMore /\ CanLoadMore(f)
       THEN inFlight' = LoadMore(f) /\ requests' = left \cup {Sent(LoadMore(f))}
       ELSE inFlight' = NoRequest /\ requests' = left

(* Mutant: an answer to a superseded question is taken.                    *)
DesiredAny(r) == r.revision # 0
Desired(r) == r.revision = revision

(* Mutant: a load-more continues after the last resident row.              *)
ContinuationOfTail(page, records) ==
    IF page.continuation = NoCursor \/ records = <<>> THEN NoCursor
    ELSE Cursor(query, records[Len(records)])
Continuation(page, records) == page.continuation

(* "response": records, total and continuation are replaced together.      *)
Response ==
    \E m \in requests :
        LET base == IF IsFulfilled THEN fulfilled.records ELSE <<>>
            asked == IF IsFulfilled /\ m.req.kind = "load-more" THEN fulfilled.asked ELSE {}
            records == WithinCap(
                CASE m.req.kind = "refresh" ->
                       ReconcileRefreshedWindow(base, m.page.records, m.page.continuation # NoCursor)
                  [] m.req.kind = "load-more" -> DedupeById(base, m.page.records)
                  [] OTHER -> m.page.records)
            f == [revision |-> revision, records |-> records, total |-> m.page.total,
                  continuation |-> Continuation(m.page, records),
                  asked |-> asked \cup {m.req.query},
                  readAt |-> IF m.req.kind = "load-more" THEN fulfilled.readAt ELSE m.readAt]
        IN  /\ m.read
            /\ IF Desired(m.req)
               THEN /\ fulfilled' = f
                    /\ initialFailure' = IF m.req.kind = "initial" THEN 0 ELSE initialFailure
                    /\ kindErrors' = kindErrors \ {m.req.kind}
                    /\ Drain(f, requests \ {m})
               ELSE /\ requests' = requests \ {m}
                    /\ UNCHANGED <<fulfilled, initialFailure, kindErrors, inFlight, queuedLoadMore>>
            /\ UNCHANGED <<table, clock, revision, query, failures>>

(* "failure", for the desired revision: recorded against the kind that     *)
(* failed.                                                                 *)
Failure ==
    /\ Trouble < MaxTrouble /\ failures' = failures + 1
    /\ \E m \in requests :
        /\ Desired(m.req)
        /\ initialFailure' = IF m.req.kind = "initial" THEN revision ELSE initialFailure
        /\ kindErrors' = IF m.req.kind = "initial" THEN kindErrors ELSE kindErrors \cup {m.req.kind}
        /\ Drain(fulfilled, requests \ {m})
    /\ UNCHANGED <<table, clock, revision, query, fulfilled>>

Next == \/ Write \/ QueryChanged \/ PollTick \/ Retry \/ LoadMoreRequested
        \/ Read \/ Response \/ Failure

Spec == Init /\ [][Next]_vars

(* Requests are answered, and the hook polls every two seconds.            *)
FairSpec == Spec /\ WF_vars(Read) /\ WF_vars(Response) /\ WF_vars(PollTick)

-----------------------------------------------------------------------------
TypeOK ==
    /\ table \subseteq [id : Row, at : 0..MaxTrouble, active : BOOLEAN]
    /\ revision \in 0..MaxTrouble /\ query \in Query
    /\ fulfilled.revision \in 0..revision
    /\ inFlight.kind \in {"none", "initial", "refresh", "load-more"}
    /\ queuedLoadMore \in BOOLEAN
    /\ initialFailure \in 0..revision /\ kindErrors \subseteq {"refresh", "load-more"}

(* Rows, total and continuation on screen answer one question, the one     *)
(* their revision asked (browse-machine.ts:45-49).                         *)
AnswersOneQuestion ==
    /\ Cardinality(fulfilled.asked) <= 1
    /\ IsFulfilled => fulfilled.asked = {query}

(* A row is shown once, whatever hoists, inserts and retained tails do to  *)
(* the windows (browse-reconcile.ts:28-31), and there is no silent         *)
(* omission: a matching row that was not written since the last head       *)
(* window was read, and that lies before the point the walk continues      *)
(* from, is resident (browse-machine.ts:20-28).                            *)
NothingIsSkippedOrDoubled ==
    /\ IsInjective([i \in DOMAIN fulfilled.records |-> fulfilled.records[i].id])
    /\ IsFulfilled =>
        \A r \in table :
            /\ Matches(r, query) /\ r.at <= fulfilled.readAt
            /\ fulfilled.continuation = NoCursor \/ ~Before(fulfilled.continuation, r)
            => r.id \in Ids(fulfilled.records)

(* Rows are never evicted from under the user because others were inserted *)
(* (browse-reconcile.ts:56): a row that the store still has as it is shown *)
(* stays until the question changes, or the cap is reached.                *)
NothingIsEvicted ==
    [][\A i \in DOMAIN fulfilled.records :
          /\ IsFulfilled /\ fulfilled'.revision = fulfilled.revision
          /\ fulfilled.records[i] \in table
          /\ Len(fulfilled'.records) < ResidentCap
          => fulfilled.records[i].id \in Ids(fulfilled'.records)]_vars

(* The convergence guarantee (browse-machine.ts:10): once the writes are   *)
(* over, polling makes the resident rows exactly the head of the store's   *)
(* order and the total exact, wherever the cap, hoists and superseded rows *)
(* left them; only a failed first window waits for the user's retry.       *)
Converged ==
    /\ IsFulfilled
    /\ fulfilled.records = Upto(Ordered(Matching(query)), Len(fulfilled.records))
    /\ fulfilled.total = Cardinality(Matching(query))
PollingConverges == <>[](Converged \/ initialFailure = revision)
=============================================================================
