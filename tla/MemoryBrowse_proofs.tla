------------------------ MODULE MemoryBrowse_proofs ------------------------
(***************************************************************************)
(* Proofs about MemoryBrowse, for any rows, page size and resident cap:    *)
(* the rows on screen answer one question, none is doubled or silently     *)
(* left out, and none that the store still has is evicted.                 *)
(***************************************************************************)
EXTENDS MemoryBrowse, FiniteSetTheorems, SequenceTheorems, TLAPS

-----------------------------------------------------------------------------
(* The inductive invariant.                                                *)
RowType == [id : Row, at : Nat, active : BOOLEAN]
CursorType == [query : Query \cup {"none"}, at : Nat, id : Nat]
Kind == {"none", "initial", "refresh", "load-more"}
RequestType == [revision : Nat, kind : Kind, query : Query, limit : Nat, cursor : CursorType]
PageType == [records : Seq(RowType), total : Nat, continuation : CursorType]
SentType == [req : RequestType, read : BOOLEAN, page : PageType, readAt : Nat]
FulfilledType == [revision : Nat, records : Seq(RowType), total : Nat,
                  continuation : CursorType, asked : SUBSET Query, readAt : Nat]

OneRowPerId(S) == \A a, b \in S : a.id = b.id => a = b

(* The store: a row for an id, none written later than now.                *)
TableInv ==
    /\ table \subseteq RowType /\ IsFiniteSet(table) /\ OneRowPerId(table)
    /\ clock \in Nat /\ \A r \in table : r.at <= clock

BrowseType ==
    /\ revision \in Nat /\ query \in Query /\ failures \in Nat
    /\ fulfilled \in FulfilledType /\ inFlight \in RequestType
    /\ queuedLoadMore \in BOOLEAN
    /\ requests \subseteq SentType
    /\ initialFailure \in 0..revision /\ kindErrors \subseteq {"refresh", "load-more"}
    /\ Trouble <= MaxTrouble

(* What the machine may ask for in the state it is in.                     *)
Askable(r) ==
    \/ ~IsFulfilled /\ r = Initial(revision, query)
    \/ IsFulfilled /\ r = Refresh
    \/ IsFulfilled /\ CanLoadMore(fulfilled) /\ r = LoadMore(fulfilled)

(* At most one request of the current revision is out, it is the one the   *)
(* machine waits for, and the state it was made for still stands.          *)
WindowInv ==
    /\ fulfilled.revision <= revision
    /\ revision = 0 => requests = {} /\ inFlight = NoRequest /\ fulfilled = Nothing
    /\ \A m \in requests : m.req.revision <= revision /\ m.req.limit # 0
    /\ \A m \in requests : Desired(m.req) => m.req = inFlight /\ Askable(m.req)
    /\ \A m, n \in requests : Desired(m.req) /\ Desired(n.req) => m = n

Distinct(s) == \A i, j \in DOMAIN s : s[i].id = s[j].id => i = j
AllMatch(s, q) == \A i \in DOMAIN s : Matches(s[i], q)
NoneLater(s, t) == \A i \in DOMAIN s : s[i].at <= t
(* Of the rows S that match and are as old as t, s has those after c and   *)
(* not after d.                                                            *)
Holds(S, s, q, t, c, d) ==
    \A r \in S :
        /\ Matches(r, q) /\ r.at <= t
        /\ c = NoCursor \/ Before(c, r)
        /\ d = NoCursor \/ ~Before(d, r)
        => r.id \in Ids(s)

(* A page that was read has the rows of its span, with the store at S now. *)
PageGood(m, S) ==
    /\ Len(m.page.records) <= m.req.limit
    /\ Distinct(m.page.records) /\ AllMatch(m.page.records, m.req.query)
    /\ NoneLater(m.page.records, m.readAt)
    /\ m.page.continuation # NoCursor =>
          /\ m.page.records # <<>>
          /\ m.page.continuation = Cursor(m.req.query, m.page.records[Len(m.page.records)])
    /\ Holds(S, m.page.records, m.req.query, m.readAt, m.req.cursor, m.page.continuation)
PageInv == \A m \in requests : m.read => m.readAt <= clock /\ PageGood(m, table)

(* The rows on screen, and the answer on its way is newer than they are.   *)
ShownInv ==
    /\ Distinct(fulfilled.records) /\ Len(fulfilled.records) <= ResidentCap
    /\ fulfilled.readAt <= clock /\ NoneLater(fulfilled.records, clock)
    /\ IsFulfilled =>
          /\ AllMatch(fulfilled.records, query)
          /\ Holds(table, fulfilled.records, query, fulfilled.readAt, NoCursor,
                   fulfilled.continuation)
    /\ \A m \in requests : m.read /\ Desired(m.req) =>
          fulfilled.readAt <= m.readAt /\ NoneLater(fulfilled.records, m.readAt)

(* All answers that contributed to what is shown were to one query.        *)
AskedInv ==
    /\ \E q \in Query : fulfilled.asked \subseteq {q}
    /\ IsFulfilled => fulfilled.asked = {query}

BrowseInv == TableInv /\ BrowseType /\ WindowInv /\ PageInv /\ ShownInv /\ AskedInv
-----------------------------------------------------------------------------
(* Enumerations: InOrder over a finite set that is strictly and totally    *)
(* ordered, before[x] being what comes before x.                           *)
StrictOrder(S, before) ==
    /\ IsFiniteSet(S) /\ before \in [S -> SUBSET S]
    /\ \A x \in S : x \notin before[x]
    /\ \A x, y \in S : x \in before[y] => before[x] \subseteq before[y]
    /\ \A x, y \in S : x = y \/ x \in before[y] \/ y \in before[x]

Enumerates(s, S, before) ==
    /\ Cardinality(S) \in Nat /\ s \in [1..Cardinality(S) -> S]
    /\ \A x \in S : \E i \in 1..Cardinality(S) : s[i] = x
    /\ \A i, j \in 1..Cardinality(S) : i < j => s[i] \in before[s[j]]

(* An element's rank grows along the order and stays below the set's size. *)
LEMMA RankGrows ==
    ASSUME NEW S, NEW before, StrictOrder(S, before)
    PROVE  /\ \A x \in S : Cardinality(before[x]) \in 0..(Cardinality(S) - 1)
           /\ \A x, y \in S : x \in before[y] => Cardinality(before[x]) < Cardinality(before[y])
<1>1. /\ IsFiniteSet(S) /\ Cardinality(S) \in Nat
      /\ \A x \in S : before[x] \in SUBSET S /\ x \notin before[x]
  BY FS_CardinalityType DEF StrictOrder
<1>2. \A x \in S : IsFiniteSet(before[x]) /\ Cardinality(before[x]) \in Nat
  BY <1>1, FS_Subset, FS_CardinalityType
<1>3. ASSUME NEW x \in S PROVE Cardinality(before[x]) \in 0..(Cardinality(S) - 1)
  <2>1. Cardinality(before[x]) <= Cardinality(S) /\ Cardinality(before[x]) # Cardinality(S)
    BY <1>1, FS_Subset
  <2> QED  BY <2>1, <1>1, <1>2
<1>4. ASSUME NEW x \in S, NEW y \in S, x \in before[y]
      PROVE  Cardinality(before[x]) < Cardinality(before[y])
  <2>1. before[x] \in SUBSET before[y] /\ before[x] # before[y]
    BY <1>1, <1>4 DEF StrictOrder
  <2>2. /\ Cardinality(before[x]) <= Cardinality(before[y])
        /\ Cardinality(before[x]) # Cardinality(before[y])
    BY <2>1, <1>2, FS_Subset
  <2> QED  BY <2>2, <1>2
<1> QED  BY <1>3, <1>4

(* InOrder lists every element once, along the order.                      *)
LEMMA InOrderEnumerates ==
    ASSUME NEW S, NEW before, StrictOrder(S, before)
    PROVE  Enumerates(InOrder(S, before), S, before)
<1> DEFINE n == Cardinality(S)
           s == InOrder(S, before)
           rank == [x \in S |-> Cardinality(before[x]) + 1]
<1>1. IsFiniteSet(S) /\ n \in Nat /\ \A x, y \in S : x = y \/ x \in before[y] \/ y \in before[x]
  BY FS_CardinalityType DEF StrictOrder
<1>2. rank \in [S -> 1..n]
  <2>1. \A x \in S : Cardinality(before[x]) + 1 \in 1..n
    BY <1>1, RankGrows
  <2> QED  BY <2>1
<1>3. \A x, y \in S : rank[x] = rank[y] => x = y
  <2> SUFFICES ASSUME NEW x \in S, NEW y \in S, Cardinality(before[x]) = Cardinality(before[y])
               PROVE  x = y
    <3>1. \A x \in S : Cardinality(before[x]) \in Nat
      BY <1>1, RankGrows
    <3> QED  BY <3>1
  <2>1. ~(Cardinality(before[x]) < Cardinality(before[x]))
    BY <1>1, RankGrows
  <2> QED  BY <2>1, <1>1, RankGrows
<1>4. \A i \in 1..n : \E x \in S : rank[x] = i
  <2>1. IsFiniteSet(1..n) /\ Cardinality(1..n) = n
    BY <1>1, FS_Interval
  <2>2. rank \in Injection(S, 1..n)
    BY <1>2, <1>3 DEF Injection, IsInjective
  <2>3. rank \in Surjection(S, 1..n)
    BY <2>1, <2>2, FS_Injection
  <2> QED  BY <2>3 DEF Surjection
<1>5. ASSUME NEW i \in 1..n PROVE s[i] \in S /\ Cardinality(before[s[i]]) = i - 1
  <2>1. PICK x \in S : rank[x] = i
    BY <1>4
  <2>2. Cardinality(before[x]) = i - 1
    BY <2>1, RankGrows
  <2>3. s[i] = CHOOSE y \in S : Cardinality(before[y]) = i - 1
    BY DEF InOrder
  <2> QED  BY <2>2, <2>3
<1>6. s \in [1..n -> S]
  BY <1>5 DEF InOrder
<1>7. ASSUME NEW x \in S PROVE \E i \in 1..n : s[i] = x
  <2>1. rank[x] \in 1..n /\ rank[x] = Cardinality(before[x]) + 1
    BY <1>2
  <2>2. s[rank[x]] \in S /\ Cardinality(before[s[rank[x]]]) = rank[x] - 1
    BY <2>1, <1>5
  <2>3. rank[s[rank[x]]] = rank[x]
    BY <2>1, <2>2
  <2> QED  BY <2>1, <2>2, <2>3, <1>3
<1>8. ASSUME NEW i \in 1..n, NEW j \in 1..n, i < j PROVE s[i] \in before[s[j]]
  <2>1. /\ s[i] \in S /\ Cardinality(before[s[i]]) = i - 1
        /\ s[j] \in S /\ Cardinality(before[s[j]]) = j - 1
    BY <1>5
  <2>2. s[i] # s[j] /\ s[j] \notin before[s[i]]
    BY <2>1, <1>8, RankGrows
  <2> QED  BY <2>1, <2>2, <1>1
<1> QED  BY <1>1, <1>6, <1>7, <1>8 DEF Enumerates

(* A window of the store's order.                                          *)
LEMMA BeforeIsStrict ==
    ASSUME NEW S \in SUBSET RowType, IsFiniteSet(S), OneRowPerId(S)
    PROVE  StrictOrder(S, [r \in S |-> {x \in S : Before(x, r)}])
<1>1. \A x \in S : x.at \in Nat /\ x.id \in Nat
  BY BrowseAssumption DEF RowType
<1>2. \A x \in S : ~Before(x, x)
  BY <1>1 DEF Before
<1>3. \A x, y, z \in S : Before(x, y) /\ Before(y, z) => Before(x, z)
  BY <1>1 DEF Before
<1>4. \A x, y \in S : x = y \/ Before(x, y) \/ Before(y, x)
  BY <1>1 DEF Before, OneRowPerId
<1> QED  BY <1>2, <1>3, <1>4 DEF StrictOrder

LEMMA OrderedLists ==
    ASSUME NEW S \in SUBSET RowType, IsFiniteSet(S), OneRowPerId(S)
    PROVE  /\ Ordered(S) \in Seq(S)
           /\ \A x \in S : \E i \in 1..Len(Ordered(S)) : Ordered(S)[i] = x
           /\ \A i, j \in 1..Len(Ordered(S)) : i < j => Before(Ordered(S)[i], Ordered(S)[j])
<1> DEFINE before == [r \in S |-> {x \in S : Before(x, r)}]
<1>1. Enumerates(Ordered(S), S, before)
  BY BeforeIsStrict, InOrderEnumerates DEF Ordered
<1>2. /\ Cardinality(S) \in Nat /\ Ordered(S) \in [1..Cardinality(S) -> S]
      /\ \A x \in S : \E i \in 1..Cardinality(S) : Ordered(S)[i] = x
      /\ \A i, j \in 1..Cardinality(S) : i < j => Ordered(S)[i] \in before[Ordered(S)[j]]
  BY <1>1 DEF Enumerates
<1>3. Ordered(S) \in Seq(S) /\ Len(Ordered(S)) = Cardinality(S)
  <2> HIDE DEF before
  <2> QED  BY <1>2
<1>4. \A i \in 1..Cardinality(S) : Ordered(S)[i] \in S
  BY <1>2
<1> QED  BY <1>2, <1>3, <1>4

LEMMA UptoTakes ==
    ASSUME NEW T, NEW s \in Seq(T), NEW n \in Nat
    PROVE  /\ Upto(s, n) \in Seq(T) /\ Len(Upto(s, n)) <= n /\ Len(Upto(s, n)) <= Len(s)
           /\ Len(Upto(s, n)) < n => Len(Upto(s, n)) = Len(s)
           /\ \A i \in 1..Len(Upto(s, n)) : Upto(s, n)[i] = s[i]
<1> DEFINE m == IF n < Len(s) THEN n ELSE Len(s)
<1>1. m \in 0..Len(s) /\ m <= n
  OBVIOUS
<1>2. /\ SubSeq(s, 1, m) \in Seq(T) /\ Len(SubSeq(s, 1, m)) = m
      /\ \A i \in 1..m : SubSeq(s, 1, m)[i] = s[i]
  BY <1>1
<1> QED  BY <1>1, <1>2 DEF Upto

(* A filter: the positions kept, in their order.                           *)
Keeps(s, I, f) ==
    /\ Len(KeptAt(s, I)) <= Len(s)
    /\ f \in [1..Len(KeptAt(s, I)) -> I]
    /\ \A k \in 1..Len(KeptAt(s, I)) : KeptAt(s, I)[k] = s[f[k]]
    /\ \A i \in I : \E k \in 1..Len(KeptAt(s, I)) : f[k] = i
    /\ \A j, k \in 1..Len(KeptAt(s, I)) : j < k => f[j] < f[k]

LEMMA KeptAtKeeps ==
    ASSUME NEW T, NEW s \in Seq(T), NEW I \in SUBSET DOMAIN s
    PROVE  KeptAt(s, I) \in Seq(T) /\ \E f : Keeps(s, I, f)
<1> DEFINE before == [i \in I |-> {j \in I : j < i}]
           f == InOrder(I, before)
<1>1. IsFiniteSet(I) /\ I \subseteq Nat /\ \A i \in I : s[i] \in T
  BY FS_Interval, FS_Subset
<1>2. StrictOrder(I, before)
  BY <1>1 DEF StrictOrder
<1>3. Enumerates(f, I, before)
  BY <1>2, InOrderEnumerates
<1>4. /\ Cardinality(I) \in Nat /\ f \in [1..Cardinality(I) -> I]
      /\ \A i \in I : \E k \in 1..Cardinality(I) : f[k] = i
      /\ \A j, k \in 1..Cardinality(I) : j < k => f[j] \in before[f[k]]
  BY <1>3 DEF Enumerates
<1>5. \A j, k \in 1..Cardinality(I) : j < k => f[j] < f[k]
  <2> SUFFICES ASSUME NEW j \in 1..Cardinality(I), NEW k \in 1..Cardinality(I), j < k
               PROVE  f[j] < f[k]
    OBVIOUS
  <2> HIDE DEF f
  <2>1. f[k] \in I /\ f[j] \in before[f[k]]
    BY <1>4
  <2> QED  BY <2>1
<1>6. KeptAt(s, I) = [k \in 1..Cardinality(I) |-> s[f[k]]]
  <2>1. DOMAIN f = 1..Cardinality(I)
    <3> HIDE DEF f
    <3> QED  BY <1>4
  <2> QED  BY <2>1 DEF KeptAt
<1> HIDE DEF f
<1>7. KeptAt(s, I) \in Seq(T) /\ Len(KeptAt(s, I)) = Cardinality(I)
  BY <1>1, <1>4, <1>6
<1>8. Cardinality(I) <= Len(s)
  <2> DEFINE n == Len(s)
  <2>1. n \in Nat
    OBVIOUS
  <2>2. I \in SUBSET (1..n)
    OBVIOUS
  <2> HIDE DEF n
  <2>3. IsFiniteSet(1..n) /\ Cardinality(1..n) = n
    BY <2>1, FS_Interval
  <2>4. Cardinality(I) <= n
    BY <2>2, <2>3, FS_Subset
  <2> QED  BY <2>4 DEF n
<1>9. Keeps(s, I, f)
  BY <1>4, <1>5, <1>6, <1>7, <1>8 DEF Keeps
<1> QED  BY <1>7, <1>9

LEMMA KeptAtDistinct ==
    ASSUME NEW T, NEW s \in Seq(T), NEW I \in SUBSET DOMAIN s, Distinct(s)
    PROVE  /\ Distinct(KeptAt(s, I)) /\ Len(KeptAt(s, I)) <= Len(s)
           /\ \A k \in DOMAIN KeptAt(s, I) : \E i \in I : KeptAt(s, I)[k] = s[i]
           /\ \A i \in I : \E k \in DOMAIN KeptAt(s, I) : KeptAt(s, I)[k] = s[i]
<1>1. KeptAt(s, I) \in Seq(T) /\ DOMAIN KeptAt(s, I) = 1..Len(KeptAt(s, I))
  BY KeptAtKeeps
<1>2. PICK f : Keeps(s, I, f)
  BY KeptAtKeeps
<1>3. \A j, k \in 1..Len(KeptAt(s, I)) : f[j] = f[k] => j = k
  BY <1>1, <1>2 DEF Keeps
<1> QED  BY <1>1, <1>2, <1>3 DEF Keeps, Distinct

(* A window answers what was asked of it, at the time it is read.          *)
LEMMA BrowseAnswers ==
    ASSUME TableInv, NEW q \in Query, NEW limit \in Nat \ {0}, NEW c \in CursorType
    PROVE  LET p == Browse(q, limit, c) IN
           /\ p \in PageType /\ Len(p.records) <= limit
           /\ Distinct(p.records) /\ AllMatch(p.records, q) /\ NoneLater(p.records, clock)
           /\ p.continuation # NoCursor =>
                 p.records # <<>> /\ p.continuation = Cursor(q, p.records[Len(p.records)])
           /\ Holds(table, p.records, q, clock, c, p.continuation)
<1> DEFINE S == After(Matching(q), c)
           s == Ordered(S)
           w == Upto(s, limit)
           d == IF w # <<>> /\ Len(w) = limit THEN Cursor(q, w[Len(w)]) ELSE NoCursor
<1>1. /\ S \in SUBSET table /\ S \in SUBSET RowType /\ IsFiniteSet(S) /\ OneRowPerId(S)
      /\ \A r \in table : r \in S <=> Matches(r, q) /\ (c = NoCursor \/ Before(c, r))
  BY FS_Subset DEF TableInv, OneRowPerId, After, Matching
<1>2. IsFiniteSet(Matching(q)) /\ Cardinality(Matching(q)) \in Nat
  BY FS_Subset, FS_CardinalityType DEF TableInv, Matching
<1> HIDE DEF S
<1>3. /\ s \in Seq(S) /\ \A x \in S : \E i \in 1..Len(s) : s[i] = x
      /\ \A i, j \in 1..Len(s) : i < j => Before(s[i], s[j])
  BY <1>1, OrderedLists
<1> HIDE DEF s
<1>4. /\ w \in Seq(S) /\ Len(w) <= limit /\ Len(w) <= Len(s)
      /\ Len(w) < limit => Len(w) = Len(s)
      /\ \A i \in 1..Len(w) : w[i] = s[i]
  BY <1>3, UptoTakes
<1> HIDE DEF w
<1>5. w \in Seq(S) /\ Len(w) \in Nat /\ Len(s) \in Nat
  <2>1. w \in Seq(S) /\ s \in Seq(S)
    BY <1>3, <1>4
  <2> QED  BY <2>1
<1>6. /\ w \in Seq(RowType) /\ DOMAIN w = 1..Len(w) /\ Len(w) \in Nat
      /\ \A i \in 1..Len(w) : w[i] \in S /\ w[i] \in RowType /\ w[i] \in table
  BY <1>1, <1>4
<1>7. \A x \in S : ~Before(x, x)
  <2>1. \A x \in S : x.at \in Nat /\ x.id \in Nat
    BY <1>1, BrowseAssumption DEF RowType
  <2> QED  BY <2>1 DEF Before
<1>8. Distinct(w)
  <2> SUFFICES ASSUME NEW i \in 1..Len(w), NEW j \in 1..Len(w), w[i].id = w[j].id, i < j PROVE FALSE
    BY <1>6 DEF Distinct
  <2>1. w[i] = w[j]
    BY <1>1, <1>6 DEF OneRowPerId
  <2>2. Before(w[i], w[j])
    <3>1. w[i] = s[i] /\ w[j] = s[j] /\ Len(w) <= Len(s)
      BY <1>4
    <3>2. i \in 1..Len(s) /\ j \in 1..Len(s)
      BY <3>1, <1>5
    <3> QED  BY <3>1, <3>2, <1>3
  <2> QED  BY <2>1, <2>2, <1>6, <1>7
<1>9. AllMatch(w, q) /\ NoneLater(w, clock)
  BY <1>1, <1>6 DEF AllMatch, NoneLater, TableInv
<1>10. d \in CursorType /\ (d # NoCursor => w # <<>> /\ Len(w) = limit /\ d = Cursor(q, w[Len(w)]))
  <2>1. NoCursor \in CursorType
    BY DEF NoCursor, CursorType
  <2>2. ASSUME w # <<>> PROVE Cursor(q, w[Len(w)]) \in CursorType
    <3>1. w[Len(w)] \in RowType
      BY <2>2, <1>6
    <3> QED  BY <3>1, BrowseAssumption DEF Cursor, CursorType, RowType
  <2> QED  BY <2>1, <2>2
<1>11. Holds(table, w, q, clock, c, d)
  <2> SUFFICES ASSUME NEW r \in S, d = NoCursor \/ ~Before(d, r)
               PROVE  \E i \in 1..Len(w) : w[i] = r
    BY <1>1, <1>6 DEF Holds, Ids
  <2>1. Len(s) \in Nat /\ Len(w) \in Nat /\ Len(w) <= Len(s) /\ Len(w) <= limit
    BY <1>5, <1>4
  <2>2. PICK k \in 1..Len(s) : s[k] = r
    BY <1>3
  <2>3. CASE k <= Len(w)
    <3>1. k \in 1..Len(w)
      BY <2>1, <2>3
    <3> QED  BY <3>1, <2>2, <1>4
  <2>4. CASE k > Len(w)
    <3>1. Len(w) = limit /\ w # <<>>
      <4>1. Len(w) < Len(s)
        BY <2>1, <2>4
      <4>2. Len(w) = limit
        BY <4>1, <2>1, <1>4
      <4> QED  BY <4>2
    <3>2. d = Cursor(q, w[Len(w)]) /\ d # NoCursor
      BY <3>1 DEF Cursor, NoCursor, Query
    <3>3. Before(w[Len(w)], r)
      <4>1. Len(w) \in 1..Len(w) /\ Len(w) \in 1..Len(s) /\ Len(w) < k
        BY <2>1, <2>4, <3>1
      <4>2. w[Len(w)] = s[Len(w)]
        BY <4>1, <1>4
      <4> QED  BY <4>1, <4>2, <2>2, <1>3
    <3>4. Before(d, r)
      BY <3>2, <3>3 DEF Before, Cursor
    <3> QED  BY <3>2, <3>4
  <2> QED  BY <2>1, <2>3, <2>4
<1>12. Browse(q, limit, c) = [records |-> w, total |-> Cardinality(Matching(q)), continuation |-> d]
  BY DEF Browse, w, s, S
<1> HIDE DEF d
<1>13. Browse(q, limit, c) \in PageType
  BY <1>2, <1>6, <1>10, <1>12 DEF PageType
<1> QED  BY <1>4, <1>8, <1>9, <1>10, <1>11, <1>12, <1>13

-----------------------------------------------------------------------------
(* What is on screen after an answer: s, then the rows of t at I whose ids *)
(* s does not have, up to n rows.                                          *)
NewAt(I, s, t) == I \in SUBSET DOMAIN t /\ \A i \in I : t[i].id \notin Ids(s)
Joins(u, s, t, I, n) ==
    /\ u \in Seq(RowType) /\ Len(u) <= n /\ Distinct(u)
    /\ \A k \in DOMAIN u : (\E i \in DOMAIN s : u[k] = s[i]) \/ (\E i \in I : u[k] = t[i])
    /\ Ids(s) \subseteq Ids(u)
    /\ Len(u) < n \/ Len(s) + Len(t) <= n => \A i \in I : t[i].id \in Ids(u)

LEMMA JoinedRows ==
    ASSUME NEW s \in Seq(RowType), NEW t \in Seq(RowType), Distinct(s), Distinct(t),
           NEW I, NewAt(I, s, t), NEW n \in Nat, Len(s) <= n
    PROVE  Joins(Upto(s \o KeptAt(t, I), n), s, t, I, n)
<1> DEFINE k == KeptAt(t, I)
           j == s \o k
           u == Upto(j, n)
<1> USE DEF NewAt
<1>1. /\ k \in Seq(RowType) /\ Distinct(k) /\ Len(k) <= Len(t)
      /\ \A a \in DOMAIN k : \E i \in I : k[a] = t[i]
      /\ \A i \in I : \E a \in DOMAIN k : k[a] = t[i]
  BY KeptAtKeeps, KeptAtDistinct
<1> HIDE DEF k
<1>2. Len(s) \in Nat /\ Len(t) \in Nat /\ Len(k) \in Nat /\ Len(k) <= Len(t)
  BY <1>1
<1>3. DOMAIN s = 1..Len(s) /\ DOMAIN k = 1..Len(k)
  BY <1>1
<1>4. /\ j \in Seq(RowType) /\ Len(j) = Len(s) + Len(k)
      /\ \A a \in 1..Len(s) : j[a] = s[a]
      /\ \A a \in 1..Len(k) : j[Len(s) + a] = k[a]
  BY <1>2, <1>1, ConcatProperties
<1> HIDE DEF j
<1>5. /\ u \in Seq(RowType) /\ Len(u) <= n /\ Len(u) <= Len(j)
      /\ Len(u) < n => Len(u) = Len(j)
      /\ \A a \in 1..Len(u) : u[a] = j[a]
      /\ n >= Len(j) => Len(u) = Len(j)
  BY <1>4, UptoTakes DEF Upto
<1> HIDE DEF u
<1>6. u \in Seq(RowType)
  BY <1>5
<1>7. Len(u) \in Nat
  BY <1>6
<1>8. DOMAIN u = 1..Len(u)
  BY <1>6
<1>9. /\ Len(s) <= Len(u) /\ Len(u) <= Len(s) + Len(k)
      /\ Len(u) < n \/ Len(s) + Len(t) <= n => Len(u) = Len(s) + Len(k)
  <2>1. /\ Len(j) = Len(s) + Len(k) /\ Len(u) <= n /\ Len(u) <= Len(j)
        /\ Len(u) < n => Len(u) = Len(j)
        /\ n >= Len(j) => Len(u) = Len(j)
    BY <1>4, <1>5
  <2> QED  BY <1>2, <1>7, <2>1
<1>10. ASSUME NEW a \in 1..Len(u)
      PROVE  \/ a \in 1..Len(s) /\ u[a] = s[a]
             \/ a - Len(s) \in 1..Len(k) /\ u[a] = k[a - Len(s)]
  <2>1. u[a] = j[a]
    BY <1>5
  <2>2. CASE a <= Len(s)
    <3>1. a \in 1..Len(s)
      BY <2>2, <1>2, <1>7
    <3> QED  BY <2>1, <3>1, <1>4
  <2>3. CASE a > Len(s)
    <3>1. a - Len(s) \in 1..Len(k) /\ a = Len(s) + (a - Len(s))
      BY <2>3, <1>2, <1>9, <1>7
    <3> QED  BY <2>1, <3>1, <1>4
  <2> QED  BY <2>2, <2>3, <1>2, <1>7
<1>11. \A a \in 1..Len(s) : a \in 1..Len(u) /\ u[a] = s[a]
  <2>1. \A a \in 1..Len(s) : a \in 1..Len(u)
    BY <1>2, <1>9, <1>7
  <2> QED  BY <2>1, <1>4, <1>5
<1>12. ASSUME Len(u) = Len(s) + Len(k), NEW a \in 1..Len(k)
      PROVE  Len(s) + a \in 1..Len(u) /\ u[Len(s) + a] = k[a]
  <2>1. Len(s) + a \in 1..Len(u)
    BY <1>2, <1>12, <1>7
  <2> QED  BY <2>1, <1>4, <1>5
<1>13. \A a \in 1..Len(k) : \A b \in 1..Len(s) : k[a].id # s[b].id
  <2> SUFFICES ASSUME NEW a \in 1..Len(k), NEW b \in 1..Len(s), k[a].id = s[b].id PROVE FALSE
    OBVIOUS
  <2>1. PICK i \in I : k[a] = t[i]
    BY <1>1, <1>3
  <2>2. s[b].id \in Ids(s)
    BY <1>3 DEF Ids
  <2> QED  BY <2>1, <2>2
<1>14. Distinct(u)
  <2> SUFFICES ASSUME NEW a \in 1..Len(u), NEW b \in 1..Len(u), u[a].id = u[b].id PROVE a = b
    BY <1>8 DEF Distinct
  <2>1. CASE a \in 1..Len(s) /\ u[a] = s[a]
    <3>1. CASE b \in 1..Len(s) /\ u[b] = s[b]
      BY <2>1, <3>1, <1>3 DEF Distinct
    <3>2. CASE b - Len(s) \in 1..Len(k) /\ u[b] = k[b - Len(s)]
      BY <2>1, <3>2, <1>13
    <3> QED  BY <3>1, <3>2, <1>10
  <2>2. CASE a - Len(s) \in 1..Len(k) /\ u[a] = k[a - Len(s)]
    <3>1. CASE b \in 1..Len(s) /\ u[b] = s[b]
      BY <2>2, <3>1, <1>13
    <3>2. CASE b - Len(s) \in 1..Len(k) /\ u[b] = k[b - Len(s)]
      <4>1. a - Len(s) = b - Len(s)
        BY <2>2, <3>2, <1>1, <1>3 DEF Distinct
      <4> QED  BY <4>1, <1>2, <1>7
    <3> QED  BY <3>1, <3>2, <1>10
  <2> QED  BY <2>1, <2>2, <1>10
<1>15. ASSUME NEW a \in DOMAIN u
       PROVE  (\E i \in DOMAIN s : u[a] = s[i]) \/ (\E i \in I : u[a] = t[i])
  BY <1>1, <1>3, <1>10, <1>8
<1>16. Ids(s) \subseteq Ids(u)
  BY <1>3, <1>11, <1>8 DEF Ids
<1>17. ASSUME Len(u) < n \/ Len(s) + Len(t) <= n, NEW i \in I PROVE t[i].id \in Ids(u)
  <2>1. PICK a \in 1..Len(k) : k[a] = t[i]
    BY <1>1, <1>3
  <2>2. Len(s) + a \in DOMAIN u /\ u[Len(s) + a] = t[i]
    BY <2>1, <1>9, <1>12, <1>17, <1>8
  <2> QED  BY <2>2 DEF Ids
<1> QED
  BY <1>5, <1>14, <1>15, <1>16, <1>17 DEF Joins, u, j, k

(* Holding more rows, and holding the next span too.                       *)
LEMMA HoldsWithMore ==
    ASSUME NEW S, NEW s, NEW u, NEW q, NEW t, NEW c, NEW d,
           Holds(S, s, q, t, c, d), Ids(s) \subseteq Ids(u)
    PROVE  Holds(S, u, q, t, c, d)
BY DEF Holds

LEMMA HoldsOnward ==
    ASSUME NEW S \in SUBSET RowType, NEW s, NEW p, NEW u, NEW q,
           NEW t1 \in Nat, NEW t2 \in Nat, NEW c, NEW d,
           Holds(S, s, q, t1, NoCursor, c), Holds(S, p, q, t2, c, d), t1 <= t2,
           c # NoCursor, Ids(s) \subseteq Ids(u), Ids(p) \subseteq Ids(u)
    PROVE  Holds(S, u, q, t1, NoCursor, d)
<1> SUFFICES ASSUME NEW r \in S, Matches(r, q), r.at <= t1, d = NoCursor \/ ~Before(d, r)
             PROVE  r.id \in Ids(u)
  BY DEF Holds
<1>1. r.at <= t2
  BY DEF RowType
<1>2. CASE Before(c, r)
  BY <1>1, <1>2 DEF Holds
<1>3. CASE ~Before(c, r)
  BY <1>3 DEF Holds
<1> QED  BY <1>2, <1>3

-----------------------------------------------------------------------------
(* The steps. What may be asked is well typed and asks for some rows.      *)
StateTyped == revision \in Nat /\ query \in Query /\ fulfilled \in FulfilledType
Asked(r) == r \in RequestType /\ r.limit # 0 /\ r.limit <= ResidentCap /\ r.revision = revision
AskableAsked == \A r : Askable(r) => Asked(r)
LEMMA AskableTyped == StateTyped => AskableAsked
<1> SUFFICES ASSUME revision \in Nat, query \in Query, fulfilled \in FulfilledType,
                    NEW r, Askable(r)
             PROVE  /\ r \in RequestType /\ r.limit # 0
                    /\ r.limit <= ResidentCap /\ r.revision = revision
  BY DEF StateTyped, Asked, AskableAsked
<1>1. /\ PageSize \in Nat \ {0} /\ ResidentCap \in Nat \ {0} /\ PageSize <= ResidentCap
      /\ Len(fulfilled.records) \in Nat /\ fulfilled.continuation \in CursorType
      /\ NoCursor \in CursorType
  BY BrowseAssumption DEF FulfilledType, NoCursor, CursorType
<1>2. CASE r = Initial(revision, query)
  BY <1>1, <1>2 DEF Initial, Request, RequestType, Kind
<1>3. CASE r = Refresh
  <2>1. RefreshLimit \in Nat /\ RefreshLimit # 0 /\ RefreshLimit <= ResidentCap
    BY <1>1 DEF RefreshLimit
  <2> QED  BY <1>1, <1>3, <2>1 DEF Refresh, Request, RequestType, Kind
<1>4. CASE CanLoadMore(fulfilled) /\ r = LoadMore(fulfilled)
  <2> DEFINE room == ResidentCap - Len(fulfilled.records)
             limit == IF room < PageSize THEN room ELSE PageSize
  <2>1. Len(fulfilled.records) < ResidentCap
    BY <1>4 DEF CanLoadMore
  <2>2. limit \in Nat /\ limit # 0 /\ limit <= ResidentCap
    BY <1>1, <2>1
  <2>3. r = Request(revision, "load-more", query, limit, fulfilled.continuation)
    BY <1>4 DEF LoadMore
  <2> HIDE DEF limit
  <2> QED  BY <1>1, <2>2, <2>3 DEF Request, RequestType, Kind
<1> QED  BY <1>2, <1>3, <1>4 DEF Askable

(* What Start and Drain do: of the requests R of other revisions that are  *)
(* left, all go on, and one more may be sent, that can be asked now.       *)
Relaunched(R) ==
    \/ requests' = R /\ inFlight' = NoRequest
    \/ \E r : Askable(r)' /\ inFlight' = r /\ requests' = R \cup {Sent(r)}

LEMMA Relaunch ==
    ASSUME BrowseInv, UNCHANGED <<table, clock>>,
           revision' \in Nat \ {0}, query' \in Query, fulfilled' \in FulfilledType,
           revision <= revision', fulfilled'.revision <= revision',
           NEW R \in SUBSET requests, \A m \in R : m.req.revision # revision',
           Relaunched(R)
    PROVE  /\ requests' \subseteq SentType /\ inFlight' \in RequestType /\ WindowInv' /\ PageInv'
           /\ \A m \in requests' : ~(m.read /\ Desired(m.req)')
<1>1. CASE requests' = R /\ inFlight' = NoRequest
  <2>1. R \subseteq SentType /\ \A m \in R : m.req.revision <= revision'
    BY DEF BrowseInv, BrowseType, WindowInv, SentType, RequestType
  <2>2. WindowInv'
    BY <1>1, <2>1 DEF BrowseInv, WindowInv, Desired
  <2>3. PageInv'
    BY <1>1 DEF BrowseInv, PageInv
  <2>4. NoRequest \in RequestType
    BY DEF NoRequest, RequestType, Kind, CursorType, NoCursor, Query
  <2> QED  BY <1>1, <2>1, <2>2, <2>3, <2>4 DEF Desired
<1>2. ASSUME NEW r, Askable(r)', inFlight' = r, requests' = R \cup {Sent(r)}
      PROVE  /\ requests' \subseteq SentType /\ inFlight' \in RequestType /\ WindowInv' /\ PageInv'
             /\ \A m \in requests' : ~(m.read /\ Desired(m.req)')
  <2>1. R \subseteq SentType /\ \A m \in R : m.req.revision <= revision' /\ m.req.limit # 0
    BY DEF BrowseInv, BrowseType, WindowInv, SentType, RequestType
  <2>2. AskableAsked'
    <3>1. StateTyped'
      BY DEF StateTyped
    <3> QED  BY <3>1, AskableTyped, PTL
  <2>3. r \in RequestType /\ r.limit # 0 /\ r.revision = revision'
    BY <1>2, <2>2 DEF AskableAsked, Asked
  <2>4. Sent(r) \in SentType /\ Sent(r).req = r /\ Sent(r).read = FALSE
    BY <2>3 DEF Sent, SentType, PageType, NoCursor, CursorType
  <2>5. WindowInv'
    BY <1>2, <2>1, <2>3, <2>4 DEF BrowseInv, WindowInv, Desired
  <2>6. PageInv'
    BY <1>2, <2>4 DEF BrowseInv, PageInv
  <2> QED  BY <1>2, <2>1, <2>3, <2>4, <2>5, <2>6 DEF Desired
<1> QED  BY <1>1, <1>2 DEF Relaunched

LEMMA BrowseStarts == Init => BrowseInv
<1> SUFFICES ASSUME Init PROVE BrowseInv
  OBVIOUS
<1>1. TableInv
  <2> DEFINE rowOf == [i \in Initially |-> [id |-> i, at |-> 0, active |-> TRUE]]
  <2>1. rowOf \in Surjection(Initially, table)
    BY DEF Init, Surjection
  <2>2. IsFiniteSet(table)
    BY <2>1, FS_Surjection, BrowseAssumption
  <2> DEFINE row(i) == [id |-> i, at |-> 0, active |-> TRUE]
  <2>3. \A r \in table : \E i \in Initially : r = row(i)
    BY DEF Init
  <2>4. \A i \in Initially : row(i) \in RowType /\ row(i).at = 0 /\ row(i).id = i
    BY BrowseAssumption DEF RowType
  <2> HIDE DEF row
  <2>5. table \subseteq RowType /\ \A r \in table : r.at = 0
    BY <2>3, <2>4
  <2>6. OneRowPerId(table)
    BY <2>3, <2>4 DEF OneRowPerId
  <2>7. clock = 0
    BY DEF Init
  <2> QED  BY <2>2, <2>5, <2>6, <2>7 DEF TableInv
<1>2. NoCursor \in CursorType
  BY DEF NoCursor, CursorType
<1>3. BrowseType
  <2>1. fulfilled \in FulfilledType
    BY <1>2 DEF Init, Nothing, FulfilledType
  <2>2. inFlight \in RequestType
    BY <1>2 DEF Init, NoRequest, RequestType, Kind, Query
  <2>3. Trouble <= MaxTrouble
    BY BrowseAssumption DEF Init, Trouble
  <2>4. /\ revision \in Nat /\ query \in Query /\ failures \in Nat /\ queuedLoadMore \in BOOLEAN
        /\ requests \subseteq SentType /\ initialFailure \in 0..revision
        /\ kindErrors \subseteq {"refresh", "load-more"}
    <3>1. /\ revision = 0 /\ query = "all" /\ failures = 0 /\ queuedLoadMore = FALSE
          /\ requests = {} /\ initialFailure = 0 /\ kindErrors = {}
      BY DEF Init
    <3>2. revision \in Nat /\ failures \in Nat /\ initialFailure \in 0..revision
      BY <3>1
    <3>3. query \in Query /\ queuedLoadMore \in BOOLEAN
      BY <3>1 DEF Query
    <3>4. requests \subseteq SentType /\ kindErrors \subseteq {"refresh", "load-more"}
      BY <3>1
    <3> QED  BY <3>2, <3>3, <3>4
  <2> QED  BY <2>1, <2>2, <2>3, <2>4 DEF BrowseType
<1>4. /\ fulfilled.records = <<>> /\ fulfilled.asked = {}
      /\ fulfilled.revision = 0 /\ fulfilled.readAt = 0
  BY DEF Init, Nothing
<1>5. ~IsFulfilled
  BY DEF Init, IsFulfilled
<1>6. WindowInv /\ PageInv
  BY <1>4 DEF Init, WindowInv, PageInv
<1>7. ShownInv
  BY <1>4, <1>5, BrowseAssumption DEF Init, ShownInv, Distinct, NoneLater
<1>8. AskedInv
  BY <1>4, <1>5 DEF Init, AskedInv, Query
<1> QED  BY <1>1, <1>3, <1>6, <1>7, <1>8 DEF BrowseInv

(* A write: a row that is there and no newer than before was there, and    *)
(* matched what it matches.                                                *)
LEMMA WriteKeepsRows ==
    ASSUME TableInv, Write
    PROVE  /\ TableInv' /\ clock' = clock + 1
           /\ \A r \in table' : r.at <= clock =>
                 \E x \in table : /\ x.id = r.id /\ x.at = r.at
                                  /\ \A q : Matches(r, q) => Matches(x, q)
<1>1. clock \in Nat /\ clock' = clock + 1 /\ \A r \in table : r.at \in Nat /\ r.at <= clock
  BY DEF TableInv, Write, RowType
<1>2. CASE \E i \in Row :
              table' = {r \in table : r.id # i} \cup {[id |-> i, at |-> clock', active |-> TRUE]}
  <2>1. PICK i \in Row :
          table' = {r \in table : r.id # i} \cup {[id |-> i, at |-> clock', active |-> TRUE]}
    BY <1>2
  <2>2. IsFiniteSet(table')
    BY <2>1, FS_Subset, FS_AddElement DEF TableInv
  <2>3. TableInv'
    <3> DEFINE new == [id |-> i, at |-> clock', active |-> TRUE]
               old == {r \in table : r.id # i}
    <3>1. new \in RowType /\ new.at = clock' /\ new.id = i
      BY <1>1 DEF RowType
    <3>2. old \subseteq table /\ \A r \in old : r.id # i
      OBVIOUS
    <3>3. table' = old \cup {new}
      BY <2>1
    <3> HIDE DEF new, old
    <3>4. OneRowPerId(table')
      BY <3>1, <3>2, <3>3 DEF TableInv, OneRowPerId
    <3>5. \A r \in table' : r.at <= clock'
      BY <1>1, <3>1, <3>2, <3>3
    <3> QED  BY <1>1, <2>2, <3>1, <3>2, <3>3, <3>4, <3>5 DEF TableInv
  <2> QED  BY <1>1, <2>1, <2>3
<1>3. CASE \E r \in table : r.active /\ table' = (table \ {r}) \cup {[r EXCEPT !.active = FALSE]}
  <2>1. PICK r \in table : r.active /\ table' = (table \ {r}) \cup {[r EXCEPT !.active = FALSE]}
    BY <1>3
  <2> DEFINE x == [r EXCEPT !.active = FALSE]
  <2>2. x \in RowType /\ x.id = r.id /\ x.at = r.at
    BY <2>1 DEF TableInv, RowType
  <2> HIDE DEF x
  <2>3. table' = (table \ {r}) \cup {x}
    BY <2>1 DEF x
  <2>4. IsFiniteSet(table')
    BY <2>3, FS_RemoveElement, FS_AddElement DEF TableInv
  <2>5. TableInv'
    BY <1>1, <2>2, <2>3, <2>4 DEF TableInv, OneRowPerId
  <2>6. \A q : Matches(r, q)
    BY <2>1 DEF Matches
  <2> QED  BY <1>1, <2>2, <2>3, <2>5, <2>6
<1>4. CASE \E r \in table : table' = table \ {r}
  <2>1. IsFiniteSet(table') /\ table' \subseteq table
    BY <1>4, FS_RemoveElement DEF TableInv
  <2> QED  BY <1>1, <2>1 DEF TableInv, OneRowPerId
<1> QED  BY <1>2, <1>3, <1>4 DEF Write

LEMMA WriteKeeps == ASSUME BrowseInv, Write PROVE BrowseInv'
<1>1. /\ TableInv /\ TableInv' /\ clock' = clock + 1 /\ clock \in Nat
      /\ \A r \in table' : r.at <= clock =>
            \E x \in table : /\ x.id = r.id /\ x.at = r.at
                             /\ \A q : Matches(r, q) => Matches(x, q)
  BY WriteKeepsRows DEF BrowseInv, TableInv
<1>2. UNCHANGED <<stateVars, requests, failures>>
  BY DEF Write
<1>3. ASSUME NEW s, NEW q, NEW t \in Nat, t <= clock, NEW c, NEW d, Holds(table, s, q, t, c, d)
      PROVE  Holds(table', s, q, t, c, d)
  <2> SUFFICES ASSUME NEW r \in table', Matches(r, q), r.at <= t, c = NoCursor \/ Before(c, r),
                      d = NoCursor \/ ~Before(d, r)
               PROVE  r.id \in Ids(s)
    BY DEF Holds
  <2>1. r.at \in Nat /\ r.at <= clock
    BY <1>1, <1>3 DEF TableInv, RowType
  <2>2. PICK x \in table : x.id = r.id /\ x.at = r.at /\ Matches(x, q)
    BY <1>1, <2>1
  <2> QED  BY <1>3, <2>2 DEF Holds, Before
<1>4. BrowseType'
  BY <1>1, <1>2, BrowseAssumption DEF BrowseInv, BrowseType, Write, Trouble, stateVars
<1>5. WindowInv'
  BY <1>2 DEF BrowseInv, WindowInv, Desired, Askable, IsFulfilled, stateVars, CanLoadMore, HasMore,
              Refresh, RefreshLimit, LoadMore
<1>6. PageInv'
  <2> SUFFICES ASSUME NEW m \in requests, m.read PROVE m.readAt <= clock' /\ PageGood(m, table')
    BY <1>2 DEF PageInv
  <2>1. m.readAt \in Nat /\ m.readAt <= clock /\ PageGood(m, table)
    BY DEF BrowseInv, BrowseType, PageInv, SentType
  <2>2. Holds(table', m.page.records, m.req.query, m.readAt, m.req.cursor, m.page.continuation)
    BY <1>3, <2>1 DEF PageGood
  <2> QED  BY <1>1, <2>1, <2>2 DEF PageGood
<1>7. ShownInv'
  <2>1. fulfilled.readAt \in Nat /\ fulfilled.readAt <= clock /\ fulfilled.readAt <= clock'
    BY <1>1 DEF BrowseInv, BrowseType, ShownInv, FulfilledType
  <2>2. NoneLater(fulfilled.records, clock')
    <3>1. \A i \in DOMAIN fulfilled.records : fulfilled.records[i].at \in Nat
      <4>1. fulfilled.records \in Seq(RowType)
        BY DEF BrowseInv, BrowseType, FulfilledType
      <4>2. \A i \in DOMAIN fulfilled.records : fulfilled.records[i] \in RowType
        BY <4>1
      <4> QED  BY <4>2 DEF RowType
    <3> QED  BY <1>1, <3>1 DEF BrowseInv, ShownInv, NoneLater
  <2>3. IsFulfilled => Holds(table', fulfilled.records, query, fulfilled.readAt, NoCursor,
                             fulfilled.continuation)
    BY <1>3, <2>1 DEF BrowseInv, ShownInv
  <2> QED  BY <1>2, <2>1, <2>2, <2>3 DEF BrowseInv, ShownInv, IsFulfilled, Desired, stateVars
<1>8. AskedInv'
  BY <1>2 DEF BrowseInv, AskedInv, IsFulfilled, stateVars
<1> QED  BY <1>1, <1>4, <1>5, <1>6, <1>7, <1>8 DEF BrowseInv

(* While the rows on screen stay and no answer to the question is there.   *)
LEMMA SameRowsShown ==
    ASSUME BrowseInv, UNCHANGED <<table, clock, fulfilled>>,
           IsFulfilled' => IsFulfilled /\ query' = query,
           \A m \in requests' : ~(m.read /\ Desired(m.req)')
    PROVE  ShownInv' /\ AskedInv'
<1>1. ShownInv'
  BY DEF BrowseInv, ShownInv, Desired
<1>2. AskedInv'
  BY DEF BrowseInv, AskedInv
<1> QED  BY <1>1, <1>2

LEMMA QueryChangedKeeps == ASSUME BrowseInv, QueryChanged PROVE BrowseInv'
<1>1. PICK q \in Query : query' = q /\ Start(Initial(revision + 1, q))
  BY DEF QueryChanged
<1>2. /\ revision' = revision + 1 /\ revision \in Nat /\ fulfilled \in FulfilledType
      /\ fulfilled.revision \in Nat /\ fulfilled.revision <= revision
      /\ UNCHANGED <<table, clock, fulfilled, failures>>
  BY DEF QueryChanged, BrowseInv, BrowseType, WindowInv, FulfilledType
<1>3. /\ ~IsFulfilled' /\ fulfilled'.revision <= revision'
      /\ revision' \in Nat \ {0} /\ revision <= revision'
  BY <1>2 DEF IsFulfilled
<1>4. \A m \in requests : m.req.revision # revision'
  <2>1. \A m \in requests : m.req.revision \in Nat /\ m.req.revision <= revision
    BY DEF BrowseInv, BrowseType, WindowInv, SentType, RequestType
  <2> QED  BY <1>2, <2>1
<1>5. Relaunched(requests)
  BY <1>1, <1>2, <1>3 DEF Start, Relaunched, Askable, Initial, Request
<1>6. /\ requests' \subseteq SentType /\ inFlight' \in RequestType /\ WindowInv' /\ PageInv'
      /\ \A m \in requests' : ~(m.read /\ Desired(m.req)')
  BY <1>1, <1>2, <1>3, <1>4, <1>5, Relaunch
<1>7. ShownInv' /\ AskedInv'
  BY <1>2, <1>3, <1>6, SameRowsShown
<1>8. BrowseType'
  <2>1. Trouble' <= MaxTrouble
    BY <1>2, BrowseAssumption DEF QueryChanged, Trouble, BrowseInv, TableInv, BrowseType
  <2>2. initialFailure' \in 0..revision' /\ kindErrors' = {} /\ queuedLoadMore' = FALSE
    BY <1>3 DEF QueryChanged
  <2>3. failures' \in Nat
    BY <1>2 DEF BrowseInv, BrowseType
  <2> QED  BY <1>1, <1>2, <1>3, <1>6, <2>1, <2>2, <2>3 DEF BrowseType
<1>9. TableInv'
  BY <1>2 DEF BrowseInv, TableInv
<1> QED  BY <1>6, <1>7, <1>8, <1>9 DEF BrowseInv

(* The machine at rest asks what it may.                                   *)
LEMMA StartKeeps ==
    ASSUME BrowseInv, inFlight = NoRequest, revision # 0, NEW r, Askable(r), Start(r),
           UNCHANGED <<table, clock, revision, query, fulfilled, queuedLoadMore, initialFailure,
                       kindErrors, failures>>
    PROVE  BrowseInv'
<1>1. /\ revision' \in Nat \ {0} /\ query' \in Query /\ fulfilled' \in FulfilledType
      /\ revision <= revision' /\ fulfilled'.revision <= revision'
  BY DEF BrowseInv, BrowseType, WindowInv
<1>2. \A m \in requests : m.req.revision # revision'
  BY DEF BrowseInv, WindowInv, Desired, NoRequest
<1>3. Relaunched(requests)
  BY DEF Start, Relaunched, Askable, IsFulfilled, CanLoadMore, HasMore, Refresh, RefreshLimit,
         LoadMore
<1>4. /\ requests' \subseteq SentType /\ inFlight' \in RequestType /\ WindowInv' /\ PageInv'
      /\ \A m \in requests' : ~(m.read /\ Desired(m.req)')
  BY <1>1, <1>2, <1>3, Relaunch
<1>5. ShownInv' /\ AskedInv'
  BY <1>4, SameRowsShown DEF IsFulfilled
<1>6. BrowseType'
  BY <1>4 DEF BrowseInv, BrowseType, Trouble
<1>7. TableInv'
  BY DEF BrowseInv, TableInv
<1> QED  BY <1>4, <1>5, <1>6, <1>7 DEF BrowseInv

LEMMA PollTickKeeps == ASSUME BrowseInv, PollTick PROVE BrowseInv'
<1>1. IsFulfilled /\ revision # 0 /\ Askable(Refresh)
  BY DEF PollTick, IsFulfilled, Askable
<1> QED  BY <1>1, StartKeeps DEF PollTick

LEMMA RetryKeeps == ASSUME BrowseInv, Retry PROVE BrowseInv'
<1> DEFINE r == IF ~IsFulfilled THEN Initial(revision, query)
                ELSE IF "load-more" \in kindErrors /\ CanLoadMore(fulfilled)
                     THEN LoadMore(fulfilled)
                ELSE Refresh
<1>1. Askable(r)
  BY DEF Askable
<1>2. Start(r)
  BY DEF Retry
<1> HIDE DEF r
<1> QED  BY <1>1, <1>2, StartKeeps DEF Retry

LEMMA LoadMoreRequestedKeeps == ASSUME BrowseInv, LoadMoreRequested PROVE BrowseInv'
<1>1. CASE inFlight = NoRequest /\ Start(LoadMore(fulfilled)) /\ UNCHANGED queuedLoadMore
  <2>1. revision # 0
    <3>1. revision = 0 => fulfilled.continuation = NoCursor
      BY DEF BrowseInv, WindowInv, Nothing
    <3> QED  BY <3>1 DEF LoadMoreRequested, CanLoadMore, HasMore
  <2>2. Askable(LoadMore(fulfilled))
    BY <2>1 DEF Askable, IsFulfilled, LoadMoreRequested, CanLoadMore, HasMore
  <2> QED  BY <1>1, <2>1, <2>2, StartKeeps DEF LoadMoreRequested
<1>2. CASE queuedLoadMore' = TRUE /\ UNCHANGED <<inFlight, requests>>
  <2>1. UNCHANGED <<table, clock, revision, query, fulfilled, initialFailure, kindErrors, failures>>
    BY DEF LoadMoreRequested
  <2>2. TableInv' /\ BrowseType'
    BY <1>2, <2>1 DEF BrowseInv, TableInv, BrowseType, Trouble
  <2>3. WindowInv'
    BY <1>2, <2>1 DEF BrowseInv, WindowInv, Desired, Askable, IsFulfilled, CanLoadMore, HasMore,
                      Refresh, RefreshLimit, LoadMore
  <2>4. PageInv' /\ AskedInv'
    BY <1>2, <2>1 DEF BrowseInv, PageInv, AskedInv, IsFulfilled
  <2>5. ShownInv'
    BY <1>2, <2>1 DEF BrowseInv, ShownInv, Desired, IsFulfilled
  <2> QED  BY <2>2, <2>3, <2>4, <2>5 DEF BrowseInv
<1> QED  BY <1>1, <1>2 DEF LoadMoreRequested

LEMMA ReadKeeps == ASSUME BrowseInv, Read PROVE BrowseInv'
<1>1. PICK m \in requests :
        /\ ~m.read
        /\ requests' = (requests \ {m}) \cup
              {[m EXCEPT !.read = TRUE, !.readAt = clock,
                         !.page = Browse(m.req.query, m.req.limit, m.req.cursor)]}
        /\ UNCHANGED <<table, clock, stateVars, failures>>
  BY DEF Read
<1> DEFINE page == Browse(m.req.query, m.req.limit, m.req.cursor)
           n == [m EXCEPT !.read = TRUE, !.readAt = clock, !.page = page]
<1>2. /\ TableInv /\ clock \in Nat /\ m \in SentType /\ m.req.limit # 0
      /\ m.req.query \in Query /\ m.req.limit \in Nat /\ m.req.cursor \in CursorType
  BY DEF BrowseInv, TableInv, BrowseType, WindowInv, SentType, RequestType
<1>3. /\ page \in PageType /\ Len(page.records) <= m.req.limit
      /\ Distinct(page.records) /\ AllMatch(page.records, m.req.query)
      /\ NoneLater(page.records, clock)
      /\ page.continuation # NoCursor =>
            /\ page.records # <<>>
            /\ page.continuation = Cursor(m.req.query, page.records[Len(page.records)])
      /\ Holds(table, page.records, m.req.query, clock, m.req.cursor, page.continuation)
  BY <1>2, BrowseAnswers
<1> HIDE DEF page
<1>4. n \in SentType /\ n.req = m.req /\ n.read = TRUE /\ n.readAt = clock /\ n.page = page
  BY <1>2, <1>3 DEF SentType
<1>5. requests' = (requests \ {m}) \cup {n} /\ UNCHANGED <<table, clock, stateVars, failures>>
  BY <1>1 DEF page
<1> HIDE DEF n
<1>6. TableInv' /\ AskedInv'
  BY <1>5 DEF BrowseInv, TableInv, AskedInv, IsFulfilled, stateVars
<1>7. BrowseType'
  BY <1>4, <1>5 DEF BrowseInv, BrowseType, Trouble, stateVars
<1>8. WindowInv'
  <2>1. \A r : Askable(r)' <=> Askable(r)
    BY <1>5 DEF Askable, IsFulfilled, CanLoadMore, HasMore, Refresh, RefreshLimit,
                    LoadMore, stateVars
  <2>2. UNCHANGED <<revision, inFlight, fulfilled>>
    BY <1>5 DEF stateVars
  <2> QED  BY <1>4, <1>5, <2>1, <2>2 DEF BrowseInv, WindowInv, Desired
<1>9. PageGood(n, table) /\ n.readAt <= clock
  BY <1>2, <1>3, <1>4 DEF PageGood
<1>10. PageInv'
  BY <1>5, <1>9 DEF BrowseInv, PageInv
<1>11. ShownInv'
  BY <1>2, <1>4, <1>5 DEF BrowseInv, ShownInv, Desired, IsFulfilled, stateVars
<1> QED  BY <1>6, <1>7, <1>8, <1>10, <1>11 DEF BrowseInv

-----------------------------------------------------------------------------
(* The answer to the question asked last, and what it puts on screen.      *)
Base == IF IsFulfilled THEN fulfilled.records ELSE <<>>
Shown(m) ==
    WithinCap(
        CASE m.req.kind = "refresh" ->
               ReconcileRefreshedWindow(Base, m.page.records, m.page.continuation # NoCursor)
          [] m.req.kind = "load-more" -> DedupeById(Base, m.page.records)
          [] OTHER -> m.page.records)
Answered(m) ==
    /\ fulfilled' =
          [revision |-> revision, records |-> Shown(m), total |-> m.page.total,
           continuation |-> m.page.continuation,
           asked |-> (IF IsFulfilled /\ m.req.kind = "load-more" THEN fulfilled.asked ELSE {})
                        \cup {m.req.query},
           readAt |-> IF m.req.kind = "load-more" THEN fulfilled.readAt ELSE m.readAt]
    /\ initialFailure' = IF m.req.kind = "initial" THEN 0 ELSE initialFailure
    /\ kindErrors' = kindErrors \ {m.req.kind}
    /\ Drain(fulfilled', requests \ {m})

LEMMA ResponseCases ==
    ASSUME Response
    PROVE  /\ UNCHANGED <<table, clock, revision, query, failures>>
           /\ \E m \in requests :
                 /\ m.read
                 /\ \/ Desired(m.req) /\ Answered(m)
                    \/ /\ ~Desired(m.req) /\ requests' = requests \ {m}
                       /\ UNCHANGED <<fulfilled, initialFailure, kindErrors, inFlight,
                                      queuedLoadMore>>
BY DEF Response, Answered, Shown, Base, Continuation

LEMMA UptoAll ==
    ASSUME NEW s \in Seq(RowType), NEW n \in Nat, Len(s) <= n
    PROVE  Upto(s, n) = s
<1>1. SubSeq(s, 1, Len(s)) = s
  OBVIOUS
<1>2. (IF n < Len(s) THEN n ELSE Len(s)) = Len(s)
  OBVIOUS
<1> QED  BY <1>1, <1>2 DEF Upto

(* The answer that is taken: what it was asked for, and what it has.       *)
LEMMA AnswerFits ==
    ASSUME BrowseInv, NEW m \in requests, m.read, Desired(m.req)
    PROVE  /\ Askable(m.req) /\ m.req \in RequestType /\ m.req.query = query /\ revision # 0
           /\ m.page \in PageType /\ m.readAt \in Nat /\ m.readAt <= clock
           /\ Len(m.page.records) <= m.req.limit /\ m.req.limit <= ResidentCap
           /\ PageGood(m, table)
           /\ fulfilled.readAt <= m.readAt /\ NoneLater(fulfilled.records, m.readAt)
<1>1. m \in SentType /\ Askable(m.req) /\ StateTyped
  BY DEF BrowseInv, BrowseType, WindowInv, StateTyped
<1>2. m.req.limit <= ResidentCap
  BY <1>1, AskableTyped DEF AskableAsked, Asked
<1>3. m.req.query = query
  BY <1>1 DEF Askable, Initial, Refresh, LoadMore, Request
<1>4. revision # 0
  BY DEF BrowseInv, WindowInv
<1>5. m.readAt <= clock /\ PageGood(m, table)
  BY DEF BrowseInv, PageInv
<1>6. fulfilled.readAt <= m.readAt /\ NoneLater(fulfilled.records, m.readAt)
  BY DEF BrowseInv, ShownInv
<1>7. m.req \in RequestType /\ m.page \in PageType /\ m.readAt \in Nat
  BY <1>1 DEF SentType
<1> QED  BY <1>1, <1>2, <1>3, <1>4, <1>5, <1>6, <1>7 DEF PageGood

(* The rows it puts on screen: its own and some of those that were there.  *)
RowsGood(m, u) ==
    /\ u \in Seq(RowType) /\ Len(u) <= ResidentCap
    /\ Distinct(u) /\ AllMatch(u, query) /\ NoneLater(u, m.readAt)
    /\ Ids(m.page.records) \subseteq Ids(u)
    /\ m.req.kind = "load-more" => Ids(fulfilled.records) \subseteq Ids(u)
    /\ IsFulfilled /\ Len(u) < ResidentCap =>
          \A i \in DOMAIN fulfilled.records :
              fulfilled.records[i] \in table => fulfilled.records[i].id \in Ids(u)

LEMMA PageShown ==
    ASSUME BrowseInv, NEW m \in requests, m.read, Desired(m.req), m.req.kind # "load-more",
           IsFulfilled => m.req.cursor = NoCursor /\ m.page.continuation = NoCursor
    PROVE  RowsGood(m, Upto(m.page.records, ResidentCap))
<1>1. /\ m.page.records \in Seq(RowType) /\ Len(m.page.records) <= ResidentCap
      /\ m.req.query = query /\ PageGood(m, table) /\ NoneLater(fulfilled.records, m.readAt)
  <2>1. /\ m.page \in PageType /\ Len(m.page.records) <= m.req.limit /\ m.req.limit <= ResidentCap
        /\ m.req \in RequestType
    BY AnswerFits
  <2>2. m.page.records \in Seq(RowType) /\ m.req.limit \in Nat
    BY <2>1 DEF PageType, RequestType
  <2>3. Len(m.page.records) \in Nat
    BY <2>2
  <2>4. Len(m.page.records) <= ResidentCap
    BY <2>1, <2>2, <2>3, BrowseAssumption
  <2> QED  BY <2>2, <2>4, AnswerFits
<1>2. Upto(m.page.records, ResidentCap) = m.page.records
  BY <1>1, UptoAll, BrowseAssumption
<1>3. ASSUME IsFulfilled, NEW i \in DOMAIN fulfilled.records, fulfilled.records[i] \in table
      PROVE  fulfilled.records[i].id \in Ids(m.page.records)
  <2>1. Matches(fulfilled.records[i], query) /\ fulfilled.records[i].at <= m.readAt
    BY <1>1, <1>3 DEF BrowseInv, ShownInv, AllMatch, NoneLater
  <2> QED  BY <1>1, <1>3, <2>1 DEF PageGood, Holds
<1> QED  BY <1>1, <1>2, <1>3 DEF RowsGood, PageGood

LEMMA RefreshShown ==
    ASSUME BrowseInv, NEW m \in requests, m.read, Desired(m.req), IsFulfilled,
           m.req.kind = "refresh", m.req.cursor = NoCursor, m.page.continuation # NoCursor
    PROVE  RowsGood(m, WithinCap(ReconcileRefreshedWindow(fulfilled.records, m.page.records, TRUE)))
<1> DEFINE s == m.page.records
           t == fulfilled.records
           I == {i \in DOMAIN t : t[i].id \notin Ids(s) /\ Before(s[Len(s)], t[i])}
           u == Upto(s \o KeptAt(t, I), ResidentCap)
<1>1. /\ m.page \in PageType /\ Len(s) <= m.req.limit /\ m.req.limit <= ResidentCap
      /\ m.req \in RequestType /\ m.req.query = query /\ PageGood(m, table)
      /\ NoneLater(t, m.readAt)
  BY AnswerFits
<1>2. s \in Seq(RowType) /\ t \in Seq(RowType) /\ m.req.limit \in Nat
  BY <1>1 DEF PageType, RequestType, BrowseInv, BrowseType, FulfilledType
<1>3. Len(s) <= ResidentCap
  <2>1. Len(s) \in Nat
    BY <1>2
  <2> QED  BY <1>1, <1>2, <2>1, BrowseAssumption
<1>4. /\ Distinct(s) /\ Distinct(t) /\ AllMatch(s, query)
      /\ AllMatch(t, query) /\ NoneLater(s, m.readAt)
  BY <1>1 DEF PageGood, BrowseInv, ShownInv
<1>5. NewAt(I, s, t)
  BY DEF NewAt
<1>6. /\ u \in Seq(RowType) /\ Len(u) <= ResidentCap /\ Distinct(u)
      /\ \A k \in DOMAIN u : (\E i \in DOMAIN s : u[k] = s[i]) \/ (\E i \in I : u[k] = t[i])
      /\ Ids(s) \subseteq Ids(u)
      /\ Len(u) < ResidentCap => \A i \in I : t[i].id \in Ids(u)
  <2> HIDE DEF s, t, I
  <2>1. Joins(u, s, t, I, ResidentCap)
    BY <1>2, <1>3, <1>4, <1>5, JoinedRows, BrowseAssumption
  <2> QED  BY <2>1 DEF Joins
<1>7. AllMatch(u, query) /\ NoneLater(u, m.readAt)
  <2> HIDE DEF s, t, u
  <2> QED  BY <1>1, <1>4, <1>5, <1>6 DEF AllMatch, NoneLater
<1>8. ASSUME NEW i \in DOMAIN t, t[i] \in table, t[i].id \notin Ids(s) PROVE i \in I
  <2>1. Matches(t[i], query) /\ t[i].at <= m.readAt
    BY <1>1, <1>4 DEF AllMatch, NoneLater
  <2>2. Before(m.page.continuation, t[i])
    BY <1>1, <1>8, <2>1 DEF PageGood, Holds
  <2>3. m.page.continuation = Cursor(query, s[Len(s)])
    BY <1>1 DEF PageGood
  <2> QED  BY <1>8, <2>2, <2>3 DEF Before, Cursor
<1>9. WithinCap(ReconcileRefreshedWindow(t, s, TRUE)) = u
  BY DEF WithinCap, ReconcileRefreshedWindow
<1> HIDE DEF u
<1> QED  BY <1>6, <1>7, <1>8, <1>9 DEF RowsGood

LEMMA MoreShown ==
    ASSUME BrowseInv, NEW m \in requests, m.read, Desired(m.req), IsFulfilled,
           CanLoadMore(fulfilled), m.req = LoadMore(fulfilled)
    PROVE  RowsGood(m, WithinCap(DedupeById(fulfilled.records, m.page.records)))
<1> DEFINE s == fulfilled.records
           t == m.page.records
           I == {i \in DOMAIN t : t[i].id \notin Ids(s)}
           u == Upto(s \o KeptAt(t, I), ResidentCap)
<1>1. /\ m.page \in PageType /\ Len(t) <= m.req.limit /\ m.req.query = query
      /\ PageGood(m, table) /\ NoneLater(s, m.readAt)
  BY AnswerFits
<1>2. s \in Seq(RowType) /\ t \in Seq(RowType)
  BY <1>1 DEF PageType, BrowseInv, BrowseType, FulfilledType
<1>3. Len(s) \in Nat /\ Len(t) \in Nat
  BY <1>2
<1>4. Len(s) + Len(t) <= ResidentCap
  <2>1. m.req.limit = IF ResidentCap - Len(s) < PageSize THEN ResidentCap - Len(s) ELSE PageSize
    BY DEF LoadMore, Request
  <2> HIDE DEF s, t
  <2>2. m.req.limit <= ResidentCap - Len(s) /\ m.req.limit \in Int
    BY <1>3, <2>1, BrowseAssumption
  <2>3. Len(t) <= m.req.limit
    BY <1>1
  <2> QED  BY <1>3, <2>2, <2>3, BrowseAssumption
<1>5. /\ Distinct(s) /\ Distinct(t) /\ AllMatch(s, query)
      /\ AllMatch(t, query) /\ NoneLater(t, m.readAt)
  BY <1>1 DEF PageGood, BrowseInv, ShownInv
<1>6. NewAt(I, s, t)
  BY DEF NewAt
<1>7. /\ u \in Seq(RowType) /\ Len(u) <= ResidentCap /\ Distinct(u)
      /\ \A k \in DOMAIN u : (\E i \in DOMAIN s : u[k] = s[i]) \/ (\E i \in I : u[k] = t[i])
      /\ Ids(s) \subseteq Ids(u) /\ \A i \in I : t[i].id \in Ids(u)
  <2> HIDE DEF s, t, I
  <2>1. Len(s) <= ResidentCap
    BY <1>3, <1>4, BrowseAssumption
  <2>2. Joins(u, s, t, I, ResidentCap)
    BY <1>2, <1>5, <1>6, <2>1, JoinedRows, BrowseAssumption
  <2> QED  BY <1>4, <2>2 DEF Joins
<1>8. AllMatch(u, query) /\ NoneLater(u, m.readAt)
  <2> HIDE DEF s, t, u
  <2> QED  BY <1>1, <1>5, <1>6, <1>7 DEF AllMatch, NoneLater
<1>9. Ids(t) \subseteq Ids(u)
  <2> HIDE DEF u
  <2>1. \A i \in DOMAIN t : t[i].id \in Ids(u)
    BY <1>7
  <2> QED  BY <2>1 DEF Ids
<1>10. \A i \in DOMAIN s : s[i].id \in Ids(u)
  <2> HIDE DEF u, s
  <2>1. \A i \in DOMAIN s : s[i].id \in Ids(s)
    BY DEF Ids
  <2> QED  BY <2>1, <1>7
<1>11. WithinCap(DedupeById(s, t)) = u
  BY DEF WithinCap, DedupeById
<1> HIDE DEF u
<1> QED  BY <1>7, <1>8, <1>9, <1>10, <1>11 DEF RowsGood

LEMMA AnswerShown ==
    ASSUME BrowseInv, NEW m \in requests, m.read, Desired(m.req)
    PROVE  RowsGood(m, Shown(m))
<1>1. Askable(m.req)
  BY AnswerFits
<1>2. CASE ~IsFulfilled /\ m.req = Initial(revision, query)
  <2>1. m.req.kind = "initial"
    BY <1>2 DEF Initial, Request
  <2>2. Shown(m) = Upto(m.page.records, ResidentCap)
    BY <2>1 DEF Shown, WithinCap
  <2> QED  BY <1>2, <2>1, <2>2, PageShown
<1>3. CASE IsFulfilled /\ m.req = Refresh
  <2>1. m.req.kind = "refresh" /\ m.req.cursor = NoCursor
    BY <1>3 DEF Refresh, Request
  <2>2. CASE m.page.continuation = NoCursor
    <3>1. Shown(m) = Upto(m.page.records, ResidentCap)
      BY <2>1, <2>2 DEF Shown, WithinCap, ReconcileRefreshedWindow
    <3> QED  BY <2>1, <2>2, <3>1, PageShown
  <2>3. CASE m.page.continuation # NoCursor
    <3>1. Shown(m) = WithinCap(ReconcileRefreshedWindow(fulfilled.records, m.page.records, TRUE))
      BY <1>3, <2>1, <2>3 DEF Shown, Base
    <3> QED  BY <1>3, <2>1, <2>3, <3>1, RefreshShown
  <2> QED  BY <2>2, <2>3
<1>4. CASE IsFulfilled /\ CanLoadMore(fulfilled) /\ m.req = LoadMore(fulfilled)
  <2>1. m.req.kind = "load-more"
    BY <1>4 DEF LoadMore, Request
  <2>2. Shown(m) = WithinCap(DedupeById(fulfilled.records, m.page.records))
    BY <1>4, <2>1 DEF Shown, Base
  <2> QED  BY <1>4, <2>2, MoreShown
<1> QED  BY <1>1, <1>2, <1>3, <1>4 DEF Askable

(* A settled request: what Drain does is a relaunch of the others.         *)
LEMMA DrainRelaunches ==
    ASSUME NEW R, NEW f, Drain(f, R), fulfilled' = f, UNCHANGED <<revision, query>>, revision # 0
    PROVE  Relaunched(R) /\ queuedLoadMore' = FALSE
<1>1. CASE queuedLoadMore /\ CanLoadMore(f)
  <2>1. PICK r : r = LoadMore(f)
    OBVIOUS
  <2>2. IsFulfilled' /\ CanLoadMore(fulfilled)' /\ r = LoadMore(fulfilled)'
    BY <1>1, <2>1 DEF IsFulfilled, CanLoadMore, HasMore, LoadMore
  <2>3. Askable(r)'
    BY <2>2 DEF Askable
  <2>4. inFlight' = r /\ requests' = R \cup {Sent(r)}
    BY <1>1, <2>1 DEF Drain
  <2> QED  BY <2>3, <2>4 DEF Drain, Relaunched
<1>2. CASE ~(queuedLoadMore /\ CanLoadMore(f))
  BY <1>2 DEF Drain, Relaunched
<1> QED  BY <1>1, <1>2

(* The request that settles was the only one of its question.              *)
LEMMA OthersAreOld ==
    ASSUME BrowseInv, NEW m \in requests, Desired(m.req)
    PROVE  revision \in Nat \ {0} /\ \A n \in requests \ {m} : n.req.revision # revision
BY DEF BrowseInv, BrowseType, WindowInv, Desired

LEMMA FailureKeeps == ASSUME BrowseInv, Failure PROVE BrowseInv'
<1>1. PICK m \in requests :
        /\ Desired(m.req)
        /\ initialFailure' = IF m.req.kind = "initial" THEN revision ELSE initialFailure
        /\ kindErrors' = IF m.req.kind = "initial" THEN kindErrors ELSE kindErrors \cup {m.req.kind}
        /\ Drain(fulfilled, requests \ {m})
  BY DEF Failure
<1>2. UNCHANGED <<table, clock, revision, query, fulfilled>> /\ failures' = failures + 1
  BY DEF Failure
<1>3. revision \in Nat \ {0} /\ \A n \in requests \ {m} : n.req.revision # revision
  BY <1>1, OthersAreOld
<1>4. Relaunched(requests \ {m}) /\ queuedLoadMore' = FALSE
  BY <1>1, <1>2, <1>3, DrainRelaunches
<1>5. /\ query' \in Query /\ fulfilled' \in FulfilledType /\ fulfilled'.revision <= revision'
      /\ revision <= revision'
  BY <1>2 DEF BrowseInv, BrowseType, WindowInv
<1>6. /\ requests' \subseteq SentType /\ inFlight' \in RequestType /\ WindowInv' /\ PageInv'
      /\ \A n \in requests' : ~(n.read /\ Desired(n.req)')
  BY <1>2, <1>3, <1>4, <1>5, Relaunch
<1>7. ShownInv' /\ AskedInv'
  BY <1>2, <1>6, SameRowsShown DEF IsFulfilled
<1>8. BrowseType'
  <2>1. Trouble' <= MaxTrouble /\ failures' \in Nat
    BY <1>2, BrowseAssumption DEF Failure, Trouble, BrowseInv, TableInv, BrowseType
  <2>2. initialFailure' \in 0..revision'
    BY <1>1, <1>2, <1>3 DEF BrowseInv, BrowseType
  <2>3. Askable(m.req)
    BY <1>1 DEF BrowseInv, WindowInv
  <2>4. m.req.kind \in {"initial", "refresh", "load-more"}
    BY <2>3 DEF Askable, Initial, Refresh, LoadMore, Request
  <2>5. kindErrors' \subseteq {"refresh", "load-more"}
    BY <1>1, <2>4 DEF BrowseInv, BrowseType
  <2> QED  BY <1>2, <1>3, <1>4, <1>5, <1>6, <2>1, <2>2, <2>5 DEF BrowseType
<1>9. TableInv'
  BY <1>2 DEF BrowseInv, TableInv
<1> QED  BY <1>6, <1>7, <1>8, <1>9 DEF BrowseInv

(* An answer to a superseded question changes nothing on screen.           *)
LEMMA DiscardKeeps ==
    ASSUME BrowseInv, NEW m \in requests, ~Desired(m.req), requests' = requests \ {m},
           UNCHANGED <<table, clock, stateVars, failures>>
    PROVE  BrowseInv'
<1>1. TableInv' /\ BrowseType' /\ AskedInv'
  BY DEF BrowseInv, TableInv, BrowseType, AskedInv, IsFulfilled, Trouble, stateVars
<1>2. WindowInv'
  <2>1. \A r : Askable(r)' <=> Askable(r)
    BY DEF Askable, IsFulfilled, CanLoadMore, HasMore, Refresh, RefreshLimit,
                    LoadMore, stateVars
  <2>2. UNCHANGED <<revision, inFlight, fulfilled>>
    BY DEF stateVars
  <2> QED  BY <2>1, <2>2 DEF BrowseInv, WindowInv, Desired
<1>3. PageInv'
  BY DEF BrowseInv, PageInv
<1>4. ShownInv'
  BY DEF BrowseInv, ShownInv, Desired, IsFulfilled, stateVars
<1> QED  BY <1>1, <1>2, <1>3, <1>4 DEF BrowseInv

LEMMA AnsweredKeeps ==
    ASSUME BrowseInv, NEW m \in requests, m.read, Desired(m.req), Answered(m),
           UNCHANGED <<table, clock, revision, query, failures>>
    PROVE  BrowseInv'
<1> DEFINE u == Shown(m)
           q == m.req.query
           more == m.req.kind = "load-more"
           t == IF more THEN fulfilled.readAt ELSE m.readAt
           asked == (IF IsFulfilled /\ more THEN fulfilled.asked ELSE {}) \cup {q}
<1>1. /\ Askable(m.req) /\ m.req \in RequestType /\ q = query /\ revision # 0
      /\ m.page \in PageType /\ m.readAt \in Nat /\ m.readAt <= clock
      /\ PageGood(m, table) /\ fulfilled.readAt <= m.readAt
  BY AnswerFits
<1>2. RowsGood(m, u)
  BY AnswerShown
<1>3. /\ fulfilled'.revision = revision /\ fulfilled'.records = u /\ fulfilled'.total = m.page.total
      /\ fulfilled'.continuation = m.page.continuation /\ fulfilled'.asked = asked
      /\ fulfilled'.readAt = t
  BY DEF Answered
<1> HIDE DEF u
<1>4. IsFulfilled' /\ revision \in Nat \ {0} /\ \A n \in requests \ {m} : n.req.revision # revision
  BY <1>1, <1>3, OthersAreOld DEF IsFulfilled
<1>5. fulfilled.readAt \in Nat /\ t \in Nat /\ t <= m.readAt /\ t <= clock
  <2>1. fulfilled.readAt \in Nat /\ clock \in Nat
    BY DEF BrowseInv, BrowseType, TableInv, FulfilledType
  <2> QED  BY <1>1, <2>1
<1>6. more => IsFulfilled /\ m.req.cursor = fulfilled.continuation /\ m.req.cursor # NoCursor
  BY <1>1 DEF Askable, Initial, Refresh, LoadMore, Request, CanLoadMore, HasMore
<1>7. ~more => m.req.cursor = NoCursor
  BY <1>1 DEF Askable, Initial, Refresh, LoadMore, Request
<1>8. asked = {query}
  BY <1>1, <1>6 DEF BrowseInv, AskedInv
<1>9. fulfilled' \in FulfilledType
  <2>1. u \in Seq(RowType) /\ m.page.total \in Nat /\ m.page.continuation \in CursorType
    BY <1>1, <1>2 DEF RowsGood, PageType
  <2>2. asked \in SUBSET Query
    BY <1>8 DEF BrowseInv, BrowseType
  <2> HIDE DEF asked, t
  <2>3. fulfilled' = [revision |-> revision, records |-> u, total |-> m.page.total,
                      continuation |-> m.page.continuation, asked |-> asked, readAt |-> t]
    BY DEF Answered, u, asked, t
  <2> QED  BY <1>4, <1>5, <2>1, <2>2, <2>3 DEF FulfilledType
<1>10. Relaunched(requests \ {m}) /\ queuedLoadMore' = FALSE
  BY <1>1, DrainRelaunches DEF Answered
<1>11. query' \in Query /\ fulfilled'.revision <= revision' /\ revision <= revision'
  BY <1>3, <1>4 DEF BrowseInv, BrowseType
<1>12. /\ requests' \subseteq SentType /\ inFlight' \in RequestType /\ WindowInv' /\ PageInv'
       /\ \A n \in requests' : ~(n.read /\ Desired(n.req)')
  BY <1>4, <1>9, <1>10, <1>11, Relaunch
<1>13. Holds(table, u, query, t, NoCursor, m.page.continuation)
  <2>1. Holds(table, m.page.records, query, m.readAt, m.req.cursor, m.page.continuation)
    BY <1>1 DEF PageGood
  <2>2. Ids(m.page.records) \subseteq Ids(u)
    BY <1>2 DEF RowsGood
  <2>3. CASE more
    <3>1. Holds(table, fulfilled.records, query, t, NoCursor, m.req.cursor)
      BY <1>6, <2>3 DEF BrowseInv, ShownInv
    <3>2. Ids(fulfilled.records) \subseteq Ids(u) /\ table \in SUBSET RowType
      BY <1>2, <2>3 DEF RowsGood, BrowseInv, TableInv
    <3> HIDE DEF t
    <3> QED  BY <1>1, <1>5, <1>6, <2>1, <2>2, <2>3, <3>1, <3>2, HoldsOnward
  <2>4. CASE ~more
    BY <1>7, <2>1, <2>2, <2>4, HoldsWithMore
  <2> QED  BY <2>3, <2>4
<1>14. ShownInv'
  <2>1. NoneLater(u, clock)
    <3>1. NoneLater(u, m.readAt) /\ u \in Seq(RowType) /\ clock \in Nat
      BY <1>2 DEF RowsGood, BrowseInv, TableInv
    <3>2. \A i \in DOMAIN u : u[i] \in RowType
      BY <3>1
    <3>3. \A i \in DOMAIN u : u[i].at \in Nat
      BY <3>2 DEF RowType
    <3> QED  BY <1>1, <3>1, <3>3 DEF NoneLater
  <2>2. Distinct(u) /\ Len(u) <= ResidentCap /\ AllMatch(u, query)
    BY <1>2 DEF RowsGood
  <2> HIDE DEF t, asked
  <2> QED  BY <1>3, <1>5, <1>12, <1>13, <2>1, <2>2 DEF ShownInv, Desired
<1>15. AskedInv'
  BY <1>3, <1>8 DEF AskedInv, BrowseInv, BrowseType
<1>16. BrowseType'
  <2>1. 0 \in 0..revision /\ initialFailure \in 0..revision
    BY <1>4 DEF BrowseInv, BrowseType
  <2>2. initialFailure' \in 0..revision' /\ kindErrors' \subseteq {"refresh", "load-more"}
    BY <2>1 DEF Answered, BrowseInv, BrowseType
  <2>3. Trouble' <= MaxTrouble /\ failures' \in Nat
    BY DEF Trouble, BrowseInv, BrowseType
  <2> QED  BY <1>4, <1>9, <1>10, <1>11, <1>12, <2>2, <2>3 DEF BrowseType
<1>17. TableInv'
  BY DEF BrowseInv, TableInv
<1> QED  BY <1>12, <1>14, <1>15, <1>16, <1>17 DEF BrowseInv

LEMMA ResponseKeeps == ASSUME BrowseInv, Response PROVE BrowseInv'
<1>1. UNCHANGED <<table, clock, revision, query, failures>>
  BY ResponseCases
<1>2. PICK m \in requests :
        /\ m.read
        /\ \/ Desired(m.req) /\ Answered(m)
           \/ /\ ~Desired(m.req) /\ requests' = requests \ {m}
              /\ UNCHANGED <<fulfilled, initialFailure, kindErrors, inFlight, queuedLoadMore>>
  BY ResponseCases
<1>3. CASE Desired(m.req) /\ Answered(m)
  BY <1>1, <1>2, <1>3, AnsweredKeeps
<1>4. CASE /\ ~Desired(m.req) /\ requests' = requests \ {m}
           /\ UNCHANGED <<fulfilled, initialFailure, kindErrors, inFlight, queuedLoadMore>>
  BY <1>1, <1>4, DiscardKeeps DEF stateVars
<1> QED  BY <1>2, <1>3, <1>4

-----------------------------------------------------------------------------
(* The invariant, and what it says.                                        *)
LEMMA BrowseStep == BrowseInv /\ [Next]_vars => BrowseInv'
<1> SUFFICES ASSUME BrowseInv, [Next]_vars PROVE BrowseInv'
  OBVIOUS
<1>1. CASE Write  BY <1>1, WriteKeeps
<1>2. CASE QueryChanged  BY <1>2, QueryChangedKeeps
<1>3. CASE PollTick  BY <1>3, PollTickKeeps
<1>4. CASE Retry  BY <1>4, RetryKeeps
<1>5. CASE LoadMoreRequested  BY <1>5, LoadMoreRequestedKeeps
<1>6. CASE Read  BY <1>6, ReadKeeps
<1>7. CASE Response  BY <1>7, ResponseKeeps
<1>8. CASE Failure  BY <1>8, FailureKeeps
<1>9. CASE UNCHANGED vars
  <2>1. UNCHANGED <<table, clock, stateVars, requests, failures>>
    BY <1>9 DEF vars
  <2>2. TableInv' /\ BrowseType' /\ PageInv' /\ AskedInv'
    BY <2>1 DEF BrowseInv, TableInv, BrowseType, PageInv, AskedInv, IsFulfilled, Trouble, stateVars
  <2>3. \A r : Askable(r)' <=> Askable(r)
    BY <2>1 DEF Askable, IsFulfilled, CanLoadMore, HasMore, Refresh, RefreshLimit,
                    LoadMore, stateVars
  <2>4. WindowInv'
    BY <2>1, <2>3 DEF BrowseInv, WindowInv, Desired, stateVars
  <2>5. ShownInv'
    BY <2>1 DEF BrowseInv, ShownInv, Desired, IsFulfilled, stateVars
  <2> QED  BY <2>2, <2>4, <2>5 DEF BrowseInv
<1> QED  BY <1>1, <1>2, <1>3, <1>4, <1>5, <1>6, <1>7, <1>8, <1>9 DEF Next

LEMMA BrowseAlways == Spec => []BrowseInv
BY BrowseStarts, BrowseStep, PTL DEF Spec

(* Types: the machine's fields stay in their ranges (browse-machine.ts:    *)
(* 66-114).                                                                *)
THEOREM BrowseTyped == Spec => []TypeOK
<1>1. BrowseInv => TypeOK
  <2> SUFFICES ASSUME BrowseInv PROVE TypeOK
    OBVIOUS
  <2>1. /\ clock \in Nat /\ failures \in Nat /\ revision \in Nat /\ MaxTrouble \in Nat
        /\ clock + failures + revision <= MaxTrouble
    BY BrowseAssumption DEF BrowseInv, TableInv, BrowseType, Trouble
  <2>2. clock <= MaxTrouble /\ revision \in 0..MaxTrouble
    BY <2>1
  <2>3. table \subseteq [id : Row, at : 0..MaxTrouble, active : BOOLEAN]
    <3> SUFFICES ASSUME NEW r \in table
                 PROVE  r \in [id : Row, at : 0..MaxTrouble, active : BOOLEAN]
      OBVIOUS
    <3>1. r \in RowType /\ r.at <= clock
      BY DEF BrowseInv, TableInv
    <3>2. r.at \in 0..MaxTrouble
      BY <2>1, <2>2, <3>1 DEF RowType
    <3> QED  BY <3>1, <3>2 DEF RowType
  <2>4. fulfilled.revision \in 0..revision /\ inFlight.kind \in Kind
    BY <2>1 DEF BrowseInv, BrowseType, WindowInv, FulfilledType, RequestType
  <2> QED  BY <2>2, <2>3, <2>4 DEF TypeOK, Kind, BrowseInv, BrowseType
<1> QED  BY <1>1, BrowseAlways, PTL

(* Rows, total and continuation on screen answer one question, the one     *)
(* asked last if its answer has come (browse-machine.ts:45-49).            *)
THEOREM OneQuestionAnswered == Spec => []AnswersOneQuestion
<1>1. BrowseInv => AnswersOneQuestion
  <2> SUFFICES ASSUME BrowseInv PROVE Cardinality(fulfilled.asked) <= 1
    BY DEF AnswersOneQuestion, BrowseInv, AskedInv
  <2>1. PICK q \in Query : fulfilled.asked \subseteq {q}
    BY DEF BrowseInv, AskedInv
  <2>2. fulfilled.asked = {} \/ fulfilled.asked = {q}
    BY <2>1
  <2>3. Cardinality(fulfilled.asked) = 0 \/ Cardinality(fulfilled.asked) = 1
    BY <2>2, FS_EmptySet, FS_Singleton
  <2> QED  BY <2>3
<1> QED  BY <1>1, BrowseAlways, PTL

(* No row is on screen twice, and none is silently left out: a matching    *)
(* row as old as the last head window, before the point the walk goes on   *)
(* from, is resident, whatever was written, hoisted, superseded or         *)
(* answered late meanwhile (browse-machine.ts:20-28).                      *)
THEOREM NoneSkippedOrDoubled == Spec => []NothingIsSkippedOrDoubled
<1>1. BrowseInv => NothingIsSkippedOrDoubled
  <2> SUFFICES ASSUME BrowseInv PROVE NothingIsSkippedOrDoubled
    OBVIOUS
  <2>1. IsInjective([i \in DOMAIN fulfilled.records |-> fulfilled.records[i].id])
    BY DEF BrowseInv, ShownInv, Distinct, IsInjective
  <2>2. IsFulfilled => Holds(table, fulfilled.records, query, fulfilled.readAt, NoCursor,
                             fulfilled.continuation)
    BY DEF BrowseInv, ShownInv
  <2> QED  BY <2>1, <2>2 DEF NothingIsSkippedOrDoubled, Holds
<1> QED  BY <1>1, BrowseAlways, PTL

(* The action of NothingIsEvicted.                                         *)
NotEvicted ==
    \A i \in DOMAIN fulfilled.records :
        /\ IsFulfilled /\ fulfilled'.revision = fulfilled.revision
        /\ fulfilled.records[i] \in table
        /\ Len(fulfilled'.records) < ResidentCap
        => fulfilled.records[i].id \in Ids(fulfilled'.records)

LEMMA SameRowsNotEvicted == ASSUME UNCHANGED fulfilled PROVE NotEvicted
BY DEF NotEvicted, Ids

(* A resident row that the store has as it is shown is not evicted by an   *)
(* answer to the same question, short of the cap (browse-reconcile.ts:56). *)
THEOREM NoneEvicted == Spec => NothingIsEvicted
<1>1. BrowseInv /\ [Next]_vars => [NotEvicted]_vars
  <2> SUFFICES ASSUME BrowseInv, [Next]_vars PROVE NotEvicted
    OBVIOUS
  <2>1. CASE UNCHANGED fulfilled
    BY <2>1, SameRowsNotEvicted
  <2>2. CASE Response /\ fulfilled' # fulfilled
    <3>1. PICK m \in requests : m.read /\ Desired(m.req) /\ Answered(m)
      BY <2>2, ResponseCases
    <3>2. RowsGood(m, Shown(m))
      BY <3>1, AnswerShown
    <3>3. fulfilled'.records = Shown(m)
      BY <3>1 DEF Answered
    <3> QED  BY <3>2, <3>3 DEF NotEvicted, RowsGood
  <2> QED
    BY <2>1, <2>2 DEF Next, Write, QueryChanged, PollTick, Retry, LoadMoreRequested, Read, Failure,
                      vars, stateVars
<1>2. NothingIsEvicted <=> [][NotEvicted]_vars
  BY DEF NothingIsEvicted, NotEvicted
<1> QED  BY <1>1, <1>2, BrowseAlways, PTL DEF Spec
=============================================================================
