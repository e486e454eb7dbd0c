-------------------------- MODULE KeyedGate_proofs --------------------------
(***************************************************************************)
(* For any operations: an exclusive operation runs alone, a waiting one    *)
(* always waits for a running one, the map holds the busy gate, and the    *)
(* gate is a fair line.                                                    *)
(***************************************************************************)
EXTENDS KeyedGate, TLAPS, WellFoundedInduction, FiniteSetTheorems

(* Every non-empty set of naturals has a least element.                    *)
LEMMA LeastElement ==
    ASSUME NEW T, T \subseteq Nat, T # {}
    PROVE \E x \in T : \A y \in T : x <= y
<1> DEFINE R == {ss \in Nat \X Nat : ss[1] < ss[2]}
<1>1. IsWellFoundedOn(R, Nat)
  BY NatLessThanWellFounded DEF OpToRel
<1>2. PICK x \in T : \A y \in T : ~(<<y, x>> \in R)
  <2> HIDE DEF R
  <2> QED BY <1>1, WFMin
<1>3. \A y \in T : ~(y < x)
  <2> TAKE y \in T
  <2>1. y \in Nat /\ x \in Nat OBVIOUS
  <2>2. y < x => <<y, x>> \in R BY <2>1
  <2> QED BY <2>2, <1>2
<1> HIDE DEF R
<1> QED BY <1>3

(* The batch that drain starts exists: the loop over the shared prefix of  *)
(* the queue stops at its first exclusive entry, or at its end.            *)
LEMMA BatchExists ==
    ASSUME NEW q \in Seq(Op)
    PROVE Batch(q) \in 0..Len(q) /\ IsBatch(q, Batch(q))
<1> DEFINE T == {n \in 0..Len(q) : n = Len(q) \/ q[n + 1] \in Exclusive}
<1>1. PICK x \in T : \A y \in T : x <= y
  <2>1. Len(q) \in T OBVIOUS
  <2>2. T \subseteq Nat OBVIOUS
  <2> HIDE DEF T
  <2> QED BY <2>1, <2>2, LeastElement
<1>2. \A i \in 1..x : q[i] \in Shared
  <2> TAKE i \in 1..x
  <2>1. i - 1 \in 0..Len(q) /\ ~(x <= i - 1) BY <1>1
  <2>2. i - 1 \notin T BY <1>1, <2>1
  <2>3. i \in 1..Len(q) /\ q[i] \in Op BY <1>1
  <2> QED BY <2>1, <2>2, <2>3 DEF Op
<1>3. \E n \in 0..Len(q) : IsBatch(q, n)
  <2>1. CASE x > 0 BY <2>1, <1>1, <1>2 DEF IsBatch
  <2>2. CASE x = 0 /\ q = <<>> BY <2>2, <1>1, <1>2 DEF IsBatch
  <2>3. CASE x = 0 /\ q # <<>>
    <3>1. 1 \in 0..Len(q) /\ q[1] \in Exclusive BY <2>3, <1>1
    <3> QED BY <3>1 DEF IsBatch
  <2> QED BY <2>1, <2>2, <2>3, <1>1
<1> QED BY <1>3 DEF Batch

Distinct(q) == \A i, j \in 1..Len(q) : q[i] = q[j] => i = j
Apart(a, q) == \A i \in 1..Len(q) : q[i] \notin a
Alone(a) == \A e \in a \cap Exclusive : a = {e}

(* What drain makes of a set of running operations and a queue: it starts  *)
(* a prefix of the queue, it starts one when nothing runs, and never an    *)
(* exclusive one beside another.                                           *)
LEMMA DrainStartsAPrefix ==
    ASSUME NEW q \in Seq(Op), NEW R \in SUBSET Op, Distinct(q), Apart(R, q), Alone(R),
           NEW n, n = Starts(R, q)
    PROVE /\ n \in 0..Len(q)
          /\ Rest(q, n) \in Seq(Op)
          /\ Len(Rest(q, n)) = Len(q) - n
          /\ \A i \in 1..Len(Rest(q, n)) : i + n \in 1..Len(q) /\ Rest(q, n)[i] = q[i + n]
          /\ Members(q, n) \subseteq Op
          /\ Distinct(Rest(q, n))
          /\ Apart(R \cup Members(q, n), Rest(q, n))
          /\ Alone(R \cup Members(q, n))
          /\ R \cup Members(q, n) = {} => q = <<>>
<1>1. n \in 0..Len(q) /\ (R # {} => n = 0) /\ (R = {} => IsBatch(q, n))
  BY BatchExists DEF Starts
<1>2. Rest(q, n) \in Seq(Op) /\ Len(Rest(q, n)) = Len(q) - n
  BY <1>1 DEF Rest
<1>3. \A i \in 1..Len(Rest(q, n)) : i + n \in 1..Len(q) /\ Rest(q, n)[i] = q[i + n]
  BY <1>1 DEF Rest
<1>4. Members(q, n) \subseteq Op BY <1>1 DEF Members
<1>5. Distinct(Rest(q, n)) BY <1>1, <1>2, <1>3 DEF Distinct
<1>6. Apart(R \cup Members(q, n), Rest(q, n))
  <2> SUFFICES ASSUME NEW i \in 1..Len(Rest(q, n))
               PROVE q[i + n] \notin R \cup Members(q, n)
    BY <1>3 DEF Apart
  <2>1. i \in Nat \ {0} /\ i + n \in 1..Len(q) BY <1>1, <1>2, <1>3
  <2>2. q[i + n] \notin R BY <2>1 DEF Apart
  <2>3. ASSUME NEW j \in 1..n, q[j] = q[i + n] PROVE FALSE
    <3>1. j \in 1..Len(q) /\ j # i + n BY <1>1, <2>1
    <3> QED BY <2>1, <2>3, <3>1 DEF Distinct
  <2> QED BY <2>2, <2>3 DEF Members
<1>7. Alone(R \cup Members(q, n))
  <2>1. CASE n = 0 BY <2>1 DEF Members, Alone
  <2>2. CASE n = 1 /\ q[1] \in Exclusive
    BY <2>2, <1>1 DEF Members, Alone
  <2>3. CASE n > 0 /\ ~(n = 1 /\ q[1] \in Exclusive)
    <3>1. R = {} /\ \A i \in 1..n : q[i] \in Shared BY <2>3, <1>1 DEF IsBatch
    <3> QED BY <3>1, GateAssumption DEF Members, Alone
  <2> QED BY <2>1, <2>2, <2>3, <1>1
<1>8. R \cup Members(q, n) = {} => q = <<>>
  <2> SUFFICES ASSUME R = {}, q # <<>> PROVE q[1] \in Members(q, n) OBVIOUS
  <2>1. n > 0 BY <1>1 DEF IsBatch
  <2> QED BY <2>1, <1>1 DEF Members
<1> QED BY <1>1, <1>2, <1>3, <1>4, <1>5, <1>6, <1>7, <1>8

-----------------------------------------------------------------------------
(* The inductive invariant: queues hold distinct operations, only the gate *)
(* in the map is in use and it runs something, and exclusive operations    *)
(* run alone on their gate.                                                *)
IInv ==
    /\ TypeOK
    /\ \A g \in Gate : Distinct(queue[g]) /\ Alone(active[g])
    /\ \A g \in Gate : g # state => active[g] = {} /\ queue[g] = <<>>
    /\ \A g \in Gate : g = state => active[g] # {}

LEMMA InitIInv == Init => IInv
BY GateAssumption DEF Init, IInv, TypeOK, Distinct, Alone

LEMMA SubmitIInv ==
    ASSUME IInv, NEW o \in Op, NEW g \in Gate, Submit(o, g)
    PROVE IInv'
<1>1. gateOf[o] = NoGate /\ g # NoGate
  BY GateAssumption DEF Submit
<1>2. o \notin active[g] /\ \A i \in 1..Len(queue[g]) : queue[g][i] # o
  BY <1>1 DEF IInv, TypeOK
<1>3. \A h \in Gate : h # g => active[h] = {} /\ queue[h] = <<>>
  BY GateAssumption DEF Submit, IInv
<1>4. state' = g /\ used' \subseteq Gate /\ g \in used' /\ used \subseteq used'
      /\ gateOf' \in [Op -> used' \cup {NoGate}] /\ order' \in Seq(Op)
  BY DEF Submit, IInv, TypeOK
<1>5. gateOf'[o] = g /\ \A p \in Op : p # o => gateOf'[p] = gateOf[p]
  BY DEF Submit, IInv, TypeOK
<1>6. CASE JoinsNow(g, o)
  <2>1. active' = [active EXCEPT ![g] = @ \cup {o}] /\ queue' = queue
    BY <1>6 DEF Submit
  <2> QED BY <2>1, <1>1, <1>2, <1>3, <1>4, <1>5, <1>6, GateAssumption
    DEF IInv, TypeOK, Distinct, Alone, JoinsNow
<1>7. CASE ~JoinsNow(g, o)
  <2> DEFINE R == active[g]
             q == Append(queue[g], o)
             n == Starts(R, q)
  <2>0. queue[g] \in Seq(Op) /\ R \in SUBSET Op /\ Alone(R) BY DEF IInv, TypeOK
  <2>1. q \in Seq(Op) /\ q # <<>> /\ Distinct(q) /\ Apart(R, q)
    <3>1. q \in Seq(Op) /\ Len(q) = Len(queue[g]) + 1 /\ q[Len(q)] = o
          /\ \A i \in 1..Len(queue[g]) : q[i] = queue[g][i]
      BY <2>0
    <3>2. Distinct(queue[g]) /\ Apart(R, queue[g]) BY DEF IInv, TypeOK, Apart
    <3>3. Distinct(q)
      BY <1>2, <2>0, <3>1, <3>2 DEF Distinct
    <3>4. Apart(R, q)
      BY <1>2, <2>0, <3>1, <3>2 DEF Apart
    <3> QED BY <3>1, <3>3, <3>4
  <2>2. \A i \in 1..Len(q) : gateOf'[q[i]] = g
    BY <1>2, <1>5, <2>0 DEF IInv, TypeOK
  <2>3. active' = [active EXCEPT ![g] = R \cup Members(q, n)]
        /\ queue' = [queue EXCEPT ![g] = Rest(q, n)]
    BY <1>7 DEF Submit, Drain
  <2>4. \A p \in R : gateOf'[p] = g
    BY <1>2, <1>5, <2>0 DEF IInv, TypeOK
  <2> HIDE DEF R, q
  <2>5. /\ n \in 0..Len(q)
        /\ Rest(q, n) \in Seq(Op)
        /\ \A i \in 1..Len(Rest(q, n)) : i + n \in 1..Len(q) /\ Rest(q, n)[i] = q[i + n]
        /\ Members(q, n) \subseteq Op
        /\ Distinct(Rest(q, n))
        /\ Apart(R \cup Members(q, n), Rest(q, n))
        /\ Alone(R \cup Members(q, n))
        /\ R \cup Members(q, n) = {} => q = <<>>
    BY <2>0, <2>1, DrainStartsAPrefix
  <2> HIDE DEF n
  <2>6. \A p \in Members(q, n) : gateOf'[p] = g
    BY <2>1, <2>2, <2>5 DEF Members
  <2>7. active' \in [Gate -> SUBSET Op] /\ queue' \in [Gate -> Seq(Op)]
        /\ active'[g] = R \cup Members(q, n) /\ queue'[g] = Rest(q, n)
        /\ \A h \in Gate : h # g => active'[h] = {} /\ queue'[h] = <<>>
    BY <1>3, <2>0, <2>3, <2>5 DEF IInv, TypeOK
  <2>8. TypeOK'
    BY <1>4, <2>2, <2>4, <2>5, <2>6, <2>7 DEF TypeOK, Apart
  <2>9. \A h \in Gate : Distinct(queue'[h]) /\ Alone(active'[h])
    <3>1. Distinct(<<>>) /\ Alone({}) BY DEF Distinct, Alone
    <3> QED BY <3>1, <2>5, <2>7
  <2> QED BY <1>4, <2>1, <2>5, <2>7, <2>8, <2>9 DEF IInv
<1> QED BY <1>6, <1>7

LEMMA SettleIInv ==
    ASSUME IInv, NEW o \in Op, NEW g \in Gate, Settle(o, g)
    PROVE IInv'
<1> DEFINE R == active[g] \ {o}
           q == queue[g]
           n == Starts(R, q)
<1>1. q \in Seq(Op) /\ R \in SUBSET Op /\ Distinct(q) /\ Apart(R, q) /\ Alone(R)
  BY DEF Settle, IInv, TypeOK, Apart, Alone
<1>2. state = g /\ \A i \in 1..Len(q) : gateOf[q[i]] = g
  BY DEF Settle, IInv, TypeOK
<1>3. active' = [active EXCEPT ![g] = R \cup Members(q, n)]
      /\ queue' = [queue EXCEPT ![g] = Rest(q, n)]
      /\ state' = (IF R = {} /\ q = <<>> THEN NoGate ELSE g)
      /\ UNCHANGED <<used, gateOf, order>>
  BY <1>2 DEF Settle, Drain, MapAfter
<1>4. \A p \in R : gateOf[p] = g BY DEF IInv, TypeOK
<1>5. \A h \in Gate : h # g => active[h] = {} /\ queue[h] = <<>>
  BY <1>2 DEF IInv
<1> HIDE DEF R, q
<1>6. /\ n \in 0..Len(q)
      /\ Rest(q, n) \in Seq(Op)
      /\ Len(Rest(q, n)) = Len(q) - n
      /\ \A i \in 1..Len(Rest(q, n)) : i + n \in 1..Len(q) /\ Rest(q, n)[i] = q[i + n]
      /\ Members(q, n) \subseteq Op
      /\ Distinct(Rest(q, n))
      /\ Apart(R \cup Members(q, n), Rest(q, n))
      /\ Alone(R \cup Members(q, n))
      /\ R \cup Members(q, n) = {} => q = <<>>
  BY <1>1, DrainStartsAPrefix
<1> HIDE DEF n
<1>7. \A p \in Members(q, n) : gateOf[p] = g BY <1>2, <1>6 DEF Members
<1>8. R = {} /\ q = <<>> => R \cup Members(q, n) = {} /\ Rest(q, n) = <<>>
  BY <1>1, <1>6 DEF Members
<1>9. active' \in [Gate -> SUBSET Op] /\ queue' \in [Gate -> Seq(Op)]
      /\ active'[g] = R \cup Members(q, n) /\ queue'[g] = Rest(q, n)
      /\ \A h \in Gate : h # g => active'[h] = {} /\ queue'[h] = <<>>
  BY <1>1, <1>3, <1>5, <1>6 DEF IInv, TypeOK
<1>10. state' \in used' \cup {NoGate} /\ used' \subseteq Gate
       /\ gateOf' \in [Op -> used' \cup {NoGate}] /\ order' \in Seq(Op)
  BY <1>2, <1>3 DEF IInv, TypeOK
<1>11. TypeOK'
  BY <1>2, <1>3, <1>4, <1>6, <1>7, <1>9, <1>10 DEF TypeOK, Apart
<1> QED BY <1>3, <1>6, <1>8, <1>9, <1>11, GateAssumption DEF IInv, Distinct, Alone

(* Every state of the gate satisfies the inductive invariant.              *)
THEOREM GateInvariant == Spec => []IInv
<1>1. IInv /\ [Next]_vars => IInv'
  <2> SUFFICES ASSUME IInv, [Next]_vars PROVE IInv' OBVIOUS
  <2>1. CASE UNCHANGED vars
    BY <2>1 DEF IInv, TypeOK, vars
  <2>2. ASSUME NEW o \in Op, NEW g \in Gate, Submit(o, g) PROVE IInv'
    BY <2>2, SubmitIInv
  <2>3. ASSUME NEW o \in Op, NEW g \in Gate, Settle(o, g) PROVE IInv'
    BY <2>3, SettleIInv
  <2> QED BY <2>1, <2>2, <2>3 DEF Next
<1> QED BY <1>1, InitIInv, PTL DEF Spec

(* The gate's state keeps its type (createThreadLifecycleCoordinator).     *)
THEOREM GateTyped == Spec => []TypeOK
<1>1. IInv => TypeOK BY DEF IInv
<1> QED BY <1>1, GateInvariant, PTL

(* Mutual exclusion: an exclusive lifecycle operation runs alone, across   *)
(* all the gate objects a thread ever has.                                 *)
THEOREM LifecycleRunsAlone == Spec => []ExclusiveRunsAlone
<1>1. IInv => ExclusiveRunsAlone
  <2> SUFFICES ASSUME IInv, NEW e \in Exclusive, NEW o \in Op,
                      Running(e), Running(o)
               PROVE o = e
    BY DEF ExclusiveRunsAlone
  <2>1. PICK g \in Gate : e \in active[g] BY DEF Running
  <2>2. PICK h \in Gate : o \in active[h] BY DEF Running
  <2>3. g = state /\ h = state BY <2>1, <2>2 DEF IInv
  <2> QED BY <2>1, <2>2, <2>3 DEF IInv, Alone
<1> QED BY <1>1, GateInvariant, PTL

(* A queued operation waits for a running one, never for nobody.           *)
THEOREM QueuesAreServed == Spec => []NobodyWaitsForNobody
<1>1. IInv => NobodyWaitsForNobody BY DEF IInv, NobodyWaitsForNobody
<1> QED BY <1>1, GateInvariant, PTL

(* Idle gates leave the map, busy ones stay.                               *)
THEOREM IdleGatesAreForgotten == Spec => []MapHoldsTheBusyGate
<1>1. IInv => MapHoldsTheBusyGate BY DEF IInv, MapHoldsTheBusyGate
<1> QED BY <1>1, GateInvariant, PTL

-----------------------------------------------------------------------------
(* No overtaking. What waits is the end of the order of submission, so an  *)
(* operation has started exactly when its place in the order is before the *)
(* queue's; and there nothing conflicts with a running operation that was  *)
(* submitted earlier.                                                      *)
IsTail(q, s) ==
    Len(q) <= Len(s) /\ \A k \in 1..Len(q) : q[k] = s[Len(s) - Len(q) + k]
InOrder(s, m, a) ==
    \A i, j \in 1..m : i < j /\ Conflict(s[i], s[j]) => s[i] \notin a

OrderInv ==
    /\ Distinct(order)
    /\ \A i \in 1..Len(order) : gateOf[order[i]] # NoGate
    /\ \A g \in Gate : /\ IsTail(queue[g], order)
                      /\ InOrder(order, Len(order) - Len(queue[g]), active[g])

(* drain starts a prefix of the queue, whose members do not conflict.      *)
LEMMA DrainKeepsOrder ==
    ASSUME NEW s \in Seq(Op), Distinct(s), NEW q \in Seq(Op), IsTail(q, s),
           NEW R \in SUBSET Op, InOrder(s, Len(s) - Len(q), R),
           NEW n, n = Starts(R, q)
    PROVE  /\ IsTail(Rest(q, n), s)
           /\ InOrder(s, Len(s) - Len(Rest(q, n)), R \cup Members(q, n))
<1>1. n \in 0..Len(q) /\ (R # {} => n = 0) /\ (R = {} => IsBatch(q, n))
  BY BatchExists DEF Starts
<1>2. /\ Rest(q, n) \in Seq(Op) /\ Len(Rest(q, n)) = Len(q) - n
      /\ \A k \in 1..Len(Rest(q, n)) : k + n \in 1..Len(q) /\ Rest(q, n)[k] = q[k + n]
  BY <1>1, SMTT(30) DEF Rest
<1>3. IsTail(Rest(q, n), s)
  <2> SUFFICES ASSUME NEW k \in 1..Len(Rest(q, n))
               PROVE  Rest(q, n)[k] = s[Len(s) - Len(Rest(q, n)) + k]
    BY <1>1, <1>2 DEF IsTail
  <2>1. q[k + n] = s[Len(s) - Len(q) + (k + n)]
    BY <1>2 DEF IsTail
  <2>2. Len(s) - Len(Rest(q, n)) + k = Len(s) - Len(q) + (k + n)
    BY <1>1, <1>2
  <2> QED
    BY <1>2, <2>1, <2>2
<1>4. InOrder(s, Len(s) - Len(Rest(q, n)), R \cup Members(q, n))
  <2> SUFFICES ASSUME NEW i \in 1..(Len(s) - Len(q) + n), NEW j \in 1..(Len(s) - Len(q) + n),
                      i < j, Conflict(s[i], s[j]), s[i] \in R \cup Members(q, n)
               PROVE  FALSE
    <3> Len(s) - Len(Rest(q, n)) = Len(s) - Len(q) + n
      BY <1>1, <1>2
    <3> QED
      BY DEF InOrder
  <2>1. CASE n = 0
    BY <2>1 DEF Members, InOrder
  <2>2. CASE n # 0
    <3>1. PICK k \in 1..n : s[i] = q[k]
      BY <1>1, <2>2 DEF Members
    <3>2. k \in 1..Len(q) /\ Len(s) - Len(q) + k \in 1..Len(s)
      BY <1>1, <3>1 DEF IsTail
    <3>3. i = Len(s) - Len(q) + k
      <4>1. s[Len(s) - Len(q) + k] = s[i]
        BY <3>1, <3>2 DEF IsTail
      <4>2. i \in 1..Len(s)
        BY <1>1 DEF IsTail
      <4> QED
        BY <3>2, <4>1, <4>2 DEF Distinct
    <3> DEFINE l == j - (Len(s) - Len(q))
    <3>4. l \in 1..n /\ l # k /\ n # 1 /\ j = Len(s) - Len(q) + l
      BY <1>1, <3>1, <3>3 DEF IsTail
    <3> HIDE DEF l
    <3>5. s[j] = q[l]
      BY <1>1, <3>4 DEF IsTail
    <3>6. s[i] \in Shared /\ s[j] \in Shared
      BY <1>1, <2>2, <3>1, <3>4, <3>5 DEF IsBatch
    <3> QED
      BY <3>6, GateAssumption DEF Conflict
  <2> QED
    BY <2>1, <2>2
<1> QED
  BY <1>3, <1>4

LEMMA SubmitOrder ==
    ASSUME IInv, OrderInv, NEW o \in Op, NEW g \in Gate, Submit(o, g)
    PROVE  OrderInv'
<1>1. gateOf[o] = NoGate /\ g # NoGate /\ order' = Append(order, o)
  BY GateAssumption DEF Submit
<1>2. /\ order \in Seq(Op) /\ order' \in Seq(Op) /\ Len(order') = Len(order) + 1
      /\ order'[Len(order')] = o /\ \A i \in 1..Len(order) : order'[i] = order[i]
  BY <1>1 DEF IInv, TypeOK
<1>3. \A i \in 1..Len(order) : order[i] # o
  BY <1>1 DEF OrderInv
<1>4. Distinct(order')
  BY <1>2, <1>3 DEF Distinct, OrderInv
<1>5. gateOf' = [gateOf EXCEPT ![o] = g] /\ gateOf \in [Op -> used \cup {NoGate}]
  BY DEF Submit, IInv, TypeOK
<1>6. \A i \in 1..Len(order') : gateOf'[order'[i]] # NoGate
  <2> TAKE i \in 1..Len(order')
  <2>1. CASE i = Len(order')
    BY <1>1, <1>2, <1>5, <2>1
  <2>2. CASE i # Len(order')
    <3> i \in 1..Len(order)
      BY <1>2, <2>2
    <3>1. order[i] \in Op /\ order'[i] = order[i] /\ gateOf[order[i]] # NoGate
      BY <1>2 DEF OrderInv
    <3> QED
      BY <1>1, <1>5, <3>1
  <2> QED
    BY <2>1, <2>2
<1>7. \A h \in Gate : h # g => active[h] = {} /\ queue[h] = <<>>
  BY GateAssumption DEF Submit, IInv
<1>8. /\ queue[g] \in Seq(Op) /\ active[g] \in SUBSET Op
      /\ active \in [Gate -> SUBSET Op] /\ queue \in [Gate -> Seq(Op)]
  BY DEF IInv, TypeOK
<1>9. InOrder(order', Len(order) - Len(queue[g]), active[g])
  <2>1. Len(queue[g]) <= Len(order) /\ InOrder(order, Len(order) - Len(queue[g]), active[g])
    BY DEF OrderInv, IsTail
  <2>2. \A i \in 1..(Len(order) - Len(queue[g])) : order'[i] = order[i]
    BY <1>2, <1>8, <2>1
  <2> QED
    BY <2>1, <2>2 DEF InOrder
<1>10. /\ IsTail(queue'[g], order')
       /\ InOrder(order', Len(order') - Len(queue'[g]), active'[g])
       /\ \A h \in Gate : h # g => active'[h] = {} /\ queue'[h] = <<>>
  <2>1. CASE JoinsNow(g, o)
    <3>1. active' = [active EXCEPT ![g] = @ \cup {o}] /\ queue' = queue /\ queue[g] = <<>>
      BY <2>1 DEF Submit, JoinsNow
    <3>2. active'[g] = active[g] \cup {o} /\ queue'[g] = <<>>
      BY <1>8, <3>1
    <3>3. ASSUME NEW i \in 1..Len(order'), NEW j \in 1..Len(order'), i < j,
                 Conflict(order'[i], order'[j])
          PROVE  order'[i] \notin active[g] \cup {o}
      <4>1. i \in 1..Len(order) /\ order'[i] # o
        BY <1>2, <1>3, <3>3
      <4>2. CASE j = Len(order')
        BY <1>2, <2>1, <3>3, <4>1, <4>2, GateAssumption DEF Conflict, JoinsNow
      <4>3. CASE j # Len(order')
        BY <1>2, <1>9, <3>1, <3>3, <4>1, <4>3 DEF InOrder
      <4> QED
        BY <4>2, <4>3
    <3>4. Len(order') - Len(queue'[g]) = Len(order')
      BY <1>2, <3>2
    <3> QED
      BY <1>2, <1>7, <1>8, <3>1, <3>2, <3>3, <3>4 DEF IsTail, InOrder
  <2>2. CASE ~JoinsNow(g, o)
    <3> DEFINE q == Append(queue[g], o)
               n == Starts(active[g], q)
    <3>1. /\ active' = [active EXCEPT ![g] = active[g] \cup Members(q, n)]
          /\ queue' = [queue EXCEPT ![g] = Rest(q, n)]
      BY <2>2 DEF Submit, Drain
    <3>2. /\ q \in Seq(Op) /\ Len(q) = Len(queue[g]) + 1 /\ q[Len(q)] = o
          /\ \A k \in 1..Len(queue[g]) : q[k] = queue[g][k]
      BY <1>8
    <3>3. IsTail(q, order')
      <4>1. IsTail(queue[g], order)
        BY DEF OrderInv
      <4> HIDE DEF q
      <4>2. Len(q) <= Len(order') /\ Len(order') - Len(q) = Len(order) - Len(queue[g])
        BY <1>2, <1>8, <3>2, <4>1 DEF IsTail
      <4>3. ASSUME NEW k \in 1..Len(q)
            PROVE  q[k] = order'[Len(order') - Len(q) + k]
        <5>1. CASE k = Len(q)
          <6>1. Len(q) \in Nat /\ Len(order') \in Nat
            BY <1>2, <3>2
          <6>2. Len(order') - Len(q) + k = Len(order')
            BY <5>1, <6>1
          <6> QED
            BY <1>2, <3>2, <5>1, <6>2
        <5>2. CASE k # Len(q)
          <6>1. k \in 1..Len(queue[g]) /\ Len(order) - Len(queue[g]) + k \in 1..Len(order)
            BY <1>2, <1>8, <3>2, <4>1, <5>2 DEF IsTail
          <6> QED
            BY <1>2, <3>2, <4>1, <4>2, <6>1 DEF IsTail
        <5> QED
          BY <5>1, <5>2
      <4> QED
        BY <4>2, <4>3 DEF IsTail
    <3>4. InOrder(order', Len(order') - Len(q), active[g])
      <4>1. Len(order') - Len(q) = Len(order) - Len(queue[g])
        BY <1>2, <1>8, <3>2
      <4> QED
        BY <1>9, <4>1
    <3> HIDE DEF q
    <3>5. /\ IsTail(Rest(q, n), order')
          /\ InOrder(order', Len(order') - Len(Rest(q, n)), active[g] \cup Members(q, n))
      BY <1>2, <1>4, <1>8, <3>2, <3>3, <3>4, DrainKeepsOrder
    <3> HIDE DEF n
    <3> QED
      BY <1>7, <1>8, <3>1, <3>5
  <2> QED
    BY <2>1, <2>2
<1>11. ASSUME NEW h \in Gate, h # g
       PROVE  IsTail(queue'[h], order') /\ InOrder(order', Len(order') - Len(queue'[h]), active'[h])
  <2>1. queue'[h] = <<>> /\ active'[h] = {}
    BY <1>10, <1>11
  <2>2. Len(queue'[h]) = 0 /\ Len(order') \in Nat
    BY <1>2, <2>1
  <2> QED
    BY <2>1, <2>2 DEF IsTail, InOrder
<1> QED
  BY <1>4, <1>6, <1>10, <1>11 DEF OrderInv

LEMMA SettleOrder ==
    ASSUME IInv, OrderInv, NEW o \in Op, NEW g \in Gate, Settle(o, g)
    PROVE  OrderInv'
<1> DEFINE R == active[g] \ {o}
           n == Starts(R, queue[g])
<1>1. /\ active' = [active EXCEPT ![g] = R \cup Members(queue[g], n)]
      /\ queue' = [queue EXCEPT ![g] = Rest(queue[g], n)]
      /\ UNCHANGED <<order, gateOf>>
  BY DEF Settle, Drain
<1>2. /\ order \in Seq(Op) /\ queue[g] \in Seq(Op) /\ R \in SUBSET Op
      /\ active \in [Gate -> SUBSET Op] /\ queue \in [Gate -> Seq(Op)]
  BY DEF IInv, TypeOK
<1>3. /\ Distinct(order) /\ IsTail(queue[g], order)
      /\ InOrder(order, Len(order) - Len(queue[g]), R)
  BY DEF OrderInv, InOrder
<1> HIDE DEF R
<1>4. /\ IsTail(Rest(queue[g], n), order)
      /\ InOrder(order, Len(order) - Len(Rest(queue[g], n)), R \cup Members(queue[g], n))
  BY <1>2, <1>3, DrainKeepsOrder
<1> HIDE DEF n
<1> QED
  BY <1>1, <1>2, <1>4 DEF OrderInv

(* With that, no two operations are out of order.                          *)
LEMMA OrderedByInvariant == IInv /\ OrderInv => ConflictsInOrder
<1> SUFFICES ASSUME IInv, OrderInv, NEW i \in 1..Len(order), NEW j \in 1..Len(order),
                    i < j, Conflict(order[i], order[j]), Started(order[j])
             PROVE  Settled(order[i])
  BY DEF ConflictsInOrder
<1>1. order \in Seq(Op) /\ queue \in [Gate -> Seq(Op)]
  BY DEF IInv, TypeOK
<1>2. ASSUME NEW g \in Gate
      PROVE  j <= Len(order) - Len(queue[g])
  <2> SUFFICES ASSUME j > Len(order) - Len(queue[g])
               PROVE  FALSE
    BY <1>1
  <2> DEFINE k == j - (Len(order) - Len(queue[g]))
  <2>1. k \in 1..Len(queue[g]) /\ j = Len(order) - Len(queue[g]) + k
    BY <1>1
  <2> HIDE DEF k
  <2>2. queue[g][k] = order[j]
    BY <1>1, <2>1 DEF OrderInv, IsTail
  <2> QED
    BY <2>1, <2>2 DEF Started, Queued
<1>3. ASSUME NEW g \in Gate
      PROVE  order[i] \notin active[g]
  <2>1. i \in 1..(Len(order) - Len(queue[g])) /\ j \in 1..(Len(order) - Len(queue[g]))
    BY <1>1, <1>2
  <2> QED
    BY <2>1 DEF OrderInv, InOrder
<1>4. ASSUME NEW g \in Gate, NEW k \in 1..Len(queue[g]), queue[g][k] = order[i]
      PROVE  FALSE
  <2>1. Len(order) - Len(queue[g]) + k \in 1..Len(order)
    BY <1>1 DEF OrderInv, IsTail
  <2>2. order[Len(order) - Len(queue[g]) + k] = order[i]
    BY <1>4 DEF OrderInv, IsTail
  <2>3. Len(order) - Len(queue[g]) + k = i
    BY <2>1, <2>2 DEF OrderInv, Distinct
  <2> QED
    BY <1>1, <1>2, <2>3
<1> QED
  BY <1>3, <1>4 DEF Settled, Running, Queued, OrderInv

LEMMA OrderAlways == Spec => [](IInv /\ OrderInv)
<1>1. Init => OrderInv
  BY DEF Init, OrderInv, Distinct, IsTail, InOrder
<1>2. IInv /\ OrderInv /\ [Next]_vars => OrderInv'
  <2> SUFFICES ASSUME IInv, OrderInv, [Next]_vars
               PROVE  OrderInv'
    OBVIOUS
  <2>1. CASE UNCHANGED vars
    BY <2>1 DEF OrderInv, vars
  <2>2. ASSUME NEW o \in Op, NEW g \in Gate, Submit(o, g)
        PROVE  OrderInv'
    BY <2>2, SubmitOrder
  <2>3. ASSUME NEW o \in Op, NEW g \in Gate, Settle(o, g)
        PROVE  OrderInv'
    BY <2>3, SettleOrder
  <2> QED
    BY <2>1, <2>2, <2>3 DEF Next
<1> QED
  BY <1>1, <1>2, GateInvariant, PTL DEF Spec

(* Of two operations that conflict, the one submitted later does not start *)
(* before the earlier one has settled, whatever the queues, the batches    *)
(* and the gate objects did between.                                       *)
THEOREM NothingOvertakes == Spec => []ConflictsInOrder
BY OrderAlways, OrderedByInvariant, PTL

-----------------------------------------------------------------------------
(* The refinement of FairLine. Counts says that f numbers the positions S  *)
(* from 1 to n, upwards.                                                   *)
Counts(f, n, S) ==
    /\ n \in Nat /\ f \in [1..n -> S]
    /\ \A i \in S : \E k \in 1..n : f[k] = i
    /\ \A k, l \in 1..n : k < l => f[k] < f[l]

(* There is one such numbering, that by places.                            *)
LEMMA CountsByPlace ==
    ASSUME NEW S, S \subseteq Nat, NEW n, NEW f, Counts(f, n, S)
    PROVE  /\ Cardinality(S) = n
           /\ \A k \in 1..n : f[k] = CHOOSE i \in S : Place(i, S) = k
<1>1. /\ n \in Nat /\ f \in [1..n -> S] /\ \A i \in S : \E k \in 1..n : f[k] = i
      /\ \A k, l \in 1..n : k < l => f[k] < f[l]
  BY DEF Counts
<1>2. \A k, l \in 1..n : (f[k] <= f[l] <=> k <= l) /\ (f[k] = f[l] => k = l)
  <2> SUFFICES ASSUME NEW k \in 1..n, NEW l \in 1..n
               PROVE  (f[k] <= f[l] <=> k <= l) /\ (f[k] = f[l] => k = l)
    OBVIOUS
  <2>1. f[k] \in Nat /\ f[l] \in Nat
    BY <1>1
  <2>2. (k < l => f[k] < f[l]) /\ (l < k => f[l] < f[k])
    BY <1>1
  <2> QED  BY <2>1, <2>2
<1>3. Cardinality(S) = n
  <2>1. f \in Bijection(1..n, S)
    BY <1>1, <1>2 DEF Bijection, Injection, Surjection, IsInjective
  <2> QED  BY <2>1, <1>1, FS_CountingElements DEF ExistsBijection
<1>4. ASSUME NEW k \in 1..n PROVE Place(f[k], S) = k
  <2> DEFINE T == {j \in S : j <= f[k]}
             h == [l \in 1..k |-> f[l]]
  <2>1. h \in [1..k -> T]
    <3>1. \A l \in 1..k : l \in 1..n /\ f[l] \in S /\ f[l] <= f[k]
      BY <1>1, <1>2
    <3> QED  BY <3>1
  <2>2. \A i \in T : \E l \in 1..k : h[l] = i
    <3> TAKE i \in T
    <3>1. PICK l \in 1..n : f[l] = i
      BY <1>1
    <3>2. l \in 1..k
      BY <3>1, <1>2
    <3> QED  BY <3>1, <3>2
  <2>3. \A l, m \in 1..k : h[l] = h[m] => l = m
    BY <1>1, <1>2
  <2> HIDE DEF T, h
  <2>4. h \in Bijection(1..k, T)
    BY <2>1, <2>2, <2>3 DEF Bijection, Injection, Surjection, IsInjective
  <2>5. k \in Nat
    BY <1>1
  <2>6. Cardinality(T) = k
    BY <2>4, <2>5, FS_CountingElements DEF ExistsBijection
  <2> QED  BY <2>6 DEF T, Place
<1>5. ASSUME NEW k \in 1..n PROVE f[k] = CHOOSE i \in S : Place(i, S) = k
  <2>1. f[k] \in S /\ Place(f[k], S) = k
    BY <1>1, <1>4
  <2>2. ASSUME NEW i \in S, Place(i, S) = k PROVE i = f[k]
    <3>1. PICK l \in 1..n : f[l] = i
      BY <1>1
    <3>2. l = k
      BY <3>1, <2>2, <1>4
    <3> QED  BY <3>1, <3>2
  <2> HIDE DEF Place
  <2> QED  BY <2>1, <2>2
<1> QED  BY <1>3, <1>5

(* One more position behind the others, and one less.                      *)
LEMMA CountsOneMore ==
    ASSUME NEW S, S \subseteq Nat, NEW n, NEW f, Counts(f, n, S),
           NEW m \in Nat, \A i \in S : i < m
    PROVE  Counts([k \in 1..(n + 1) |-> IF k = n + 1 THEN m ELSE f[k]], n + 1, S \cup {m})
<1> DEFINE h == [k \in 1..(n + 1) |-> IF k = n + 1 THEN m ELSE f[k]]
<1>1. /\ n \in Nat /\ f \in [1..n -> S] /\ \A i \in S : \E k \in 1..n : f[k] = i
      /\ \A k, l \in 1..n : k < l => f[k] < f[l]
  BY DEF Counts
<1>2. n + 1 \in 1..(n + 1) /\ h[n + 1] = m
      /\ \A k \in 1..n : k \in 1..(n + 1) /\ h[k] = f[k] /\ f[k] \in S
  BY <1>1
<1>3. \A k \in 1..(n + 1) : k = n + 1 \/ k \in 1..n
  BY <1>1
<1>4. h \in [1..(n + 1) -> S \cup {m}]
  BY <1>1, <1>3
<1> HIDE DEF h
<1>5. \A i \in S \cup {m} : \E k \in 1..(n + 1) : h[k] = i
  <2> TAKE i \in S \cup {m}
  <2>1. CASE i = m
    BY <2>1, <1>2
  <2>2. CASE i \in S
    <3>1. PICK k \in 1..n : f[k] = i
      BY <2>2, <1>1
    <3> QED  BY <3>1, <1>2
  <2> QED  BY <2>1, <2>2
<1>6. ASSUME NEW k \in 1..(n + 1), NEW l \in 1..(n + 1), k < l PROVE h[k] < h[l]
  <2>1. k \in 1..n
    BY <1>6, <1>1
  <2>2. CASE l = n + 1
    BY <2>1, <2>2, <1>2
  <2>3. CASE l \in 1..n
    BY <2>1, <2>3, <1>6, <1>1, <1>2
  <2> QED  BY <2>2, <2>3, <1>3
<1>7. n + 1 \in Nat
  BY <1>1
<1> QED  BY <1>4, <1>5, <1>6, <1>7 DEF Counts, h

LEMMA CountsOneLess ==
    ASSUME NEW S, S \subseteq Nat, NEW n, NEW f, Counts(f, n, S), NEW j \in 1..n
    PROVE  Counts([k \in 1..(n - 1) |-> IF k < j THEN f[k] ELSE f[k + 1]], n - 1, S \ {f[j]})
<1> DEFINE up == [k \in 1..(n - 1) |-> IF k < j THEN k ELSE k + 1]
           h == [k \in 1..(n - 1) |-> IF k < j THEN f[k] ELSE f[k + 1]]
<1>1. /\ n \in Nat /\ f \in [1..n -> S] /\ \A i \in S : \E k \in 1..n : f[k] = i
      /\ \A k, l \in 1..n : k < l => f[k] < f[l]
  BY DEF Counts
<1>2. /\ n - 1 \in Nat
      /\ \A k \in 1..(n - 1) : up[k] \in 1..n /\ up[k] # j /\ h[k] = f[up[k]]
      /\ \A k, l \in 1..(n - 1) : k < l => up[k] < up[l]
      /\ \A m \in 1..n : m # j => \E k \in 1..(n - 1) : up[k] = m
  <2>1. n - 1 \in Nat
    BY <1>1
  <2>2. ASSUME NEW k \in 1..(n - 1) PROVE up[k] \in 1..n /\ up[k] # j /\ h[k] = f[up[k]]
    <3>1. n \in Nat /\ j \in Nat
      BY <1>1
    <3>2. CASE k < j
      <4>1. up[k] = k /\ h[k] = f[k]
        BY <3>2
      <4> QED  BY <3>1, <3>2, <4>1
    <3>3. CASE ~(k < j)
      <4>1. up[k] = k + 1 /\ h[k] = f[k + 1]
        BY <3>3
      <4> QED  BY <3>1, <3>3, <4>1
    <3> QED  BY <3>2, <3>3
  <2>3. ASSUME NEW k \in 1..(n - 1), NEW l \in 1..(n - 1), k < l PROVE up[k] < up[l]
    <3>1. k \in Nat /\ l \in Nat /\ j \in Nat
      BY <1>1
    <3>2. /\ up[k] = IF k < j THEN k ELSE k + 1
          /\ up[l] = IF l < j THEN l ELSE l + 1
      OBVIOUS
    <3> HIDE DEF up
    <3> QED  BY ONLY <2>3, <3>1, <3>2
  <2>4. ASSUME NEW m \in 1..n, m # j PROVE \E k \in 1..(n - 1) : up[k] = m
    <3>1. CASE m < j
      <4>1. m \in 1..(n - 1)
        BY <1>1, <3>1
      <4>2. up[m] = m
        BY <4>1, <3>1
      <4> QED  BY <4>1, <4>2
    <3>2. CASE m > j
      <4>1. m - 1 \in 1..(n - 1) /\ ~(m - 1 < j) /\ (m - 1) + 1 = m
        BY <1>1, <3>2
      <4>2. up[m - 1] = m
        BY <4>1
      <4> QED  BY <4>1, <4>2
    <3> QED  BY <3>1, <3>2, <2>4, <1>1
  <2> QED  BY <2>1, <2>2, <2>3, <2>4
<1>3. DOMAIN h = 1..(n - 1) /\ h = [k \in 1..(n - 1) |-> h[k]]
  OBVIOUS
<1> HIDE DEF up, h
<1>4. \A k, l \in 1..n : f[k] = f[l] => k = l
  <2> SUFFICES ASSUME NEW k \in 1..n, NEW l \in 1..n, k # l PROVE f[k] # f[l]
    OBVIOUS
  <2>1. f[k] \in Nat /\ f[l] \in Nat
    BY <1>1
  <2>2. k < l \/ l < k
    <3>1. n \in Nat
      BY <1>1
    <3> QED  BY <3>1
  <2>3. f[k] < f[l] \/ f[l] < f[k]
    BY <2>2, <1>1
  <2> QED  BY ONLY <2>1, <2>3
<1>5. \A k \in 1..(n - 1) : h[k] \in S \ {f[j]}
  BY <1>1, <1>2, <1>4
<1>6. h \in [1..(n - 1) -> S \ {f[j]}]
  BY <1>3, <1>5
<1>7. ASSUME NEW i \in S \ {f[j]} PROVE \E k \in 1..(n - 1) : h[k] = i
  <2>1. PICK m \in 1..n : f[m] = i
    BY <1>1
  <2>2. PICK k \in 1..(n - 1) : up[k] = m
    BY <2>1, <1>2
  <2> QED  BY <2>1, <2>2, <1>2
<1>8. \A k, l \in 1..(n - 1) : k < l => h[k] < h[l]
  BY <1>1, <1>2
<1> QED  BY <1>2, <1>6, <1>7, <1>8 DEF Counts, h

(* What the unfinished operations are, as the line's sequence.             *)
LEMMA UnfinishedIs ==
    ASSUME IInv, NEW n, NEW f, Counts(f, n, Unsettled)
    PROVE  Unfinished = [k \in 1..n |-> order[f[k]]]
<1>1. Unsettled \subseteq Nat
  BY DEF Unsettled, IInv, TypeOK
<1> HIDE DEF Unsettled
<1>2. /\ Cardinality(Unsettled) = n
      /\ \A k \in 1..n : f[k] = CHOOSE i \in Unsettled : Place(i, Unsettled) = k
  BY <1>1, CountsByPlace
<1>3. \A k \in 1..n : order[CHOOSE i \in Unsettled : Place(i, Unsettled) = k] = order[f[k]]
  BY <1>2
<1>4. Unfinished = [k \in 1..n |-> order[CHOOSE i \in Unsettled : Place(i, Unsettled) = k]]
  BY <1>2, Zenon DEF Unfinished
<1> QED  BY <1>3, <1>4, Zenon

LEMMA UnfinishedIsNext ==
    ASSUME IInv', NEW n, NEW f, Counts(f, n, Unsettled')
    PROVE  Unfinished' = [k \in 1..n |-> order'[f[k]]]
<1>1. Unsettled' \subseteq Nat
  BY DEF Unsettled, IInv, TypeOK
<1> HIDE DEF Unsettled
<1>2. /\ Cardinality(Unsettled') = n
      /\ \A k \in 1..n : f[k] = CHOOSE i \in Unsettled' : Place(i, Unsettled') = k
  BY <1>1, CountsByPlace
<1>3. \A k \in 1..n : order'[CHOOSE i \in Unsettled' : Place(i, Unsettled') = k] = order'[f[k]]
  BY <1>2
<1>4. Unfinished' = [k \in 1..n |-> order'[CHOOSE i \in Unsettled' : Place(i, Unsettled') = k]]
  BY <1>2, Zenon DEF Unfinished
<1> QED  BY <1>3, <1>4, Zenon

(* Who is on a gate, running or waiting, and who has come and gone.        *)
Here(a, q) == a \cup Members(q, Len(q))
Gone(where, a, q, o) == where[o] # NoGate /\ \A g \in Gate : o \notin Here(a[g], q[g])

LEMMA UnsettledIs == Unsettled = {i \in DOMAIN order : ~Gone(gateOf, active, queue, order[i])}
BY DEF Unsettled, Settled, Queued, Running, Gone, Here, Members

LEMMA UnsettledIsNext ==
    Unsettled' = {i \in DOMAIN order' : ~Gone(gateOf', active', queue', order'[i])}
BY DEF Unsettled, Settled, Queued, Running, Gone, Here, Members

(* Draining moves operations and loses none.                               *)
LEMMA DrainMoves ==
    ASSUME NEW q \in Seq(Op), NEW R \in SUBSET Op, NEW n, n = Starts(R, q)
    PROVE  Here(R \cup Members(q, n), Rest(q, n)) = Here(R, q)
<1>1. n \in 0..Len(q)
  BY BatchExists DEF Starts
<1>2. Len(Rest(q, n)) = Len(q) - n
  BY <1>1, SMTT(30) DEF Rest
<1>3. \A k \in 1..Len(Rest(q, n)) : Rest(q, n)[k] = q[k + n]
  BY <1>1, SMTT(30) DEF Rest
<1>4. Len(q) \in Nat
  OBVIOUS
<1>5. Members(q, n) \cup Members(Rest(q, n), Len(Rest(q, n))) \subseteq Members(q, Len(q))
  <2>1. ASSUME NEW i \in 1..n PROVE q[i] \in Members(q, Len(q))
    <3>1. i \in 1..Len(q)
      BY <1>1, <1>4
    <3> QED  BY <3>1 DEF Members
  <2>2. ASSUME NEW k \in 1..Len(Rest(q, n)) PROVE Rest(q, n)[k] \in Members(q, Len(q))
    <3>1. k + n \in 1..Len(q)
      BY <1>1, <1>2, <1>4
    <3> QED  BY <3>1, <1>3 DEF Members
  <2> QED  BY <2>1, <2>2 DEF Members
<1>6. ASSUME NEW i \in 1..Len(q)
      PROVE  q[i] \in Members(q, n) \cup Members(Rest(q, n), Len(Rest(q, n)))
  <2>1. CASE i <= n
    <3>1. i \in 1..n
      BY <2>1, <1>1, <1>4
    <3> QED  BY <3>1 DEF Members
  <2>2. CASE i > n
    <3>1. i - n \in 1..Len(Rest(q, n)) /\ (i - n) + n = i
      BY <2>2, <1>1, <1>2, <1>4
    <3>2. Rest(q, n)[i - n] = q[i]
      BY <3>1, <1>3
    <3> QED  BY <3>1, <3>2 DEF Members
  <2> QED  BY <2>1, <2>2, <1>1, <1>4
<1>7. Members(q, Len(q)) \subseteq Members(q, n) \cup Members(Rest(q, n), Len(Rest(q, n)))
  BY <1>6 DEF Members
<1> QED  BY <1>5, <1>7 DEF Here

(* Who is where after a step.                                              *)
LEMMA SubmitPlaces ==
    ASSUME IInv, NEW o \in Op, NEW g \in Gate, Submit(o, g)
    PROVE  \A h \in Gate : Here(active'[h], queue'[h]) =
               Here(active[h], queue[h]) \cup (IF h = g THEN {o} ELSE {})
<1>1. /\ queue[g] \in Seq(Op) /\ active[g] \in SUBSET Op
      /\ active \in [Gate -> SUBSET Op] /\ queue \in [Gate -> Seq(Op)]
  BY DEF IInv, TypeOK
<1>2. CASE JoinsNow(g, o)
  <2>1. active' = [active EXCEPT ![g] = @ \cup {o}] /\ queue' = queue
    BY <1>2 DEF Submit
  <2> QED  BY <2>1, <1>1 DEF Here
<1>3. CASE ~JoinsNow(g, o)
  <2> DEFINE q == Append(queue[g], o)
             n == Starts(active[g], q)
  <2>1. /\ active' = [active EXCEPT ![g] = active[g] \cup Members(q, n)]
        /\ queue' = [queue EXCEPT ![g] = Rest(q, n)]
    BY <1>3 DEF Submit, Drain
  <2>2. /\ q \in Seq(Op) /\ Len(q) = Len(queue[g]) + 1 /\ q[Len(q)] = o
        /\ \A k \in 1..Len(queue[g]) : q[k] = queue[g][k]
    BY <1>1
  <2>3. Members(q, Len(q)) = Members(queue[g], Len(queue[g])) \cup {o}
    <3>1. Len(queue[g]) \in Nat
      BY <1>1
    <3> HIDE DEF q
    <3>2. 1..Len(q) = 1..Len(queue[g]) \cup {Len(q)}
      BY <3>1, <2>2
    <3> QED  BY <3>2, <2>2 DEF Members
  <2> HIDE DEF q
  <2>4. Here(active[g] \cup Members(q, n), Rest(q, n)) = Here(active[g], q)
    BY <2>2, <1>1, DrainMoves
  <2>5. Here(active[g], q) = Here(active[g], queue[g]) \cup {o}
    BY <2>3 DEF Here
  <2> HIDE DEF n
  <2>6. active'[g] = active[g] \cup Members(q, n) /\ queue'[g] = Rest(q, n)
    BY <2>1, <1>1
  <2>7. \A h \in Gate : h # g => active'[h] = active[h] /\ queue'[h] = queue[h]
    BY <2>1, <1>1
  <2> QED  BY <2>4, <2>5, <2>6, <2>7
<1> QED  BY <1>2, <1>3

LEMMA SettlePlaces ==
    ASSUME IInv, NEW o \in Op, NEW g \in Gate, Settle(o, g)
    PROVE  \A h \in Gate : Here(active'[h], queue'[h]) = Here(active[h], queue[h]) \ {o}
<1> DEFINE R == active[g] \ {o}
           n == Starts(R, queue[g])
<1>1. /\ active' = [active EXCEPT ![g] = R \cup Members(queue[g], n)]
      /\ queue' = [queue EXCEPT ![g] = Rest(queue[g], n)]
  BY DEF Settle, Drain
<1>2. /\ queue[g] \in Seq(Op) /\ R \in SUBSET Op /\ o \in active[g] /\ state = g
      /\ active \in [Gate -> SUBSET Op] /\ queue \in [Gate -> Seq(Op)]
  BY DEF IInv, TypeOK, Settle
<1>3. o \notin Members(queue[g], Len(queue[g]))
  BY <1>2 DEF IInv, TypeOK, Members
<1>4. Here(R, queue[g]) = Here(active[g], queue[g]) \ {o}
  BY <1>3 DEF Here
<1> HIDE DEF R
<1>5. Here(R \cup Members(queue[g], n), Rest(queue[g], n)) = Here(R, queue[g])
  BY <1>2, DrainMoves
<1> HIDE DEF n
<1>6. active'[g] = R \cup Members(queue[g], n) /\ queue'[g] = Rest(queue[g], n)
  BY <1>1, <1>2
<1>7. ASSUME NEW h \in Gate, h # g
      PROVE  Here(active'[h], queue'[h]) = Here(active[h], queue[h]) \ {o}
  <2>1. active'[h] = {} /\ queue'[h] = <<>> /\ active[h] = {} /\ queue[h] = <<>>
    BY <1>1, <1>2, <1>7 DEF IInv
  <2> QED  BY <2>1 DEF Here, Members
<1> QED  BY <1>4, <1>5, <1>6, <1>7

(* The inductive invariant of the line: who was submitted is in the order, *)
(* and the unsettled positions can be numbered.                            *)
LineInv ==
    /\ \A o \in Op : gateOf[o] # NoGate => \E i \in DOMAIN order : order[i] = o
    /\ \E n, f : Counts(f, n, Unsettled)

LEMMA LineStarts == Init => LineInv /\ Line!Init
<1> SUFFICES ASSUME Init PROVE LineInv /\ Line!Init
  OBVIOUS
<1>1. Unsettled = {} /\ Cardinality(Unsettled) = 0
  BY FS_EmptySet DEF Init, Unsettled
<1>2. Counts(<<>>, 0, Unsettled)
  BY <1>1 DEF Counts
<1>3. Unfinished = <<>>
  BY <1>1 DEF Unfinished
<1> QED  BY <1>2, <1>3 DEF LineInv, Init, Line!Init

(* Submitting appends a position, settling takes one away.                 *)
LEMMA SubmitUnsettled ==
    ASSUME IInv, OrderInv, NEW o \in Op, NEW g \in Gate, Submit(o, g)
    PROVE  /\ Unsettled' = Unsettled \cup {Len(order) + 1}
           /\ order \in Seq(Op) /\ order' = Append(order, o)
           /\ \A i \in 1..Len(order) : order[i] # o
<1>1. /\ order \in Seq(Op) /\ order' = Append(order, o) /\ gateOf[o] = NoGate
      /\ gateOf' = [gateOf EXCEPT ![o] = g] /\ gateOf \in [Op -> used \cup {NoGate}]
  BY DEF Submit, IInv, TypeOK
<1>2. \A i \in 1..Len(order) : order[i] \in Op /\ order[i] # o
  BY <1>1 DEF OrderInv
<1>3. /\ Len(order') = Len(order) + 1 /\ order'[Len(order) + 1] = o
      /\ \A i \in 1..Len(order) : order'[i] = order[i]
  BY <1>1
<1>4. \A h \in Gate : Here(active'[h], queue'[h]) =
          Here(active[h], queue[h]) \cup (IF h = g THEN {o} ELSE {})
  BY SubmitPlaces
<1>5. Unsettled' = {i \in DOMAIN order' : ~Gone(gateOf', active', queue', order'[i])}
       /\ Unsettled = {i \in DOMAIN order : ~Gone(gateOf, active, queue, order[i])}
  BY UnsettledIs, UnsettledIsNext
<1>6. ~Gone(gateOf', active', queue', o)
  BY <1>4 DEF Gone
<1>7. ASSUME NEW p \in Op, p # o
      PROVE  Gone(gateOf', active', queue', p) <=> Gone(gateOf, active, queue, p)
  <2>1. gateOf'[p] = gateOf[p]
    BY <1>1, <1>7
  <2>2. \A h \in Gate : p \in Here(active'[h], queue'[h]) <=> p \in Here(active[h], queue[h])
    BY <1>4, <1>7
  <2> QED  BY <2>1, <2>2 DEF Gone
<1>8. Unsettled' = {i \in 1..(Len(order) + 1) : ~Gone(gateOf', active', queue', order'[i])}
  BY <1>1, <1>3, <1>5
<1>9. Unsettled = {i \in 1..Len(order) : ~Gone(gateOf, active, queue, order[i])}
  BY <1>1, <1>5
<1>10. 1..(Len(order) + 1) = 1..Len(order) \cup {Len(order) + 1} /\ Len(order) + 1 \notin 1..Len(order)
  BY <1>1
<1>11. \A i \in 1..Len(order) :
           Gone(gateOf', active', queue', order'[i]) <=> Gone(gateOf, active, queue, order[i])
  BY <1>2, <1>3, <1>7
<1>12. ~Gone(gateOf', active', queue', order'[Len(order) + 1])
  BY <1>3, <1>6
<1> QED  BY <1>1, <1>2, <1>8, <1>9, <1>10, <1>11, <1>12

LEMMA SettleUnsettled ==
    ASSUME IInv, OrderInv, LineInv, NEW o \in Op, NEW g \in Gate, Settle(o, g)
    PROVE  /\ UNCHANGED order /\ order \in Seq(Op)
           /\ \E m \in Unsettled : order[m] = o /\ Unsettled' = Unsettled \ {m}
<1>1. /\ order \in Seq(Op) /\ order' = order /\ gateOf' = gateOf /\ o \in active[g]
      /\ gateOf[o] = g
  BY DEF Settle, IInv, TypeOK
<1>2. g # NoGate
  BY GateAssumption
<1>3. PICK m \in 1..Len(order) : order[m] = o
  BY <1>1, <1>2 DEF LineInv
<1>4. \A h \in Gate : Here(active'[h], queue'[h]) = Here(active[h], queue[h]) \ {o}
  BY SettlePlaces
<1>5. Unsettled' = {i \in DOMAIN order' : ~Gone(gateOf', active', queue', order'[i])}
       /\ Unsettled = {i \in DOMAIN order : ~Gone(gateOf, active, queue, order[i])}
  BY UnsettledIs, UnsettledIsNext
<1>6. Gone(gateOf', active', queue', o)
  BY <1>1, <1>2, <1>4 DEF Gone
<1>7. ~Gone(gateOf, active, queue, o)
  BY <1>1 DEF Gone, Here
<1>8. ASSUME NEW p, p # o
      PROVE  Gone(gateOf', active', queue', p) <=> Gone(gateOf, active, queue, p)
  <2>1. \A h \in Gate : p \in Here(active'[h], queue'[h]) <=> p \in Here(active[h], queue[h])
    BY <1>4, <1>8
  <2> QED  BY <2>1, <1>1 DEF Gone
<1>9. Unsettled' = {i \in 1..Len(order) : ~Gone(gateOf', active', queue', order[i])}
  BY <1>1, <1>5
<1>10. Unsettled = {i \in 1..Len(order) : ~Gone(gateOf, active, queue, order[i])}
  BY <1>1, <1>5
<1>11. \A i \in 1..Len(order) : i # m => order[i] # o
  BY <1>3 DEF OrderInv, Distinct
<1>12. \A i \in 1..Len(order) : i # m => 
             (Gone(gateOf', active', queue', order[i]) <=> Gone(gateOf, active, queue, order[i]))
  BY <1>8, <1>11
<1>13. m \in Unsettled
  BY <1>3, <1>7, <1>10
<1>14. Gone(gateOf', active', queue', order[m])
  BY <1>3, <1>6, <1>1
<1>15. Unsettled' = Unsettled \ {m}
  BY <1>9, <1>10, <1>12, <1>14
<1> QED  BY <1>1, <1>3, <1>13, <1>15

LEMMA SeqIsFunction == \A T : \A s \in Seq(T) : s = [k \in DOMAIN s |-> s[k]]
OBVIOUS

(* What is left of a sequence without its jth element.                     *)
LEMMA RemovedAt ==
    ASSUME NEW s \in Seq(Op), NEW j \in 1..Len(s)
    PROVE  SubSeq(s, 1, j - 1) \o SubSeq(s, j + 1, Len(s)) =
               [k \in 1..(Len(s) - 1) |-> IF k < j THEN s[k] ELSE s[k + 1]]
<1> DEFINE a == SubSeq(s, 1, j - 1)
           b == SubSeq(s, j + 1, Len(s))
<1>1. Len(s) \in Nat /\ j \in Nat
  OBVIOUS
<1>2. a \in Seq(Op) /\ Len(a) = j - 1 /\ \A k \in 1..(j - 1) : a[k] = s[k]
  BY <1>1
<1>3. b \in Seq(Op) /\ Len(b) = Len(s) - j /\ \A k \in 1..(Len(s) - j) : b[k] = s[k + j]
  BY <1>1
<1> HIDE DEF a, b
<1>4. /\ a \o b \in Seq(Op) /\ DOMAIN (a \o b) = 1..(Len(s) - 1)
      /\ \A k \in 1..(Len(s) - 1) : (a \o b)[k] = IF k <= Len(a) THEN a[k] ELSE b[k - Len(a)]
  <2>1. /\ a \o b \in Seq(Op) /\ Len(a \o b) = Len(a) + Len(b)
        /\ \A k \in 1..(Len(a) + Len(b)) : (a \o b)[k] = IF k <= Len(a) THEN a[k] ELSE b[k - Len(a)]
    <3>1. a \in Seq(Op) /\ b \in Seq(Op)
      BY <1>2, <1>3
    <3> QED  BY ONLY <3>1
  <2>2. Len(a) + Len(b) = Len(s) - 1
    BY <1>1, <1>2, <1>3
  <2>3. DOMAIN (a \o b) = 1..Len(a \o b)
    BY <2>1
  <2> QED  BY ONLY <2>1, <2>2, <2>3
<1>5. ASSUME NEW k \in 1..(Len(s) - 1)
      PROVE  (a \o b)[k] = IF k < j THEN s[k] ELSE s[k + 1]
  <2>1. CASE k < j
    <3>1. k <= Len(a) /\ k \in 1..(j - 1)
      BY <2>1, <1>1, <1>2
    <3> QED  BY <2>1, <3>1, <1>2, <1>4
  <2>2. CASE ~(k < j)
    <3>1. ~(k <= Len(a)) /\ k - Len(a) \in 1..(Len(s) - j) /\ (k - Len(a)) + j = k + 1
      BY <2>2, <1>1, <1>2
    <3> QED  BY <2>2, <3>1, <1>3, <1>4
  <2> QED  BY <2>1, <2>2
<1>6. a \o b = [k \in 1..(Len(s) - 1) |-> (a \o b)[k]]
  <2>1. a \o b = [k \in DOMAIN (a \o b) |-> (a \o b)[k]]
    BY <1>4, SeqIsFunction, Zenon
  <2> QED  BY <2>1, <1>4
<1>7. a \o b = [k \in 1..(Len(s) - 1) |-> IF k < j THEN s[k] ELSE s[k + 1]]
  BY <1>5, <1>6
<1> QED  BY <1>7 DEF a, b

LEMMA SubmitKeepsLine ==
    ASSUME IInv, OrderInv, LineInv, NEW o \in Op, NEW g \in Gate, Submit(o, g)
    PROVE  LineInv' /\ Line!Submit(o)
<1>1. PICK n, f : Counts(f, n, Unsettled)
  BY DEF LineInv
<1>2. /\ Unsettled' = Unsettled \cup {Len(order) + 1}
      /\ order \in Seq(Op) /\ order' = Append(order, o)
      /\ \A i \in 1..Len(order) : order[i] # o
  BY SubmitUnsettled
<1>3. Unsettled \subseteq 1..Len(order)
  BY <1>2 DEF Unsettled
<1>4. /\ n \in Nat /\ f \in [1..n -> Unsettled] /\ Len(order) \in Nat
      /\ \A k \in 1..n : f[k] \in 1..Len(order)
  <2>1. n \in Nat /\ f \in [1..n -> Unsettled] /\ Len(order) \in Nat
    BY <1>1, <1>2 DEF Counts
  <2>2. \A k \in 1..n : f[k] \in Unsettled
    BY <2>1
  <2> QED  BY <2>1, <2>2, <1>3
<1> DEFINE h == [k \in 1..(n + 1) |-> IF k = n + 1 THEN Len(order) + 1 ELSE f[k]]
<1> HIDE DEF Unsettled
<1>5. Counts(h, n + 1, Unsettled')
  <2>1. Unsettled \subseteq Nat /\ Len(order) + 1 \in Nat /\ \A i \in Unsettled : i < Len(order) + 1
    BY <1>3, <1>4
  <2> QED  BY <2>1, <1>1, <1>2, CountsOneMore
<1>6. Unfinished = [k \in 1..n |-> order[f[k]]]
  BY <1>1, UnfinishedIs
<1>7. Unfinished' = [k \in 1..(n + 1) |-> order'[h[k]]]
  <2> HIDE DEF h
  <2> QED  BY <1>5, SubmitIInv, UnfinishedIsNext
<1>8. ASSUME NEW k \in 1..(n + 1) PROVE order'[h[k]] = IF k = n + 1 THEN o ELSE order[f[k]]
  <2>1. CASE k = n + 1
    <3>1. h[k] = Len(order) + 1
      BY <2>1
    <3> QED  BY <2>1, <3>1, <1>2
  <2>2. CASE k # n + 1
    <3>1. k \in 1..n
      BY <2>2, <1>4
    <3>2. h[k] = f[k] /\ f[k] \in 1..Len(order)
      BY <2>2, <3>1, <1>4
    <3> QED  BY <2>2, <3>2, <1>2
  <2> QED  BY <2>1, <2>2
<1> HIDE DEF h
<1>9. \A k \in 1..n : order[f[k]] \in Op /\ order[f[k]] # o
  BY <1>2, <1>4
<1>10. Unfinished \in Seq(Op) /\ Len(Unfinished) = n
  BY <1>4, <1>6, <1>9
<1>11. Unfinished' = Append(Unfinished, o)
  <2>1. Unfinished' = [k \in 1..(n + 1) |-> IF k = n + 1 THEN o ELSE order[f[k]]]
    BY <1>7, <1>8
  <2>2. Append(Unfinished, o) = [k \in 1..(n + 1) |-> IF k = n + 1 THEN o ELSE Unfinished[k]]
    <3> HIDE DEF Unfinished
    <3>1. /\ DOMAIN Append(Unfinished, o) = 1..(n + 1)
          /\ Append(Unfinished, o) \in Seq(Op)
          /\ \A k \in 1..(n + 1) :
                Append(Unfinished, o)[k] = IF k = n + 1 THEN o ELSE Unfinished[k]
      BY <1>4, <1>10
    <3>2. Append(Unfinished, o) =
              [k \in DOMAIN Append(Unfinished, o) |-> Append(Unfinished, o)[k]]
      BY <3>1, SeqIsFunction, Zenon
    <3> QED  BY ONLY <3>1, <3>2
  <2>3. \A k \in 1..(n + 1) : k # n + 1 => Unfinished[k] = order[f[k]]
    BY <1>4, <1>6
  <2> QED  BY <2>1, <2>2, <2>3
<1>12. ~Line!Contains(Unfinished, o)
  BY <1>4, <1>6, <1>9, <1>10 DEF Line!Contains
<1>13. ASSUME NEW p \in Op, gateOf'[p] # NoGate PROVE \E i \in DOMAIN order' : order'[i] = p
  <2>1. CASE p = o
    <3>1. Len(order) + 1 \in DOMAIN order' /\ order'[Len(order) + 1] = o
      BY <1>2, <1>4
    <3> QED  BY <2>1, <3>1
  <2>2. CASE p # o
    <3>1. gateOf[p] # NoGate
      BY <1>13, <2>2 DEF Submit, IInv, TypeOK
    <3>2. PICK i \in DOMAIN order : order[i] = p
      BY <3>1 DEF LineInv
    <3>3. i \in DOMAIN order' /\ order'[i] = order[i]
      BY <1>2, <3>2
    <3> QED  BY <3>2, <3>3
  <2> QED  BY <2>1, <2>2
<1>14. LineInv'
  BY <1>5, <1>13 DEF LineInv
<1> QED  BY <1>11, <1>12, <1>14 DEF Line!Submit

LEMMA SettleKeepsLine ==
    ASSUME IInv, OrderInv, LineInv, NEW o \in Op, NEW g \in Gate, Settle(o, g)
    PROVE  LineInv' /\ Line!Settle(o)
<1>1. PICK n, f : Counts(f, n, Unsettled)
  BY DEF LineInv
<1>2. /\ order' = order /\ order \in Seq(Op)
      /\ \E m \in Unsettled : order[m] = o /\ Unsettled' = Unsettled \ {m}
  BY SettleUnsettled
<1>3. Unsettled \subseteq 1..Len(order) /\ \A i \in Unsettled : ~Settled(order[i])
  BY <1>2 DEF Unsettled
<1> HIDE DEF Unsettled
<1>4. /\ n \in Nat /\ f \in [1..n -> Unsettled] /\ \A i \in Unsettled : \E k \in 1..n : f[k] = i
      /\ \A k, l \in 1..n : k < l => f[k] < f[l]
  BY <1>1 DEF Counts
<1>5. PICK j \in 1..n : order[f[j]] = o /\ Unsettled' = Unsettled \ {f[j]}
  BY <1>2, <1>4
<1> DEFINE h == [k \in 1..(n - 1) |-> IF k < j THEN f[k] ELSE f[k + 1]]
<1>6. Counts(h, n - 1, Unsettled')
  <2>1. Unsettled \subseteq Nat
    BY <1>3
  <2> QED  BY <2>1, <1>1, <1>5, CountsOneLess
<1>7. Unfinished = [k \in 1..n |-> order[f[k]]]
  BY <1>1, UnfinishedIs
<1>8. Unfinished' = [k \in 1..(n - 1) |-> order[h[k]]]
  <2> HIDE DEF h
  <2>1. Unfinished' = [k \in 1..(n - 1) |-> order'[h[k]]]
    BY <1>6, SettleIInv, UnfinishedIsNext
  <2> QED  BY <2>1, <1>2
<1>9. \A k \in 1..n : order[f[k]] \in Op /\ f[k] \in 1..Len(order) /\ ~Settled(order[f[k]])
  <2> TAKE k \in 1..n
  <2>1. f[k] \in Unsettled
    BY <1>4
  <2>2. f[k] \in 1..Len(order) /\ ~Settled(order[f[k]])
    BY <2>1, <1>3
  <2> QED  BY <2>2, <1>2
<1>10. Unfinished \in Seq(Op) /\ Len(Unfinished) = n /\ DOMAIN Unfinished = 1..n
  BY <1>4, <1>7, <1>9
<1>11. Unfinished' = Line!RemoveAt(Unfinished, j)
  <2>1. \A k \in 1..(n - 1) :
            Unfinished'[k] = IF k < j THEN Unfinished[k] ELSE Unfinished[k + 1]
    <3> TAKE k \in 1..(n - 1)
    <3>1. k \in 1..n /\ k + 1 \in 1..n
      BY <1>4
    <3>2. Unfinished'[k] = order[h[k]]
      BY <1>8
    <3>3. h[k] = IF k < j THEN f[k] ELSE f[k + 1]
      OBVIOUS
    <3> HIDE DEF h
    <3> QED  BY <1>7, <3>1, <3>2, <3>3
  <2>2. DOMAIN Unfinished' = 1..(n - 1) /\ Unfinished' = [k \in 1..(n - 1) |-> Unfinished'[k]]
    BY <1>8
  <2>3. Unfinished' = [k \in 1..(n - 1) |->
                          IF k < j THEN Unfinished[k] ELSE Unfinished[k + 1]]
    <3> HIDE DEF h
    <3> QED  BY ONLY <2>1, <2>2
  <2>4. Line!RemoveAt(Unfinished, j) = [k \in 1..(n - 1) |->
                          IF k < j THEN Unfinished[k] ELSE Unfinished[k + 1]]
    BY <1>10, RemovedAt DEF Line!RemoveAt
  <2> QED  BY ONLY <2>3, <2>4
<1>12. Line!RunsAt(o, j)
  <2>1. Unfinished[j] = o
    BY <1>5, <1>7
  <2>2. ASSUME NEW i \in 1..(j - 1) PROVE ~Line!Conflict(Unfinished[i], o)
    <3>1. i \in 1..n /\ i < j /\ f[i] < f[j]
      BY <1>4
    <3>2. Unfinished[i] = order[f[i]]
      BY <1>7, <3>1
    <3>3. Started(o)
      <4>1. \A gg \in Gate : gg # g => queue[gg] = <<>>
        BY DEF IInv, TypeOK, Settle
      <4>2. \A k \in 1..Len(queue[g]) : queue[g][k] # o
        BY DEF IInv, TypeOK, Settle
      <4>3. gateOf[o] # NoGate
        BY GateAssumption DEF Settle
      <4> QED  BY <4>1, <4>2, <4>3 DEF Started, Queued
    <3>4. ~Conflict(order[f[i]], order[f[j]])
      BY <3>1, <3>3, <1>5, <1>9, OrderedByInvariant DEF ConflictsInOrder
    <3> QED  BY <3>2, <3>4, <1>5 DEF Conflict, Line!Conflict
  <2> QED  BY <2>1, <2>2 DEF Line!RunsAt
<1>13. Line!Settle(o)
  BY <1>10, <1>11, <1>12 DEF Line!Settle
<1>14. LineInv'
  <2>1. gateOf' = gateOf
    BY DEF Settle
  <2> HIDE DEF h
  <2> QED  BY <2>1, <1>2, <1>6 DEF LineInv
<1> QED  BY <1>13, <1>14

(* The gate implements the line: every enqueue takes the end of it, every  *)
(* settlement is of an operation that nothing before it conflicts with,    *)
(* and nothing else changes it (the safety part of KeepsTheLine).          *)
THEOREM GateKeepsTheLine == Spec => Line!Spec
<1>1. Init => LineInv /\ Line!Init
  BY LineStarts
<1>2. IInv /\ OrderInv /\ LineInv /\ [Next]_vars => LineInv' /\ [Line!Next]_Unfinished
  <2> SUFFICES ASSUME IInv, OrderInv, LineInv, [Next]_vars
               PROVE  LineInv' /\ [Line!Next]_Unfinished
    OBVIOUS
  <2>1. CASE UNCHANGED vars
    <3>1. Unsettled' = Unsettled /\ UNCHANGED <<order, gateOf>>
      BY <2>1 DEF vars, Unsettled, Settled, Queued, Running
    <3> QED  BY <3>1 DEF LineInv, Unfinished
  <2>2. ASSUME NEW o \in Op, NEW g \in Gate, Submit(o, g)
        PROVE  LineInv' /\ Line!Next
    BY <2>2, SubmitKeepsLine DEF Line!Next, Op
  <2>3. ASSUME NEW o \in Op, NEW g \in Gate, Settle(o, g)
        PROVE  LineInv' /\ Line!Next
    BY <2>3, SettleKeepsLine DEF Line!Next, Op
  <2> QED
    BY <2>1, <2>2, <2>3 DEF Next
<1> QED
  BY <1>1, <1>2, OrderAlways, PTL DEF Spec, Line!Spec
=============================================================================
