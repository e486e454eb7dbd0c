------------------------ MODULE LiveTurnHub_proofs ------------------------
(***************************************************************************)
(* Proofs about LiveTurnHub, for any turns, viewers, subagents and caps.   *)
(***************************************************************************)
EXTENDS LiveTurnHub, SequenceTheorems, TLAPS, WellFoundedInduction

(* Induction over the naturals, in a form that needs no operator.          *)
LEMMA Induction ==
    ASSUME NEW T, T \subseteq Nat, 0 \in T, \A n \in T : n + 1 \in T
    PROVE  T = Nat
<1> DEFINE R == {ss \in Nat \X Nat : ss[1] < ss[2]}
           Rest == Nat \ T
<1>1. IsWellFoundedOn(R, Nat)
  BY NatLessThanWellFounded DEF OpToRel
<1>2. SUFFICES ASSUME Rest # {} PROVE FALSE
  OBVIOUS
<1>3. PICK x \in Rest : \A y \in Rest : ~(<<y, x>> \in R)
  <2> HIDE DEF R
  <2>1. Rest \subseteq Nat
    OBVIOUS
  <2> HIDE DEF Rest
  <2> QED
    BY <1>1, <1>2, <2>1, WFMin
<1>4. x \in Nat \ {0} /\ x - 1 \in Nat /\ <<x - 1, x>> \in R
  OBVIOUS
<1>5. x - 1 \in T
  BY <1>3, <1>4
<1> QED
  BY <1>4, <1>5

(* A recursion over an interval has a solution, and keeps its type.        *)
Iterates(g, V, b, step, N) ==
    /\ g \in [0..N -> V]
    /\ g[0] = b
    /\ \A i \in 1..N : g[i] = step[<<i, g[i - 1]>>]

LEMMA Iteration ==
    ASSUME NEW V, NEW b \in V, NEW step \in [Nat \X V -> V], NEW N \in Nat
    PROVE  \E g : Iterates(g, V, b, step, N)
<1> DEFINE T == {n \in Nat : \E g : Iterates(g, V, b, step, n)}
<1>1. 0 \in T
  <2> DEFINE g == [i \in 0..0 |-> b]
  <2>1. Iterates(g, V, b, step, 0)
    BY DEF Iterates
  <2> QED
    BY <2>1
<1>2. ASSUME NEW n \in T PROVE n + 1 \in T
  <2>1. PICK g : Iterates(g, V, b, step, n)
    OBVIOUS
  <2> DEFINE h == [i \in 0..(n + 1) |-> IF i = n + 1 THEN step[<<n + 1, g[n]>>] ELSE g[i]]
  <2> USE DEF Iterates
  <2>2. h \in [0..(n + 1) -> V] /\ h[0] = b
    BY <2>1
  <2>3. ASSUME NEW i \in 1..(n + 1)
        PROVE  h[i] = step[<<i, h[i - 1]>>]
    <3>1. CASE i = n + 1
      <4>1. n \in 0..(n + 1) /\ n # n + 1 /\ i - 1 = n /\ i # 0
        BY <3>1
      <4>2. h[n] = g[n]
        BY <4>1
      <4> QED
        BY <3>1, <4>1, <4>2
    <3>2. CASE i # n + 1
      <4>1. i \in 1..n /\ h[i] = g[i] /\ h[i - 1] = g[i - 1]
        BY <3>2
      <4> QED
        BY <2>1, <4>1
    <3> QED
      BY <3>1, <3>2
  <2>4. Iterates(h, V, b, step, n + 1)
    BY <2>2, <2>3
  <2> HIDE DEF h, Iterates
  <2> QED
    BY <2>4
<1>3. T = Nat
  <2>1. T \subseteq Nat
    OBVIOUS
  <2> HIDE DEF T
  <2> QED
    BY <1>1, <1>2, <2>1, Induction
<1> QED
  BY <1>3

-----------------------------------------------------------------------------
(* Byte counts.                                                            *)
LEMMA FrameBytesType == ASSUME NEW f \in FrameType PROVE FrameBytes(f) \in Nat
<1>1. f.data \in Seq(Nat)
  BY DEF FrameType
<1>2. Len(f.data) \in Nat
  BY <1>1
<1>3. Len(f.data) + 2 \in Nat /\ Len(f.data) + 1 \in Nat
  BY <1>2
<1> QED
  BY <1>3 DEF FrameBytes

(* The running total that TotalBytes is the last value of.                 *)
Totals(s, u) ==
    /\ u \in [0..Len(s) -> Nat]
    /\ u[0] = 0
    /\ \A i \in 1..Len(s) : u[i] = u[i - 1] + FrameBytes(s[i])

LEMMA TotalsExist ==
    ASSUME NEW s \in Seq(FrameType)
    PROVE  \E u : Totals(s, u) /\ TotalBytes(s) = u[Len(s)]
<1> DEFINE n == Len(s)
           step == [p \in Nat \X Nat |-> IF p[1] \in 1..n THEN p[2] + FrameBytes(s[p[1]]) ELSE p[2]]
           Eq(u) == u = [i \in 0..Len(s) |-> IF i = 0 THEN 0 ELSE u[i - 1] + FrameBytes(s[i])]
           w == CHOOSE u : Eq(u)
<1>1. n \in Nat /\ \A i \in 1..n : FrameBytes(s[i]) \in Nat
  BY FrameBytesType
<1>2. step \in [Nat \X Nat -> Nat]
  BY <1>1
<1>3. PICK g : Iterates(g, Nat, 0, step, n)
  <2>1. 0 \in Nat
    OBVIOUS
  <2> HIDE DEF step, n
  <2> QED
    BY <1>1, <1>2, <2>1, Iteration
<1> USE DEF Iterates
<1>4. ASSUME NEW i \in 0..n, i # 0
      PROVE  step[<<i, g[i - 1]>>] = g[i - 1] + FrameBytes(s[i])
  <2>1. i \in Nat /\ i \in 1..n /\ i - 1 \in 0..n
    BY <1>1, <1>4
  <2>2. g[i - 1] \in Nat
    BY <1>3, <2>1
  <2> QED
    BY <2>1, <2>2
<1>5. Eq(g)
  <2> HIDE DEF step
  <2>1. g = [i \in 0..n |-> g[i]]
    BY <1>3
  <2>2. ASSUME NEW i \in 0..n
        PROVE  g[i] = IF i = 0 THEN 0 ELSE g[i - 1] + FrameBytes(s[i])
    <3>1. i # 0 => i \in 1..n
      BY <1>1
    <3> QED
      BY <1>3, <1>4, <3>1
  <2> QED
    BY <2>1, <2>2
<1>6. Eq(w)
  <2> HIDE DEF Eq
  <2> QED
    BY <1>5
<1>7. TotalBytes(s) = w[Len(s)]
  BY DEF TotalBytes
<1>8. ASSUME NEW u, Eq(u) PROVE Eq(u) => u \in [0..n -> Nat]
  <2> DEFINE T == {i \in Nat : i <= n => u[i] \in Nat}
  <2>1. \A i \in 0..n : u[i] = IF i = 0 THEN 0 ELSE u[i - 1] + FrameBytes(s[i])
    BY <1>8
  <2>2. 0 \in T
    BY <1>1, <2>1
  <2>3. ASSUME NEW i \in T PROVE i + 1 \in T
    BY <1>1, <2>1
  <2>4. T = Nat
    <3>1. T \subseteq Nat OBVIOUS
    <3> HIDE DEF T
    <3> QED BY <2>2, <2>3, <3>1, Induction
  <2>5. \A i \in 0..n : u[i] \in Nat
    BY <1>1, <2>4
  <2>6. DOMAIN u = 0..n /\ u = [i \in 0..n |-> u[i]]
    BY <1>8
  <2> QED
    BY <2>5, <2>6
<1>9. Totals(s, w)
  <2> HIDE DEF w
  <2>1. w \in [0..n -> Nat]
    <3> HIDE DEF Eq
    <3> QED BY <1>6, <1>8
  <2>2. \A i \in 0..n : w[i] = IF i = 0 THEN 0 ELSE w[i - 1] + FrameBytes(s[i])
    BY <1>6
  <2>3. 0 \in 0..n /\ \A i \in 1..n : i \in 0..n /\ i # 0
    BY <1>1
  <2> QED
    BY <2>1, <2>2, <2>3 DEF Totals
<1> QED
  <2> HIDE DEF w
  <2> QED BY <1>7, <1>9

(* Equal stretches of two sequences add the same number of bytes.          *)
SameStretch(s, r, a, b, m) ==
    /\ a + m <= Len(s) /\ b + m <= Len(r)
    /\ \A k \in 1..m : r[b + k] = s[a + k]

LEMMA SameDifference ==
    ASSUME NEW p \in Nat, NEW q \in Nat, NEW x \in Nat, NEW y \in Nat, NEW d \in Nat,
           p - x = q - y
    PROVE  (p + d) - x = (q + d) - y
  OBVIOUS

LEMMA Replaced ==
    ASSUME NEW p \in Nat, NEW q \in Nat, NEW x \in Nat, NEW d \in Nat, NEW e \in Nat,
           p - (x + e) = q - (x + d)
    PROVE  p = (q - d) + e
  OBVIOUS

LEMMA EqualStretches ==
    ASSUME NEW s \in Seq(FrameType), NEW r \in Seq(FrameType), NEW u, NEW w,
           Totals(s, u), Totals(r, w), NEW a \in Nat, NEW b \in Nat, NEW m \in Nat,
           SameStretch(s, r, a, b, m)
    PROVE  w[b + m] - w[b] = u[a + m] - u[a]
<1> USE DEF SameStretch
<1> DEFINE T == {k \in Nat : k <= m => w[b + k] - w[b] = u[a + k] - u[a]}
<1>1. Len(s) \in Nat /\ Len(r) \in Nat
  OBVIOUS
<1>2. ASSUME NEW k \in 0..m
      PROVE  w[b + k] \in Nat /\ u[a + k] \in Nat
  <2>1. b + k \in 0..Len(r) /\ a + k \in 0..Len(s)
    BY <1>1
  <2> QED
    BY <2>1 DEF Totals
<1>3. 0 \in T
  <2>1. b + 0 = b /\ a + 0 = a /\ 0 \in 0..m
    OBVIOUS
  <2>2. w[b + 0] \in Nat /\ u[a + 0] \in Nat
    BY <1>2, <2>1
  <2>3. w[b + 0] - w[b] = 0
    BY <2>1, <2>2
  <2>4. u[a + 0] - u[a] = 0
    BY <2>1, <2>2
  <2> QED
    BY <2>3, <2>4
<1>5. ASSUME NEW k \in T PROVE k + 1 \in T
  <2> SUFFICES ASSUME k + 1 <= m
               PROVE  w[b + (k + 1)] - w[b] = u[a + (k + 1)] - u[a]
    OBVIOUS
  <2>1. w[b + k] - w[b] = u[a + k] - u[a]
    OBVIOUS
  <2>2. /\ b + (k + 1) \in 1..Len(r) /\ a + (k + 1) \in 1..Len(s)
        /\ (b + (k + 1)) - 1 = b + k /\ (a + (k + 1)) - 1 = a + k
    BY <1>1
  <2>3. w[b + (k + 1)] = w[b + k] + FrameBytes(r[b + (k + 1)])
    BY <2>2 DEF Totals
  <2>4. u[a + (k + 1)] = u[a + k] + FrameBytes(s[a + (k + 1)])
    BY <2>2 DEF Totals
  <2>5. r[b + (k + 1)] = s[a + (k + 1)]
    OBVIOUS
  <2>6. FrameBytes(s[a + (k + 1)]) \in Nat
    BY <2>2, FrameBytesType
  <2>7. /\ w[b + 0] \in Nat /\ u[a + 0] \in Nat /\ w[b + k] \in Nat /\ u[a + k] \in Nat
        /\ b + 0 = b /\ a + 0 = a
    <3>1. 0 \in 0..m /\ k \in 0..m /\ b + 0 = b /\ a + 0 = a
      OBVIOUS
    <3> QED
      BY <1>2, <3>1
  <2>8. w[b] \in Nat /\ u[a] \in Nat
    BY <2>7
  <2>9. w[b + (k + 1)] = w[b + k] + FrameBytes(s[a + (k + 1)])
    BY <2>3, <2>5
  <2> QED
    BY <2>1, <2>4, <2>6, <2>7, <2>8, <2>9, SameDifference, SMTT(60)
<1>6. T = Nat
  <2>1. T \subseteq Nat
    OBVIOUS
  <2> HIDE DEF T
  <2> QED
    BY <1>3, <1>5, <2>1, Induction
<1>7. m \in T
  BY <1>6
<1>8. m <= m
  OBVIOUS
<1> QED
  BY <1>7, <1>8

LEMMA BytesType == ASSUME NEW s \in Seq(FrameType) PROVE TotalBytes(s) \in Nat
<1>1. PICK u : Totals(s, u) /\ TotalBytes(s) = u[Len(s)]
  BY TotalsExist
<1>2. Len(s) \in 0..Len(s)
  OBVIOUS
<1> QED
  BY <1>1, <1>2 DEF Totals

LEMMA BytesEmpty == TotalBytes(<<>>) = 0
<1>1. <<>> \in Seq(FrameType) /\ Len(<<>>) = 0
  OBVIOUS
<1>2. PICK u : Totals(<<>>, u) /\ TotalBytes(<<>>) = u[0]
  BY <1>1, TotalsExist
<1> QED
  BY <1>2 DEF Totals

LEMMA BytesAppend ==
    ASSUME NEW s \in Seq(FrameType), NEW f \in FrameType
    PROVE  TotalBytes(Append(s, f)) = TotalBytes(s) + FrameBytes(f)
<1> DEFINE r == Append(s, f)
           n == Len(s)
<1>1. r \in Seq(FrameType) /\ Len(r) = n + 1 /\ n \in Nat /\ r[n + 1] = f
      /\ \A k \in 1..n : r[k] = s[k]
  OBVIOUS
<1> HIDE DEF r
<1>2. PICK u : Totals(s, u) /\ TotalBytes(s) = u[n]
  BY TotalsExist
<1>3. PICK w : Totals(r, w) /\ TotalBytes(r) = w[n + 1]
  BY <1>1, TotalsExist
<1>4. w[0 + n] - w[0] = u[0 + n] - u[0]
  <2>1. SameStretch(s, r, 0, 0, n) /\ 0 \in Nat
    BY <1>1 DEF SameStretch
  <2> HIDE DEF n
  <2> QED
    BY <1>1, <1>2, <1>3, <2>1, EqualStretches
<1>5. w[n] = u[n] /\ w[n + 1] = w[(n + 1) - 1] + FrameBytes(r[n + 1])
  BY <1>1, <1>2, <1>3, <1>4 DEF Totals
<1> QED
  BY <1>1, <1>2, <1>3, <1>5 DEF r

LEMMA BytesTail ==
    ASSUME NEW s \in Seq(FrameType), s # <<>>
    PROVE  TotalBytes(s) = FrameBytes(Head(s)) + TotalBytes(Tail(s))
<1> DEFINE r == Tail(s)
           n == Len(s) - 1
<1>1. r \in Seq(FrameType) /\ Len(r) = n /\ n \in Nat /\ Len(s) = 1 + n
      /\ \A k \in 1..n : r[k] = s[1 + k]
  OBVIOUS
<1> HIDE DEF r, n
<1>2. PICK u : Totals(s, u) /\ TotalBytes(s) = u[1 + n]
  BY <1>1, TotalsExist
<1>3. PICK w : Totals(r, w) /\ TotalBytes(r) = w[n]
  BY <1>1, TotalsExist
<1>4. w[0 + n] - w[0] = u[1 + n] - u[1]
  <2>1. SameStretch(s, r, 1, 0, n) /\ 0 \in Nat /\ 1 \in Nat
    BY <1>1 DEF SameStretch
  <2> QED
    BY <1>1, <1>2, <1>3, <2>1, EqualStretches
<1>5. u[1] = u[1 - 1] + FrameBytes(s[1]) /\ u[0] = 0 /\ w[0] = 0
  BY <1>1, <1>2, <1>3 DEF Totals
<1>6. w[n] \in Nat /\ u[1] \in Nat /\ u[1 + n] \in Nat /\ FrameBytes(s[1]) \in Nat
  BY <1>1, <1>2, <1>3, FrameBytesType DEF Totals
<1> QED
  BY <1>1, <1>2, <1>3, <1>4, <1>5, <1>6 DEF r

(* A frame that is replaced changes the sum by the difference.             *)
LEMMA BytesReplace ==
    ASSUME NEW s \in Seq(FrameType), NEW i \in 1..Len(s), NEW g \in FrameType
    PROVE  TotalBytes([s EXCEPT ![i] = g]) = (TotalBytes(s) - FrameBytes(s[i])) + FrameBytes(g)
<1> DEFINE r == [s EXCEPT ![i] = g]
           n == Len(s)
           m == n - i
<1>1. /\ r \in Seq(FrameType) /\ Len(r) = n /\ n \in Nat /\ m \in Nat /\ i \in Nat /\ i - 1 \in Nat
      /\ i + m = n /\ r[i] = g /\ \A k \in 1..n : k # i => r[k] = s[k]
  OBVIOUS
<1> HIDE DEF r, n, m
<1>2. PICK u : Totals(s, u) /\ TotalBytes(s) = u[n]
  BY <1>1, TotalsExist DEF n
<1>3. PICK w : Totals(r, w) /\ TotalBytes(r) = w[n]
  BY <1>1, TotalsExist
<1>4. Len(s) = n /\ 0 \in Nat
  BY DEF n
<1>5. w[0 + (i - 1)] - w[0] = u[0 + (i - 1)] - u[0]
  <2>1. SameStretch(s, r, 0, 0, i - 1)
    BY <1>1, <1>4 DEF SameStretch
  <2> QED
    BY <1>1, <1>2, <1>3, <1>4, <2>1, EqualStretches
<1>6. w[i + m] - w[i] = u[i + m] - u[i]
  <2>1. SameStretch(s, r, i, i, m)
    BY <1>1, <1>4 DEF SameStretch
  <2> QED
    BY <1>1, <1>2, <1>3, <2>1, EqualStretches
<1>7. u[i] = u[i - 1] + FrameBytes(s[i]) /\ w[i] = w[i - 1] + FrameBytes(g) /\ u[0] = 0 /\ w[0] = 0
  BY <1>1, <1>2, <1>3, <1>4 DEF Totals
<1>8. /\ w[n] \in Nat /\ u[n] \in Nat /\ u[i] \in Nat /\ w[i] \in Nat
      /\ u[i - 1] \in Nat /\ w[i - 1] \in Nat
      /\ FrameBytes(s[i]) \in Nat /\ FrameBytes(g) \in Nat
  BY <1>1, <1>2, <1>3, <1>4, FrameBytesType DEF Totals
<1>9. w[i - 1] = u[i - 1]
  <2>1. 0 + (i - 1) = i - 1
    BY <1>1
  <2> QED
    BY <1>5, <1>7, <1>8, <2>1
<1>10. w[n] - w[i] = u[n] - u[i]
  BY <1>1, <1>6
<1>11. w[n] - (u[i - 1] + FrameBytes(g)) = u[n] - (u[i - 1] + FrameBytes(s[i]))
  BY <1>7, <1>9, <1>10
<1>12. w[n] = (u[n] - FrameBytes(s[i])) + FrameBytes(g)
  BY <1>8, <1>11, Replaced, SMTT(60)
<1> QED
  BY <1>2, <1>3, <1>12 DEF r

-----------------------------------------------------------------------------
(* Texts.                                                                  *)
LEMMA FrameFields ==
    ASSUME NEW f \in FrameType
    PROVE  f.data \in Seq(Nat) /\ f.call \in Calls
  BY DEF FrameType, Calls

(* The running text that Text is the last value of.                        *)
Texts(s, c, u) ==
    /\ u \in [0..Len(s) -> Seq(Nat)]
    /\ u[0] = <<>>
    /\ \A i \in 1..Len(s) :
         u[i] = IF s[i].call = c THEN u[i - 1] \o s[i].data ELSE u[i - 1]

LEMMA TextsExist ==
    ASSUME NEW s \in Seq(FrameType), NEW c
    PROVE  \E u : Texts(s, c, u) /\ Text(s, c) = u[Len(s)]
<1> DEFINE n == Len(s)
           step == [p \in Nat \X Seq(Nat) |-> IF p[1] \in 1..n /\ s[p[1]].call = c
                                             THEN p[2] \o s[p[1]].data ELSE p[2]]
           Eq(u) == u = [i \in 0..Len(s) |-> IF i = 0 THEN <<>>
                                            ELSE IF s[i].call = c THEN u[i - 1] \o s[i].data
                                                 ELSE u[i - 1]]
           w == CHOOSE u : Eq(u)
<1>1. n \in Nat /\ \A i \in 1..n : s[i].data \in Seq(Nat)
  BY FrameFields
<1>2. step \in [Nat \X Seq(Nat) -> Seq(Nat)]
  <2>1. ASSUME NEW p \in Nat \X Seq(Nat)
        PROVE  (IF p[1] \in 1..n /\ s[p[1]].call = c
                THEN p[2] \o s[p[1]].data ELSE p[2]) \in Seq(Nat)
    <3>1. p[1] \in Nat /\ p[2] \in Seq(Nat)
      OBVIOUS
    <3> QED
      BY <1>1, <3>1
  <2> QED
    BY <2>1
<1>3. PICK g : Iterates(g, Seq(Nat), <<>>, step, n)
  <2>1. <<>> \in Seq(Nat)
    OBVIOUS
  <2> HIDE DEF step, n
  <2> QED
    BY <1>1, <1>2, <2>1, Iteration
<1>4. ASSUME NEW i \in 0..n, i # 0
      PROVE  step[<<i, g[i - 1]>>] = IF s[i].call = c THEN g[i - 1] \o s[i].data ELSE g[i - 1]
  <2>1. i \in Nat /\ i \in 1..n /\ i - 1 \in 0..n
    BY <1>1, <1>4
  <2>2. g[i - 1] \in Seq(Nat)
    BY <1>3, <2>1 DEF Iterates
  <2> QED
    BY <2>1, <2>2
<1>5. Eq(g)
  <2> HIDE DEF step
  <2>1. g = [i \in 0..n |-> g[i]]
    BY <1>3 DEF Iterates
  <2>2. ASSUME NEW i \in 0..n
        PROVE  g[i] = IF i = 0 THEN <<>>
                      ELSE IF s[i].call = c THEN g[i - 1] \o s[i].data ELSE g[i - 1]
    <3>1. i # 0 => i \in 1..n
      BY <1>1
    <3> QED
      BY <1>3, <1>4, <3>1 DEF Iterates
  <2> QED
    BY <2>1, <2>2
<1>6. Eq(w)
  <2> HIDE DEF Eq
  <2> QED
    BY <1>5
<1>7. Text(s, c) = w[Len(s)]
  BY DEF Text
<1>8. ASSUME NEW u, Eq(u) PROVE u \in [0..n -> Seq(Nat)]
  <2> DEFINE T == {i \in Nat : i <= n => u[i] \in Seq(Nat)}
  <2>1. \A i \in 0..n : u[i] = IF i = 0 THEN <<>>
                               ELSE IF s[i].call = c THEN u[i - 1] \o s[i].data ELSE u[i - 1]
    BY <1>8
  <2>2. 0 \in T
    <3>1. 0 \in 0..n /\ <<>> \in Seq(Nat)
      BY <1>1
    <3>2. u[0] = <<>>
      BY <2>1, <3>1
    <3> QED
      BY <3>1, <3>2
  <2>3. ASSUME NEW i \in T PROVE i + 1 \in T
    <3> SUFFICES ASSUME i + 1 <= n PROVE u[i + 1] \in Seq(Nat)
      OBVIOUS
    <3>1. i + 1 \in 0..n /\ i + 1 \in 1..n /\ i + 1 # 0 /\ (i + 1) - 1 = i /\ u[i] \in Seq(Nat)
      BY <1>1
    <3>2. u[i + 1] = IF s[i + 1].call = c THEN u[i] \o s[i + 1].data ELSE u[i]
      BY <2>1, <3>1
    <3>3. s[i + 1].data \in Seq(Nat)
      BY <1>1, <3>1
    <3>4. u[i] \o s[i + 1].data \in Seq(Nat)
      BY <3>1, <3>3
    <3> QED
      BY <3>1, <3>2, <3>4
  <2>4. T = Nat
    <3>1. T \subseteq Nat OBVIOUS
    <3> HIDE DEF T
    <3> QED BY <2>2, <2>3, <3>1, Induction
  <2>5. \A i \in 0..n : u[i] \in Seq(Nat)
    BY <1>1, <2>4
  <2>6. DOMAIN u = 0..n /\ u = [i \in 0..n |-> u[i]]
    BY <1>8
  <2> QED
    BY <2>5, <2>6
<1>9. Texts(s, c, w)
  <2> HIDE DEF w
  <2>1. w \in [0..n -> Seq(Nat)]
    <3> HIDE DEF Eq
    <3> QED BY <1>6, <1>8
  <2>2. \A i \in 0..n : w[i] = IF i = 0 THEN <<>>
                               ELSE IF s[i].call = c THEN w[i - 1] \o s[i].data ELSE w[i - 1]
    BY <1>6
  <2>3. 0 \in 0..n /\ \A i \in 1..n : i \in 0..n /\ i # 0
    BY <1>1
  <2> QED
    BY <2>1, <2>2, <2>3 DEF Texts
<1> QED
  <2> HIDE DEF w
  <2> QED BY <1>7, <1>9

LEMMA TextType == ASSUME NEW s \in Seq(FrameType), NEW c PROVE Text(s, c) \in Seq(Nat)
<1>1. PICK u : Texts(s, c, u) /\ Text(s, c) = u[Len(s)]
  BY TextsExist
<1>2. Len(s) \in 0..Len(s)
  OBVIOUS
<1> QED
  BY <1>1, <1>2 DEF Texts

LEMMA TextEmpty == ASSUME NEW c PROVE Text(<<>>, c) = <<>>
<1>1. <<>> \in Seq(FrameType) /\ Len(<<>>) = 0
  OBVIOUS
<1>2. PICK u : Texts(<<>>, c, u) /\ Text(<<>>, c) = u[0]
  BY <1>1, TextsExist
<1> QED
  BY <1>2 DEF Texts

(* Sequences whose frames of a call agree up to m read alike up to m.      *)
SameWords(s, r, c, m) ==
    /\ m <= Len(s) /\ m <= Len(r)
    /\ \A k \in 1..m : /\ r[k].call = s[k].call
                       /\ s[k].call = c => r[k].data = s[k].data

LEMMA SameWordsSameText ==
    ASSUME NEW s \in Seq(FrameType), NEW r \in Seq(FrameType), NEW c, NEW u, NEW w,
           Texts(s, c, u), Texts(r, c, w), NEW m \in Nat, SameWords(s, r, c, m)
    PROVE  w[m] = u[m]
<1> DEFINE T == {k \in Nat : k <= m => w[k] = u[k]}
<1>1. Len(s) \in Nat /\ Len(r) \in Nat
  OBVIOUS
<1>2. 0 \in T
  BY DEF Texts
<1>3. ASSUME NEW k \in T PROVE k + 1 \in T
  <2> SUFFICES ASSUME k + 1 <= m PROVE w[k + 1] = u[k + 1]
    OBVIOUS
  <2>1. k + 1 \in 1..Len(s) /\ k + 1 \in 1..Len(r) /\ k + 1 \in 1..m /\ (k + 1) - 1 = k
    BY <1>1 DEF SameWords
  <2>2. w[k] = u[k]
    OBVIOUS
  <2>3. r[k + 1].call = s[k + 1].call /\ (s[k + 1].call = c => r[k + 1].data = s[k + 1].data)
    BY <2>1 DEF SameWords
  <2>4. w[k + 1] = IF r[k + 1].call = c THEN w[k] \o r[k + 1].data ELSE w[k]
    BY <2>1 DEF Texts
  <2>5. u[k + 1] = IF s[k + 1].call = c THEN u[k] \o s[k + 1].data ELSE u[k]
    BY <2>1 DEF Texts
  <2> QED
    BY <2>2, <2>3, <2>4, <2>5
<1>4. T = Nat
  <2>1. T \subseteq Nat
    OBVIOUS
  <2> HIDE DEF T
  <2> QED
    BY <1>2, <1>3, <2>1, Induction
<1>5. m \in T
  BY <1>4
<1>6. m <= m
  OBVIOUS
<1> QED
  BY <1>5, <1>6

(* Frames of other calls add nothing.                                      *)
NoneAfter(s, c, i) == \A k \in (i + 1)..Len(s) : s[k].call # c

LEMMA NoneAfterSameText ==
    ASSUME NEW s \in Seq(FrameType), NEW c, NEW u, Texts(s, c, u),
           NEW i \in 0..Len(s), NoneAfter(s, c, i)
    PROVE  u[Len(s)] = u[i]
<1> DEFINE n == Len(s)
           T == {k \in Nat : i + k <= n => u[i + k] = u[i]}
<1>1. n \in Nat /\ i \in Nat
  OBVIOUS
<1>2. 0 \in T
  <2>1. i + 0 = i
    BY <1>1
  <2> QED
    BY <2>1
<1>3. ASSUME NEW k \in T PROVE k + 1 \in T
  <2> SUFFICES ASSUME i + (k + 1) <= n PROVE u[i + (k + 1)] = u[i]
    OBVIOUS
  <2>1. /\ i + (k + 1) \in 1..n /\ i + (k + 1) \in (i + 1)..n /\ (i + (k + 1)) - 1 = i + k
        /\ i + k <= n
    BY <1>1
  <2>2. u[i + k] = u[i]
    BY <2>1
  <2>3. s[i + (k + 1)].call # c
    BY <2>1 DEF NoneAfter
  <2> QED
    BY <2>1, <2>2, <2>3 DEF Texts
<1>4. T = Nat
  <2>1. T \subseteq Nat
    OBVIOUS
  <2> HIDE DEF T
  <2> QED
    BY <1>2, <1>3, <2>1, Induction
<1>5. n - i \in Nat /\ i + (n - i) = n
  BY <1>1
<1>6. n - i \in T
  <2> HIDE DEF T, n
  <2> QED
    BY <1>4, <1>5
<1>7. i + (n - i) <= n => u[i + (n - i)] = u[i]
  BY <1>6
<1> QED
  BY <1>1, <1>5, <1>7

LEMMA TextAppend ==
    ASSUME NEW s \in Seq(FrameType), NEW f \in FrameType, NEW c
    PROVE  Text(Append(s, f), c) = IF f.call = c THEN Text(s, c) \o f.data ELSE Text(s, c)
<1> DEFINE r == Append(s, f)
           n == Len(s)
<1>1. /\ r \in Seq(FrameType) /\ Len(r) = n + 1 /\ n \in Nat /\ r[n + 1] = f
      /\ \A k \in 1..n : r[k] = s[k]
  OBVIOUS
<1> HIDE DEF r
<1>2. PICK u : Texts(s, c, u) /\ Text(s, c) = u[n]
  BY TextsExist
<1>3. PICK w : Texts(r, c, w) /\ Text(r, c) = w[n + 1]
  BY <1>1, TextsExist
<1>4. w[n] = u[n]
  <2>1. SameWords(s, r, c, n)
    BY <1>1 DEF SameWords
  <2> HIDE DEF n
  <2> QED
    BY <1>1, <1>2, <1>3, <2>1, SameWordsSameText
<1>5. n + 1 \in 1..Len(r) /\ (n + 1) - 1 = n
  BY <1>1
<1>6. w[n + 1] = IF f.call = c THEN w[n] \o f.data ELSE w[n]
  BY <1>1, <1>3, <1>5 DEF Texts
<1> QED
  BY <1>2, <1>3, <1>4, <1>6 DEF r

LEMMA Regrouped ==
    ASSUME NEW S, NEW a \in Seq(S), NEW b \in Seq(S), NEW d \in Seq(S)
    PROVE  (a \o b) \o d = a \o (b \o d)
  BY ConcatAssociative

(* A frame that joins the last one of its call reads like one appended.    *)
LEMMA TextJoined ==
    ASSUME NEW s \in Seq(FrameType), NEW i \in 1..Len(s), NEW f \in FrameType, NEW c,
           s[i].call = f.call, NoneAfter(s, f.call, i)
    PROVE  Text([s EXCEPT ![i] = Joined(@, f)], c)
             = IF f.call = c THEN Text(s, c) \o f.data ELSE Text(s, c)
<1> DEFINE r == [s EXCEPT ![i] = Joined(@, f)]
           n == Len(s)
<1>1. s[i] \in FrameType /\ s[i].data \in Seq(Nat) /\ f.data \in Seq(Nat)
  BY FrameFields
<1>2. s[i].data \o f.data \in Seq(Nat)
  BY <1>1
<1>3. /\ Joined(s[i], f) \in FrameType
      /\ Joined(s[i], f).call = s[i].call /\ Joined(s[i], f).type = s[i].type
      /\ Joined(s[i], f).data = s[i].data \o f.data
  BY <1>1, <1>2 DEF Joined, FrameType
<1>4. /\ r \in Seq(FrameType) /\ Len(r) = n /\ n \in Nat /\ i \in Nat /\ i - 1 \in Nat
      /\ r[i] = Joined(s[i], f)
      /\ \A k \in 1..n : k # i => r[k] = s[k]
  BY <1>3
<1> HIDE DEF r
<1>5. PICK u : Texts(s, c, u) /\ Text(s, c) = u[n]
  BY TextsExist
<1>6. PICK w : Texts(r, c, w) /\ Text(r, c) = w[n]
  BY <1>4, TextsExist
<1>7. CASE f.call # c
  <2>1. SameWords(s, r, c, n)
    BY <1>3, <1>4, <1>7 DEF SameWords
  <2>2. w[n] = u[n]
    <3> HIDE DEF n
    <3> QED
      BY <1>4, <1>5, <1>6, <2>1, SameWordsSameText
  <2> QED
    BY <1>5, <1>6, <1>7, <2>2 DEF r
<1>8. CASE f.call = c
  <2>1. SameWords(s, r, c, i - 1)
    BY <1>4 DEF SameWords
  <2>2. w[i - 1] = u[i - 1]
    BY <1>4, <1>5, <1>6, <2>1, SameWordsSameText
  <2>3. w[i] = w[i - 1] \o (s[i].data \o f.data)
    BY <1>3, <1>4, <1>6, <1>8 DEF Texts
  <2>4. u[i] = u[i - 1] \o s[i].data
    BY <1>5, <1>8 DEF Texts
  <2>5. u[i - 1] \in Seq(Nat)
    BY <1>4, <1>5 DEF Texts
  <2>6. w[i] = u[i] \o f.data
    <3>1. (u[i - 1] \o s[i].data) \o f.data = u[i - 1] \o (s[i].data \o f.data)
      <4> DEFINE a == u[i - 1]
                 b == s[i].data
                 d == f.data
      <4>1. a \in Seq(Nat) /\ b \in Seq(Nat) /\ d \in Seq(Nat)
        BY <1>1, <2>5
      <4> HIDE DEF a, b, d
      <4>2. (a \o b) \o d = a \o (b \o d)
        BY ONLY <4>1, Regrouped, SMTT(60)
      <4> QED
        BY <4>2 DEF a, b, d
    <3> QED
      BY <2>2, <2>3, <2>4, <3>1
  <2>7. u[n] = u[i]
    BY <1>5, <1>8, NoneAfterSameText
  <2>8. NoneAfter(r, c, i) /\ i \in 0..Len(r)
    BY <1>4, <1>8 DEF NoneAfter
  <2>9. w[n] = w[i]
    BY <1>4, <1>6, <2>8, NoneAfterSameText
  <2> QED
    BY <1>5, <1>6, <1>8, <2>6, <2>7, <2>9 DEF r
<1> QED
  BY <1>7, <1>8

-----------------------------------------------------------------------------
(* The inductive invariant, part by part.                                  *)

(* A frame names a call exactly when it is a subagent's.                   *)
Proper(s) == \A i \in 1..Len(s) : s[i].type = "subagent" <=> s[i].call \in Call

(* No two frames of a digest are of one call.                              *)
OneEach(s) == \A i, j \in 1..Len(s) : s[i].call \in Call /\ s[i].call = s[j].call => i = j

DigestType == [frames : Seq(FrameType), bytes : Nat, kept : BOOLEAN]

HubType ==
    /\ entry \in Turn \cup {NoTurn}
    /\ opened \subseteq Turn /\ ended \subseteq opened
    /\ digest \in [Turn -> DigestType]
    /\ sent \in [Turn -> Seq(FrameType)]
    /\ subs \in [Turn -> SUBSET Viewer]
    /\ at \in [Viewer -> Turn \cup {NoTurn}]
    /\ snap \in [Viewer -> DigestType]
    /\ since \in [Viewer -> Nat]
    /\ queue \in [Viewer -> Seq(FrameType)]
    /\ bytes \in [Viewer -> Int]
    /\ dropped \subseteq Viewer /\ left \subseteq Viewer
    /\ got \in [Viewer -> Seq(FrameType)]
    /\ reader \in [Viewer -> Readers]

(* The turn in the map has not ended.                                      *)
OpenInv == entry # NoTurn => entry \in opened \ ended

(* A turn's terminal frame is its last one, and comes with its end.        *)
EndInv ==
    \A t \in Turn :
        /\ t \in ended => sent[t] # <<>>
        /\ \A i \in DOMAIN sent[t] : sent[t][i] = Terminal <=> t \in ended /\ i = Len(sent[t])

(* A digest that was kept counts its bytes and reads like what was sent.   *)
Faithful(d, s) ==
    /\ Proper(d.frames) /\ OneEach(d.frames)
    /\ d.kept => /\ d.bytes = TotalBytes(d.frames)
                 /\ \A c \in Calls : Text(d.frames, c) = Text(s, c)
DigestInv == \A t \in Turn : Faithful(digest[t], sent[t])

(* So does a snapshot, of what was sent before it was taken.               *)
ReadsLike(d, s) == d.kept => \A c \in Calls : Text(d.frames, c) = Text(s, c)
SnapInv ==
    \A v \in Viewer : at[v] # NoTurn =>
        /\ since[v] <= Len(sent[at[v]])
        /\ at[v] \in ended => since[v] < Len(sent[at[v]])
        /\ ReadsLike(snap[v], SubSeq(sent[at[v]], 1, since[v]))

(* Who is attached to what, and who holds a place.                         *)
PlaceInv ==
    /\ \A v \in Viewer : /\ at[v] = NoTurn <=> reader[v] \in {"new", "refused"}
                         /\ v \in left => reader[v] = "over"
                         /\ v \in dropped => at[v] # NoTurn
                         /\ v \in dropped \/ reader[v] = "over" \/ at[v] = NoTurn => queue[v] = <<>>
                         /\ at[v] = NoTurn => got[v] = <<>>
    /\ \A t \in Turn : subs[t] = {v \in Viewer : /\ at[v] = t
                                                /\ reader[v] # "over"
                                                /\ v \notin dropped}

(* The counts that the caps are enforced on.                               *)
CountInv ==
    \A v \in Viewer : /\ bytes[v] = TotalBytes(queue[v]) /\ bytes[v] <= QueueMaxBytes
                      /\ Len(queue[v]) <= QueueMaxFrames

(* What a viewer has received, and what is queued for it.                  *)
Since(v) == SubSeq(sent[at[v]], since[v] + 1, Len(sent[at[v]]))
ViewInv ==
    \A v \in Viewer : at[v] # NoTurn =>
        /\ v \notin left \cup dropped => got[v] \o queue[v] = Since(v)
        /\ IsPrefix(got[v], Since(v))

(* Nobody sleeps through an end, and a stream that ended by itself has     *)
(* nothing left to show.                                                   *)
RestInv ==
    \A v \in Viewer :
        /\ reader[v] = "asleep" => queue[v] = <<>> /\ v \notin dropped /\ at[v] \notin ended
        /\ reader[v] = "ending" => \/ v \in dropped
                                   \/ /\ queue[v] = <<>> /\ at[v] \in ended
                                      /\ Contains(got[v], Terminal)
        /\ reader[v] = "over" => \/ v \in left \cup dropped
                                 \/ at[v] \in ended /\ Contains(got[v], Terminal)

HubInv == /\ HubType /\ OpenInv /\ EndInv /\ DigestInv /\ SnapInv /\ PlaceInv
          /\ CountInv /\ ViewInv /\ RestInv

-----------------------------------------------------------------------------
(* What one step does: it changes nothing a viewer can see, or a turn that *)
(* has not ended delivers a frame, or a viewer's request moves on.         *)
IsEvent(t, f) == f \in Chunks(Len(sent[t]) + 1)
Delivers(t, f) ==
    /\ t \in opened \ ended
    /\ Deliver(t, f)
    /\ UNCHANGED viewVars
    /\ \/ f = Terminal /\ ended' = ended \cup {t} /\ UNCHANGED digest
       \/ /\ IsEvent(t, f) /\ UNCHANGED ended
          /\ digest' = [digest EXCEPT ![t] = DigestWith(@, f)]
Quiet == UNCHANGED <<ended, digest, sent, queueVars, viewVars, reader>>

LEMMA StepCases ==
    HubType /\ OpenInv /\ [Next]_vars =>
        \/ Quiet
        \/ \E t \in Turn : \E f : Delivers(t, f)
        \/ (\E v \in Viewer : View(v)) /\ UNCHANGED turnVars
<1> SUFFICES ASSUME HubType, OpenInv, [Next]_vars
             PROVE  \/ Quiet
                    \/ \E t \in Turn : \E f : Delivers(t, f)
                    \/ (\E v \in Viewer : View(v)) /\ UNCHANGED turnVars
  OBVIOUS
<1>1. CASE UNCHANGED vars
  BY <1>1 DEF vars, Quiet, turnVars, queueVars, viewVars
<1>2. CASE CloseAll
  <2>1. entry \in Turn /\ entry \in opened \ ended
    BY <1>2 DEF CloseAll, HubType, OpenInv
  <2>2. Delivers(entry, Terminal)
    BY <1>2, <2>1 DEF CloseAll, ForceClose, Delivers
  <2> QED
    BY <2>1, <2>2
<1>3. ASSUME NEW t \in Turn, Open(t)
      PROVE  Quiet \/ \E u \in Turn : \E f : Delivers(u, f)
  <2>1. CASE entry = NoTurn
    BY <1>3, <2>1 DEF Open, Quiet, turnVars, queueVars, viewVars
  <2>2. CASE entry # NoTurn
    <3>1. entry \in Turn /\ entry \in opened \ ended
      BY <2>2 DEF HubType, OpenInv
    <3>2. Delivers(entry, Terminal)
      BY <1>3, <2>2, <3>1 DEF Open, ForceClose, Delivers
    <3> QED
      BY <3>1, <3>2
  <2> QED
    BY <2>1, <2>2
<1>4. ASSUME NEW t \in Turn, Close(t)
      PROVE  Delivers(t, Terminal)
  <2>1. t \in opened \ ended
    BY <1>4, HubAssumption DEF Close, Live, OpenInv
  <2> QED
    BY <1>4, <2>1 DEF Close, Delivers
<1>5. ASSUME NEW t \in Turn, NEW f \in Chunks(Len(sent[t]) + 1), Publish(t, f)
      PROVE  Delivers(t, f)
  <2>1. t \in opened \ ended
    BY <1>5, HubAssumption DEF Publish, Live, OpenInv
  <2> QED
    BY <1>5, <2>1 DEF Publish, Delivers, IsEvent
<1>6. ASSUME NEW v \in Viewer, View(v)
      PROVE  UNCHANGED turnVars
  BY <1>6 DEF View, Attach, Leave, StartReading, Pull, Finish
<1> QED
  BY <1>1, <1>2, <1>3, <1>4, <1>5, <1>6 DEF Next, Produce

(* The frames that are delivered.                                          *)
LEMMA TerminalType ==
    /\ Terminal \in FrameType /\ Terminal.data = <<>>
    /\ Terminal.call = "none" /\ Terminal.type = "done"
  BY DEF Terminal, Frame, FrameType

LEMMA EventType ==
    ASSUME HubType, NEW t \in Turn, NEW f, IsEvent(t, f)
    PROVE  /\ f \in FrameType /\ f # Terminal /\ f.type \in {"chunk", "other", "subagent"}
           /\ f.type = "subagent" <=> f.call \in Call
           /\ f.call \in Calls
<1>1. Len(sent[t]) + 1 \in Nat
  BY DEF HubType
<1>2. <<Len(sent[t]) + 1>> \in Seq(Nat)
  BY <1>1
<1>3. f.type \in {"chunk", "other", "subagent"} /\ Terminal.type = "done"
  BY TerminalType DEF IsEvent, Chunks, Frame
<1>4. f.type = "subagent" <=> f.call \in Call
  BY HubAssumption DEF IsEvent, Chunks, Frame
<1>5. f \in FrameType
  <2> DEFINE d == <<Len(sent[t]) + 1>>
  <2>1. \A c \in Call \cup {"none"}, y \in {"chunk", "other", "subagent"} :
          Frame(y, c, d) \in FrameType
    <3> HIDE DEF d
    <3> QED
      BY <1>2 DEF Frame, FrameType, d
  <2>2. \/ f = Frame("chunk", "none", d) \/ f = Frame("other", "none", d)
        \/ \E c \in Call : f = Frame("subagent", c, d)
    BY DEF IsEvent, Chunks
  <2> HIDE DEF d
  <2> QED
    BY <2>1, <2>2
<1> QED
  BY <1>3, <1>4, <1>5, FrameFields

LEMMA DeliveredType ==
    ASSUME HubType, NEW t \in Turn, NEW f, Delivers(t, f)
    PROVE  f \in FrameType
  BY TerminalType, EventType DEF Delivers

-----------------------------------------------------------------------------
(* The digest.                                                             *)
LEMMA MergePlaceFinds ==
    ASSUME NEW s \in Seq(FrameType), Proper(s), OneEach(s), NEW f \in FrameType,
           f.type = "subagent" <=> f.call \in Call
    PROVE  LET i == MergePlace(s, f) IN
           /\ i \in 0..Len(s)
           /\ i # 0 => /\ s[i].call = f.call /\ s[i].type = f.type
                       /\ NoneAfter(s, f.call, i)
           /\ i = 0 /\ f.call \in Call => \A j \in 1..Len(s) : s[j].call # f.call
<1> DEFINE i == MergePlace(s, f)
<1>1. /\ Len(s) \in Nat /\ f.call \in Calls
      /\ \A j \in 1..Len(s) : s[j] \in FrameType /\ s[j].call \in Calls
  BY FrameFields
<1>2. CASE f.type = "chunk" /\ s # <<>> /\ s[Len(s)].type = "chunk"
  <2>1. i = Len(s)
    BY <1>2 DEF MergePlace
  <2>2. Len(s) \in 1..Len(s)
    BY <1>2
  <2>3. f.call = "none" /\ s[Len(s)].call = "none" /\ f.call \notin Call
    BY <1>1, <1>2, <2>2, HubAssumption DEF Proper, Calls
  <2> QED
    BY <1>1, <1>2, <2>1, <2>2, <2>3 DEF NoneAfter
<1>3. CASE f.type = "subagent" /\ OfCall(s, f.call) # {}
  <2> DEFINE S == OfCall(s, f.call)
  <2>1. i = CHOOSE k \in S : \A j \in S : k <= j
    BY <1>3 DEF MergePlace
  <2>2. S \subseteq 1..Len(s) /\ f.call \in Call
    BY <1>3 DEF OfCall
  <2>3. \A k, j \in S : k = j
    BY <2>2 DEF OfCall, OneEach
  <2>4. \E k \in S : \A j \in S : k <= j
    BY <1>3, <2>2, <2>3
  <2>5. i \in S
    BY <2>1, <2>4
  <2>6. i \in 1..Len(s) /\ s[i].call = f.call /\ s[i].type = "subagent"
    BY <2>5, <2>2 DEF OfCall
  <2>7. NoneAfter(s, f.call, i)
    BY <1>1, <2>2, <2>6 DEF NoneAfter, OneEach
  <2> QED
    BY <1>3, <2>6, <2>7
<1>4. CASE /\ ~(f.type = "chunk" /\ s # <<>> /\ s[Len(s)].type = "chunk")
           /\ ~(f.type = "subagent" /\ OfCall(s, f.call) # {})
  <2>1. i = 0
    BY <1>4 DEF MergePlace
  <2>2. f.call \in Call => \A j \in 1..Len(s) : s[j].call # f.call
    BY <1>4 DEF OfCall, Proper
  <2> QED
    BY <1>1, <2>1, <2>2
<1> QED
  BY <1>2, <1>3, <1>4

(* A frame that is coalesced is read where it belongs, and counted.        *)
LEMMA Coalesced ==
    ASSUME NEW s \in Seq(FrameType), Proper(s), OneEach(s), NEW f \in FrameType,
           f.type = "subagent" <=> f.call \in Call
    PROVE  LET r == AppendCoalesced(s, f) IN
           /\ r \in Seq(FrameType) /\ Proper(r) /\ OneEach(r)
           /\ TotalBytes(r) = TotalBytes(s) + AddedBytes(s, f) /\ AddedBytes(s, f) \in Nat
           /\ \A c : Text(r, c) = IF f.call = c THEN Text(s, c) \o f.data ELSE Text(s, c)
<1> DEFINE r == AppendCoalesced(s, f)
           i == MergePlace(s, f)
<1>1. /\ i \in 0..Len(s)
      /\ i # 0 => /\ s[i].call = f.call /\ s[i].type = f.type
                  /\ NoneAfter(s, f.call, i)
      /\ i = 0 /\ f.call \in Call => \A j \in 1..Len(s) : s[j].call # f.call
  BY MergePlaceFinds
<1>2. Len(s) \in Nat /\ f.data \in Seq(Nat) /\ Len(f.data) \in Nat
  BY FrameFields
<1>3. CASE i = 0
  <2>1. r = Append(s, f) /\ AddedBytes(s, f) = FrameBytes(f)
    BY <1>3 DEF AppendCoalesced, AddedBytes
  <2>2. /\ r \in Seq(FrameType) /\ Len(r) = Len(s) + 1 /\ r[Len(s) + 1] = f
        /\ \A j \in 1..Len(s) : r[j] = s[j]
    BY <2>1
  <2> HIDE DEF r, i
  <2>3. Proper(r)
    BY <1>2, <2>2 DEF Proper
  <2>4. OneEach(r)
    BY <1>1, <1>2, <1>3, <2>2 DEF OneEach
  <2> QED
    BY <2>1, <2>2, <2>3, <2>4, BytesAppend, TextAppend, FrameBytesType DEF r
<1>4. CASE i # 0
  <2>1. r = [s EXCEPT ![i] = Joined(@, f)] /\ AddedBytes(s, f) = Len(f.data)
    BY <1>4 DEF AppendCoalesced, AddedBytes
  <2>2. i \in 1..Len(s) /\ s[i] \in FrameType /\ s[i].data \in Seq(Nat)
    BY <1>1, <1>4, FrameFields
  <2>3. /\ Joined(s[i], f) \in FrameType
        /\ Joined(s[i], f).call = s[i].call /\ Joined(s[i], f).type = s[i].type
        /\ Joined(s[i], f).data = s[i].data \o f.data
    <3>1. s[i].data \o f.data \in Seq(Nat)
      BY <1>2, <2>2
    <3> QED
      BY <2>2, <3>1 DEF Joined, FrameType
  <2>4. /\ r \in Seq(FrameType) /\ Len(r) = Len(s) /\ r[i] = Joined(s[i], f)
        /\ \A j \in 1..Len(s) : j # i => r[j] = s[j]
    BY <2>1, <2>2, <2>3
  <2>5. \A j \in 1..Len(s) : r[j].call = s[j].call /\ r[j].type = s[j].type
    BY <2>3, <2>4
  <2>6. FrameBytes(Joined(s[i], f)) = FrameBytes(s[i]) + Len(f.data)
    <3>1. Len(s[i].data \o f.data) = Len(s[i].data) + Len(f.data) /\ Len(s[i].data) \in Nat
      BY <1>2, <2>2
    <3> DEFINE J == Joined(s[i], f)
               m == Len(s[i].data)
               n == Len(f.data)
    <3>2. Len(J.data) = m + n /\ J.type = s[i].type /\ m \in Nat /\ n \in Nat
      BY <1>2, <2>3, <3>1
    <3> HIDE DEF J, m, n
    <3>3. FrameBytes(J) = (m + n) + (IF s[i].type = "other" THEN 2 ELSE 1)
      BY <3>2 DEF FrameBytes
    <3>4. FrameBytes(s[i]) = m + (IF s[i].type = "other" THEN 2 ELSE 1)
      BY DEF FrameBytes, m
    <3>5. FrameBytes(J) = FrameBytes(s[i]) + n
      BY <3>2, <3>3, <3>4
    <3> QED
      BY <3>5 DEF J, n
  <2>7. TotalBytes(r) = (TotalBytes(s) - FrameBytes(s[i])) + FrameBytes(Joined(s[i], f))
    BY <2>1, <2>2, <2>3, BytesReplace
  <2> HIDE DEF r, i
  <2>8. Proper(r) /\ OneEach(r)
    BY <2>4, <2>5 DEF Proper, OneEach
  <2>9. TotalBytes(s) \in Nat /\ FrameBytes(s[i]) \in Nat
    BY <2>2, BytesType, FrameBytesType
  <2>10. TotalBytes(r) = TotalBytes(s) + Len(f.data)
    BY <1>2, <2>6, <2>7, <2>9
  <2>11. \A c : Text(r, c) = IF f.call = c THEN Text(s, c) \o f.data ELSE Text(s, c)
    <3> TAKE c
    <3>1. Text([s EXCEPT ![i] = Joined(@, f)], c)
            = IF f.call = c THEN Text(s, c) \o f.data ELSE Text(s, c)
      BY <1>1, <1>4, <2>2, TextJoined
    <3> QED
      BY <2>1, <3>1
  <2> QED
    BY <1>2, <2>1, <2>4, <2>8, <2>10, <2>11 DEF r
<1> QED
  BY <1>3, <1>4

LEMMA CoalescedType ==
    ASSUME NEW s \in Seq(FrameType), NEW f \in FrameType
    PROVE  AppendCoalesced(s, f) \in Seq(FrameType)
<1> DEFINE i == MergePlace(s, f)
<1>1. CASE i = 0
  <2>1. AppendCoalesced(s, f) = Append(s, f)
    BY <1>1 DEF AppendCoalesced
  <2> HIDE DEF i
  <2> QED
    BY <2>1
<1>2. CASE i # 0
  <2>1. AppendCoalesced(s, f) = [s EXCEPT ![i] = Joined(@, f)]
    BY <1>2 DEF AppendCoalesced
  <2> HIDE DEF i
  <2>2. CASE i \in 1..Len(s)
    <3>1. s[i] \in FrameType /\ s[i].data \in Seq(Nat) /\ f.data \in Seq(Nat)
      BY <2>2, FrameFields
    <3>2. s[i].data \o f.data \in Seq(Nat)
      BY <3>1
    <3>3. Joined(s[i], f) \in FrameType
      BY <3>1, <3>2 DEF Joined, FrameType
    <3> QED
      BY <2>1, <2>2, <3>3
  <2>3. CASE i \notin 1..Len(s)
    <3>1. [s EXCEPT ![i] = Joined(@, f)] = s
      BY <2>3
    <3> QED
      BY <2>1, <3>1
  <2> QED
    BY <2>2, <2>3
<1> QED
  BY <1>1, <1>2

-----------------------------------------------------------------------------
(* Each part is kept by every step.                                        *)
LEMMA TypeStep ==
    HubType /\ OpenInv /\ [Next]_vars => HubType'
<1> SUFFICES ASSUME HubType, OpenInv, [Next]_vars PROVE HubType'
  OBVIOUS
<1> USE DEF HubType
<1>1. entry' \in Turn \cup {NoTurn} /\ opened' \subseteq Turn /\ opened \subseteq opened'
  BY DEF Next, CloseAll, Produce, Open, Close, Publish, View, Attach, Leave, StartReading,
         Pull, Finish, vars, turnVars
<1>2. CASE Quiet
  BY <1>1, <1>2 DEF Quiet, queueVars, viewVars
<1>3. ASSUME NEW t \in Turn, NEW f, Delivers(t, f)
      PROVE  HubType'
  <2>1. f \in FrameType /\ FrameBytes(f) \in Nat
    BY <1>3, DeliveredType, FrameBytesType
  <2>2. sent' \in [Turn -> Seq(FrameType)]
    BY <1>3, <2>1 DEF Delivers, Deliver
  <2>3. digest' \in [Turn -> DigestType]
    <3>1. CASE UNCHANGED digest
      BY <3>1
    <3>2. CASE IsEvent(t, f) /\ digest' = [digest EXCEPT ![t] = DigestWith(@, f)]
      <4>1. /\ digest[t] \in DigestType
            /\ digest[t].bytes \in Nat /\ digest[t].frames \in Seq(FrameType)
        BY DEF DigestType
      <4>2. AddedBytes(digest[t].frames, f) \in Nat
        <5>1. Len(f.data) \in Nat
          BY <2>1, FrameFields
        <5> QED
          BY <2>1, <5>1 DEF AddedBytes
      <4>3. AppendCoalesced(digest[t].frames, f) \in Seq(FrameType)
        BY <2>1, <4>1, CoalescedType
      <4>4. DigestWith(digest[t], f) \in DigestType
        <5>1. digest[t].bytes + AddedBytes(digest[t].frames, f) \in Nat
          BY <4>1, <4>2
        <5>2. <<>> \in Seq(FrameType)
          OBVIOUS
        <5> QED
          BY <4>1, <4>3, <5>1, <5>2 DEF DigestWith, DigestType
      <4> QED
        BY <3>2, <4>4
    <3> QED
      BY <1>3, <3>1, <3>2 DEF Delivers
  <2>4. ended' \subseteq opened'
    BY <1>1, <1>3 DEF Delivers
  <2>5. queue' \in [Viewer -> Seq(FrameType)]
    BY <1>3, <2>1 DEF Delivers, Deliver
  <2>6. bytes' \in [Viewer -> Int]
    BY <1>3, <2>1 DEF Delivers, Deliver
  <2>7. subs' \in [Turn -> SUBSET Viewer] /\ dropped' \subseteq Viewer
    BY <1>3 DEF Delivers, Deliver
  <2>8. reader' \in [Viewer -> Readers]
    BY <1>3 DEF Delivers, Deliver, Readers
  <2> QED
    BY <1>1, <1>3, <2>2, <2>3, <2>4, <2>5, <2>6, <2>7, <2>8 DEF Delivers, viewVars
<1>4. ASSUME NEW v \in Viewer, View(v), UNCHANGED turnVars
      PROVE  HubType'
  <2> USE <1>4 DEF turnVars
  <2>1. CASE Attach(v)
    <3>1. CASE UNCHANGED <<at, snap, since, subs>> /\ reader' = [reader EXCEPT ![v] = "refused"]
      BY <2>1, <3>1 DEF Attach, Readers
    <3>2. CASE entry # NoTurn /\ Subscribe(v, entry)
      <4>1. Len(sent[entry]) \in Nat
        BY <3>2
      <4> QED
        BY <2>1, <3>2, <4>1 DEF Attach, Subscribe, Readers
    <3> QED
      BY <2>1, <3>1, <3>2 DEF Attach
  <2>2. ASSUME Detach(v), UNCHANGED <<at, snap, since, got>>, left' \in SUBSET Viewer
        PROVE  HubType'
    <3>1. queue' \in [Viewer -> Seq(FrameType)] /\ bytes' \in [Viewer -> Int]
      <4>1. <<>> \in Seq(FrameType)
        OBVIOUS
      <4> QED
        BY <2>2, <4>1 DEF Detach
    <3>2. reader' \in [Viewer -> Readers]
      BY <2>2 DEF Detach, Readers
    <3>3. subs' \in [Turn -> SUBSET Viewer]
      BY <2>2 DEF Detach
    <3> QED
      BY <2>2, <3>1, <3>2, <3>3 DEF Detach
  <2>3. CASE Leave(v)
    BY <2>2, <2>3 DEF Leave
  <2>4. CASE StartReading(v)
    BY <2>4 DEF StartReading, Readers, queueVars, viewVars
  <2>5. CASE Pull(v)
    <3>1. reader' \in [Viewer -> Readers]
      BY <2>5 DEF Pull, NextStep, Readers
    <3>2. got' \in [Viewer -> Seq(FrameType)] /\ queue' \in [Viewer -> Seq(FrameType)]
          /\ bytes' \in [Viewer -> Int]
      <4>1. CASE NextStep(v) = "reading"
        <5>1. queue[v] # <<>>
          BY <4>1 DEF NextStep
        <5>2. Head(queue[v]) \in FrameType /\ Tail(queue[v]) \in Seq(FrameType)
          BY <5>1
        <5>3. FrameBytes(Head(queue[v])) \in Nat
          BY <5>2, FrameBytesType
        <5>4. /\ got' = [got EXCEPT ![v] = Append(@, Head(queue[v]))]
              /\ bytes' = [bytes EXCEPT ![v] = @ - FrameBytes(Head(queue[v]))]
              /\ queue' = [queue EXCEPT ![v] = Tail(@)]
          BY <2>5, <4>1 DEF Pull
        <5>5. got' \in [Viewer -> Seq(FrameType)]
          <6>1. Append(got[v], Head(queue[v])) \in Seq(FrameType)
            BY <5>2
          <6> QED
            BY <5>4, <6>1
        <5>6. bytes' \in [Viewer -> Int]
          <6>1. bytes[v] - FrameBytes(Head(queue[v])) \in Int
            BY <5>3
          <6> QED
            BY <5>4, <6>1
        <5>7. queue' \in [Viewer -> Seq(FrameType)]
          BY <5>2, <5>4
        <5> QED
          BY <5>5, <5>6, <5>7
      <4>2. CASE NextStep(v) # "reading"
        BY <2>5, <4>2 DEF Pull
      <4> QED
        BY <4>1, <4>2
    <3> QED
      BY <2>5, <3>1, <3>2 DEF Pull
  <2>6. CASE Finish(v)
    BY <2>2, <2>6 DEF Finish, viewVars
  <2> QED
    BY <2>1, <2>3, <2>4, <2>5, <2>6 DEF View
<1> QED
  BY <1>2, <1>3, <1>4, StepCases

LEMMA OpenStep == HubType /\ OpenInv /\ [Next]_vars => OpenInv'
<1> SUFFICES ASSUME HubType, OpenInv, [Next]_vars PROVE OpenInv'
  OBVIOUS
<1> USE HubAssumption DEF HubType, OpenInv
<1>1. CASE UNCHANGED turnVars
  BY <1>1 DEF turnVars
<1>2. CASE CloseAll
  BY <1>2 DEF CloseAll
<1>3. ASSUME NEW t \in Turn, Open(t) PROVE OpenInv'
  BY <1>3 DEF Open, ForceClose
<1>4. ASSUME NEW t \in Turn, Close(t) PROVE OpenInv'
  BY <1>4 DEF Close
<1>5. ASSUME NEW t \in Turn, NEW f, Publish(t, f) PROVE OpenInv'
  BY <1>5 DEF Publish
<1>6. ASSUME NEW v \in Viewer, View(v) PROVE UNCHANGED turnVars
  BY <1>6 DEF View, Attach, Leave, StartReading, Pull, Finish
<1> QED
  BY <1>1, <1>2, <1>3, <1>4, <1>5, <1>6 DEF Next, Produce, vars, turnVars

LEMMA EndStep == HubType /\ OpenInv /\ EndInv /\ [Next]_vars => EndInv'
<1> SUFFICES ASSUME HubType, OpenInv, EndInv, [Next]_vars PROVE EndInv'
  OBVIOUS
<1>1. CASE UNCHANGED <<ended, sent>>
  BY <1>1 DEF EndInv
<1>2. ASSUME NEW t \in Turn, NEW f, Delivers(t, f) PROVE EndInv'
  <2>1. /\ f \in FrameType /\ (f = Terminal <=> ended' = ended \cup {t})
        /\ f # Terminal => ended' = ended
    BY <1>2, DeliveredType, EventType DEF Delivers
  <2>2. t \notin ended /\ sent' = [sent EXCEPT ![t] = Append(@, f)]
    BY <1>2 DEF Delivers, Deliver
  <2>3. ASSUME NEW u \in Turn, u # t
        PROVE  /\ u \in ended' => sent'[u] # <<>>
               /\ \A i \in DOMAIN sent'[u] :
                    sent'[u][i] = Terminal <=> u \in ended' /\ i = Len(sent'[u])
    <3>1. sent'[u] = sent[u] /\ (u \in ended' <=> u \in ended)
      BY <2>1, <2>2, <2>3 DEF HubType
    <3> QED
      BY <3>1 DEF EndInv
  <2>4. /\ t \in ended' => sent'[t] # <<>>
        /\ \A i \in DOMAIN sent'[t] : sent'[t][i] = Terminal <=> t \in ended' /\ i = Len(sent'[t])
    <3> DEFINE s == sent[t]
               n == Len(sent[t])
    <3>1. s \in Seq(FrameType) /\ n \in Nat /\ DOMAIN s = 1..n
      BY DEF HubType
    <3>2. sent'[t] = Append(s, f)
      BY <2>2 DEF HubType
    <3>3. DOMAIN sent'[t] = 1..(n + 1) /\ Len(sent'[t]) = n + 1 /\ sent'[t][n + 1] = f
          /\ \A i \in 1..n : sent'[t][i] = s[i]
      BY <2>1, <3>1, <3>2
    <3>4. \A i \in 1..n : s[i] # Terminal
      BY <2>2, <3>1 DEF EndInv
    <3>5. f = Terminal <=> t \in ended'
      BY <2>1, <2>2
    <3> HIDE DEF s, n
    <3>6. sent'[t] # <<>>
      BY <3>1, <3>3
    <3> QED
      BY <3>1, <3>3, <3>4, <3>5, <3>6
  <2> QED
    BY <2>3, <2>4 DEF EndInv
<1> QED
  BY <1>1, <1>2, StepCases DEF Quiet, turnVars

(* A frame keeps the digest faithful: one that is merged, one that is      *)
(* appended, and one that drops it.                                        *)
LEMMA DigestTakes ==
    ASSUME NEW d \in DigestType, NEW s \in Seq(FrameType), Faithful(d, s), NEW f \in FrameType,
           f.type = "subagent" <=> f.call \in Call
    PROVE  Faithful(DigestWith(d, f), Append(s, f))
<1> DEFINE a == d.frames
           n == d.bytes + AddedBytes(a, f)
<1>1. a \in Seq(FrameType) /\ d.bytes \in Nat /\ d.kept \in BOOLEAN /\ Proper(a) /\ OneEach(a)
  BY DEF DigestType, Faithful
<1>2. CASE ~d.kept
  <2>1. DigestWith(d, f) = d
    BY <1>2 DEF DigestWith
  <2> QED
    BY <1>1, <1>2, <2>1 DEF Faithful
<1>3. CASE d.kept /\ n > DigestMax
  <2>1. DigestWith(d, f) = [frames |-> <<>>, bytes |-> n, kept |-> FALSE]
    BY <1>3 DEF DigestWith
  <2>2. Proper(<<>>) /\ OneEach(<<>>)
    BY DEF Proper, OneEach
  <2> QED
    BY <2>1, <2>2 DEF Faithful
<1>4. CASE d.kept /\ ~(n > DigestMax)
  <2> DEFINE r == AppendCoalesced(a, f)
  <2>1. DigestWith(d, f) = [frames |-> r, bytes |-> n, kept |-> TRUE]
    BY <1>4 DEF DigestWith
  <2>2. /\ Proper(r) /\ OneEach(r)
        /\ TotalBytes(r) = TotalBytes(a) + AddedBytes(a, f)
        /\ \A c : Text(r, c) = IF f.call = c THEN Text(a, c) \o f.data ELSE Text(a, c)
    <3> HIDE DEF a
    <3> QED
      BY <1>1, Coalesced
  <2>3. d.bytes = TotalBytes(a) /\ \A c \in Calls : Text(a, c) = Text(s, c)
    BY <1>4 DEF Faithful
  <2>4. \A c \in Calls : Text(r, c) = Text(Append(s, f), c)
    <3> TAKE c \in Calls
    <3>1. Text(Append(s, f), c) = IF f.call = c THEN Text(s, c) \o f.data ELSE Text(s, c)
      BY TextAppend
    <3> HIDE DEF a, r
    <3> QED
      BY <2>2, <2>3, <3>1
  <2>5. n = TotalBytes(r)
    <3> HIDE DEF a, r
    <3> QED
      BY <2>2, <2>3
  <2> HIDE DEF a, n, r
  <2> QED
    BY <2>1, <2>2, <2>4, <2>5 DEF Faithful
<1> QED
  BY <1>1, <1>2, <1>3, <1>4

LEMMA DigestEnds ==
    ASSUME NEW d \in DigestType, NEW s \in Seq(FrameType), Faithful(d, s)
    PROVE  Faithful(d, Append(s, Terminal))
<1>1. \A c \in Calls : Text(Append(s, Terminal), c) = Text(s, c)
  <2> TAKE c \in Calls
  <2>1. Text(Append(s, Terminal), c)
          = IF Terminal.call = c THEN Text(s, c) \o Terminal.data ELSE Text(s, c)
    BY TextAppend, TerminalType
  <2>2. Text(s, c) \in Seq(Nat)
    BY TextType
  <2>3. Text(s, c) \o <<>> = Text(s, c)
    BY <2>2
  <2> QED
    BY <2>1, <2>3, TerminalType
<1> QED
  BY <1>1 DEF Faithful

LEMMA DigestStep == HubType /\ OpenInv /\ DigestInv /\ [Next]_vars => DigestInv'
<1> SUFFICES ASSUME HubType, OpenInv, DigestInv, [Next]_vars PROVE DigestInv'
  OBVIOUS
<1>1. CASE UNCHANGED <<digest, sent>>
  BY <1>1 DEF DigestInv
<1>2. ASSUME NEW t \in Turn, NEW f, Delivers(t, f) PROVE DigestInv'
  <2>1. f \in FrameType /\ sent' = [sent EXCEPT ![t] = Append(@, f)]
    BY <1>2, DeliveredType DEF Delivers, Deliver
  <2>2. digest[t] \in DigestType /\ sent[t] \in Seq(FrameType) /\ Faithful(digest[t], sent[t])
    BY DEF HubType, DigestInv
  <2>3. Faithful(digest'[t], sent'[t])
    <3>1. sent'[t] = Append(sent[t], f)
      BY <2>1 DEF HubType
    <3>2. CASE f = Terminal /\ UNCHANGED digest
      BY <2>2, <3>1, <3>2, DigestEnds
    <3>3. CASE IsEvent(t, f) /\ digest' = [digest EXCEPT ![t] = DigestWith(@, f)]
      <4>1. digest'[t] = DigestWith(digest[t], f)
        BY <3>3 DEF HubType
      <4>2. f.type = "subagent" <=> f.call \in Call
        BY <3>3, EventType
      <4> QED
        BY <2>1, <2>2, <3>1, <4>1, <4>2, DigestTakes
    <3> QED
      BY <1>2, <3>2, <3>3 DEF Delivers
  <2>4. ASSUME NEW u \in Turn, u # t PROVE digest'[u] = digest[u] /\ sent'[u] = sent[u]
    BY <1>2, <2>1, <2>4 DEF Delivers, HubType
  <2> QED
    BY <2>3, <2>4 DEF DigestInv
<1> QED
  BY <1>1, <1>2, StepCases DEF Quiet, turnVars

-----------------------------------------------------------------------------
(* Stretches of what a turn delivered.                                     *)
LEMMA FrontAppend ==
    ASSUME NEW s \in Seq(FrameType), NEW f \in FrameType, NEW n \in 0..Len(s)
    PROVE  SubSeq(Append(s, f), 1, n) = SubSeq(s, 1, n)
  OBVIOUS

LEMMA RestAppend ==
    ASSUME NEW s \in Seq(FrameType), NEW f \in FrameType, NEW n \in 0..Len(s)
    PROVE  SubSeq(Append(s, f), n + 1, Len(Append(s, f))) = Append(SubSeq(s, n + 1, Len(s)), f)
<1> DEFINE a == SubSeq(Append(s, f), n + 1, Len(s) + 1)
           b == Append(SubSeq(s, n + 1, Len(s)), f)
<1>1. n \in Nat /\ Len(s) \in Nat /\ Len(Append(s, f)) = Len(s) + 1
  OBVIOUS
<1>2. SubSeq(s, n + 1, Len(s)) \in Seq(FrameType) /\ Len(SubSeq(s, n + 1, Len(s))) = Len(s) - n
  BY <1>1
<1>3. a \in Seq(FrameType) /\ Len(a) = Len(s) + 1 - n
  BY <1>1
<1>4. b \in Seq(FrameType) /\ Len(b) = Len(s) + 1 - n
  BY <1>1, <1>2
<1>5. \A i \in 1..(Len(s) + 1 - n) : a[i] = b[i]
  <2> SUFFICES ASSUME NEW i \in 1..(Len(s) + 1 - n) PROVE a[i] = b[i]
    OBVIOUS
  <2>1. CASE i = Len(s) + 1 - n
    BY <1>1, <1>2, <2>1
  <2>2. CASE i < Len(s) + 1 - n
    BY <1>1, <1>2, <2>2
  <2> QED
    BY <1>1, <2>1, <2>2
<1> HIDE DEF a, b
<1>6. a = b
  BY <1>3, <1>4, <1>5, SeqEqual
<1> QED
  BY <1>1, <1>6 DEF a, b

LEMMA SnapStep ==
    HubType /\ OpenInv /\ DigestInv /\ SnapInv /\ [Next]_vars => SnapInv'
<1> SUFFICES ASSUME HubType, OpenInv, DigestInv, SnapInv, [Next]_vars PROVE SnapInv'
  OBVIOUS
<1>1. CASE UNCHANGED <<at, since, snap, sent, ended>>
  BY <1>1 DEF SnapInv
<1>2. ASSUME NEW t \in Turn, NEW f, Delivers(t, f) PROVE SnapInv'
  <2>1. /\ f \in FrameType /\ sent' = [sent EXCEPT ![t] = Append(@, f)]
        /\ UNCHANGED <<at, since, snap>> /\ ended' \subseteq ended \cup {t}
    BY <1>2, DeliveredType DEF Delivers, Deliver, viewVars
  <2> SUFFICES ASSUME NEW v \in Viewer, at[v] # NoTurn
               PROVE  /\ since[v] <= Len(sent'[at[v]])
                      /\ at[v] \in ended' => since[v] < Len(sent'[at[v]])
                      /\ ReadsLike(snap[v], SubSeq(sent'[at[v]], 1, since[v]))
    BY <2>1 DEF SnapInv
  <2>2. /\ at[v] \in Turn /\ since[v] \in Nat /\ sent[at[v]] \in Seq(FrameType)
        /\ Len(sent[at[v]]) \in Nat
    BY DEF HubType
  <2>3. /\ since[v] <= Len(sent[at[v]])
        /\ at[v] \in ended => since[v] < Len(sent[at[v]])
        /\ ReadsLike(snap[v], SubSeq(sent[at[v]], 1, since[v]))
    BY DEF SnapInv
  <2>4. CASE at[v] # t
    <3>1. sent'[at[v]] = sent[at[v]] /\ (at[v] \in ended' => at[v] \in ended)
      BY <2>1, <2>2, <2>4 DEF HubType
    <3> QED
      BY <2>3, <3>1
  <2>5. CASE at[v] = t
    <3>1. sent'[at[v]] = Append(sent[at[v]], f)
      BY <2>1, <2>2, <2>5 DEF HubType
    <3>2. Len(sent'[at[v]]) = Len(sent[at[v]]) + 1
      BY <2>1, <2>2, <3>1
    <3>3. SubSeq(sent'[at[v]], 1, since[v]) = SubSeq(sent[at[v]], 1, since[v])
      BY <2>1, <2>2, <2>3, <3>1, FrontAppend
    <3>4. since[v] < Len(sent'[at[v]]) /\ since[v] <= Len(sent'[at[v]])
      <4> DEFINE m == Len(sent[at[v]])
                 n == since[v]
                 k == Len(sent'[at[v]])
      <4>1. m \in Nat /\ n \in Nat /\ k = m + 1 /\ n <= m
        BY <2>2, <2>3, <3>2
      <4> HIDE DEF m, n, k
      <4>2. n < k /\ n <= k
        BY <4>1
      <4> QED
        BY <4>2 DEF n, k
    <3> QED
      BY <2>3, <3>3, <3>4
  <2> QED
    BY <2>4, <2>5
<1>3. ASSUME NEW w \in Viewer, View(w), UNCHANGED turnVars PROVE SnapInv'
  <2>1. UNCHANGED <<sent, ended, digest, entry>>
    BY <1>3 DEF turnVars
  <2>2. CASE UNCHANGED <<at, since, snap>>
    BY <1>1, <2>1, <2>2
  <2>3. CASE entry # NoTurn /\ Subscribe(w, entry)
    <3>1. entry \in Turn /\ entry \notin ended /\ sent[entry] \in Seq(FrameType)
      BY <2>3 DEF HubType, OpenInv
    <3>2. at'[w] = entry /\ since'[w] = Len(sent[entry]) /\ snap'[w] = digest[entry]
      BY <2>3 DEF Subscribe, HubType
    <3>3. SubSeq(sent[entry], 1, Len(sent[entry])) = sent[entry]
      BY <3>1, SubSeqFull
    <3>4. ReadsLike(digest[entry], sent[entry])
      BY <3>1 DEF DigestInv, Faithful, ReadsLike
    <3>5. Len(sent[entry]) \in Nat
      BY <3>1
    <3>6. \A v \in Viewer : v # w => at'[v] = at[v] /\ since'[v] = since[v] /\ snap'[v] = snap[v]
      BY <2>3 DEF Subscribe, HubType
    <3>7. ASSUME NEW v \in Viewer, at'[v] # NoTurn, v # w
          PROVE  /\ since'[v] <= Len(sent'[at'[v]])
                 /\ at'[v] \in ended' => since'[v] < Len(sent'[at'[v]])
                 /\ ReadsLike(snap'[v], SubSeq(sent'[at'[v]], 1, since'[v]))
      BY <2>1, <3>6, <3>7 DEF SnapInv
    <3>8. /\ since'[w] <= Len(sent'[at'[w]])
          /\ at'[w] \in ended' => since'[w] < Len(sent'[at'[w]])
          /\ ReadsLike(snap'[w], SubSeq(sent'[at'[w]], 1, since'[w]))
      <4>1. sent'[at'[w]] = sent[entry] /\ at'[w] \notin ended'
        BY <2>1, <3>1, <3>2
      <4>2. Len(sent[entry]) <= Len(sent[entry])
        BY <3>5
      <4> QED
        BY <3>2, <3>3, <3>4, <4>1, <4>2
    <3> QED
      BY <3>7, <3>8 DEF SnapInv
  <2> QED
    BY <1>3, <2>2, <2>3 DEF View, Attach, Leave, StartReading, Pull, Finish, viewVars
<1> QED
  BY <1>1, <1>2, <1>3, StepCases DEF Quiet, viewVars

(* A viewer's place is taken by attaching, and given up by an overflow or  *)
(* by detaching.                                                           *)
LEMMA PlaceStep == HubType /\ OpenInv /\ PlaceInv /\ [Next]_vars => PlaceInv'
<1> SUFFICES ASSUME HubType, OpenInv, PlaceInv, [Next]_vars PROVE PlaceInv'
  OBVIOUS
<1>1. CASE UNCHANGED <<at, reader, left, dropped, queue, got, subs>>
  BY <1>1 DEF PlaceInv
<1>2. ASSUME NEW t \in Turn, NEW f, Delivers(t, f) PROVE PlaceInv'
  <2> DEFINE full == {v \in subs[t] : Overflows(v, f)}
  <2>1. UNCHANGED <<at, left, got>>
    BY <1>2 DEF Delivers, viewVars
  <2>2. /\ dropped' = dropped \cup full
        /\ subs' = [subs EXCEPT ![t] = {v \in @ : Stays(v, f)}]
        /\ \A v \in Viewer : queue'[v] = IF v \in full THEN <<>>
                                         ELSE IF v \in subs[t] \ full THEN Append(queue[v], f)
                                         ELSE queue[v]
        /\ \A v \in Viewer : reader'[v] = IF v \in subs[t] /\ reader[v] = "asleep" THEN "awake"
                                          ELSE reader[v]
    BY <1>2 DEF Delivers, Deliver
  <2>3. subs'[t] = subs[t] \ full /\ \A u \in Turn : u # t => subs'[u] = subs[u]
    BY <2>2 DEF HubType, Stays
  <2>4. \A v \in subs[t] : v \in Viewer /\ at[v] = t /\ reader[v] # "over" /\ v \notin dropped
    BY DEF PlaceInv
  <2>5. full \subseteq subs[t]
    OBVIOUS
  <2> HIDE DEF full
  <2>6. \A v \in Viewer : /\ reader'[v] = "over" <=> reader[v] = "over"
                          /\ reader'[v] \in {"new", "refused"} <=> reader[v] \in {"new", "refused"}
    BY <2>2
  <2>7. ASSUME NEW v \in Viewer
        PROVE  /\ at[v] = NoTurn <=> reader'[v] \in {"new", "refused"}
               /\ v \in left => reader'[v] = "over"
               /\ v \in dropped' => at[v] # NoTurn
               /\ v \in dropped' \/ reader'[v] = "over" \/ at[v] = NoTurn => queue'[v] = <<>>
               /\ at[v] = NoTurn => got[v] = <<>>
    <3>1. CASE v \in subs[t]
      BY <2>2, <2>4, <2>6, <3>1, HubAssumption DEF PlaceInv
    <3>2. CASE v \notin subs[t]
      BY <2>2, <2>5, <2>6, <3>2 DEF PlaceInv
    <3> QED
      BY <3>1, <3>2
  <2>8. ASSUME NEW u \in Turn
        PROVE  subs'[u] = {v \in Viewer : at[v] = u /\ reader'[v] # "over" /\ v \notin dropped'}
    <3>1. subs[u] = {v \in Viewer : at[v] = u /\ reader[v] # "over" /\ v \notin dropped}
      BY DEF PlaceInv
    <3>2. CASE u = t
      BY <2>2, <2>3, <2>6, <3>1, <3>2
    <3>3. CASE u # t
      <4>1. \A v \in full : at[v] # u
        BY <2>4, <2>5, <3>3
      <4> QED
        BY <2>2, <2>3, <2>6, <3>1, <3>3, <4>1
    <3> QED
      BY <3>2, <3>3
  <2> QED
    BY <2>1, <2>7, <2>8 DEF PlaceInv
<1>3. ASSUME NEW w \in Viewer, View(w), UNCHANGED turnVars PROVE PlaceInv'
  <2> DEFINE Viewers == \A v \in Viewer :
               /\ at'[v] = NoTurn <=> reader'[v] \in {"new", "refused"}
               /\ v \in left' => reader'[v] = "over"
               /\ v \in dropped' => at'[v] # NoTurn
               /\ v \in dropped' \/ reader'[v] = "over" \/ at'[v] = NoTurn => queue'[v] = <<>>
               /\ at'[v] = NoTurn => got'[v] = <<>>
             Places == \A t \in Turn :
               subs'[t] = {v \in Viewer : at'[v] = t /\ reader'[v] # "over" /\ v \notin dropped'}
  <2>1. CASE Attach(w)
    <3>1. /\ reader[w] = "new" /\ at[w] = NoTurn /\ w \notin left /\ w \notin dropped
          /\ UNCHANGED <<queue, dropped, left, got>>
      BY <2>1 DEF Attach, PlaceInv
    <3>2. CASE UNCHANGED <<at, subs>> /\ reader' = [reader EXCEPT ![w] = "refused"]
      <4>1. Viewers
        BY <3>1, <3>2 DEF PlaceInv, HubType
      <4>2. Places
        BY <3>1, <3>2 DEF PlaceInv, HubType
      <4> QED
        BY <4>1, <4>2 DEF PlaceInv
    <3>3. CASE entry # NoTurn /\ Subscribe(w, entry)
      <4>1. /\ entry \in Turn /\ at' = [at EXCEPT ![w] = entry]
            /\ subs' = [subs EXCEPT ![entry] = @ \cup {w}]
            /\ reader' = [reader EXCEPT ![w] = "auth"]
        BY <3>3 DEF Subscribe, HubType
      <4>2. Viewers
        BY <3>1, <3>3, <4>1 DEF PlaceInv, HubType
      <4>3. Places
        <5> SUFFICES ASSUME NEW t \in Turn
                     PROVE  subs'[t] = {v \in Viewer : at'[v] = t /\ reader'[v] # "over"
                                                       /\ v \notin dropped'}
          OBVIOUS
        <5>1. subs[t] = {v \in Viewer : at[v] = t /\ reader[v] # "over" /\ v \notin dropped}
          BY DEF PlaceInv
        <5>2. subs'[t] = IF t = entry THEN subs[t] \cup {w} ELSE subs[t]
          BY <4>1 DEF HubType
        <5>3. \A v \in Viewer : /\ at'[v] = IF v = w THEN entry ELSE at[v]
                                /\ reader'[v] = IF v = w THEN "auth" ELSE reader[v]
          BY <4>1 DEF HubType
        <5> QED
          BY <3>1, <5>1, <5>2, <5>3, HubAssumption
      <4> QED
        BY <4>2, <4>3 DEF PlaceInv
    <3> QED
      BY <2>1, <3>2, <3>3 DEF Attach
  <2>2. ASSUME Detach(w), UNCHANGED <<at, got>>, at[w] # NoTurn,
               left' \in {left, left \cup {w}}
        PROVE  PlaceInv'
    <3>1. /\ queue' = [queue EXCEPT ![w] = <<>>]
          /\ subs' = [subs EXCEPT ![at[w]] = @ \ {w}]
          /\ reader' = [reader EXCEPT ![w] = "over"]
          /\ UNCHANGED dropped
      BY <2>2 DEF Detach
    <3>2. \A v \in Viewer : /\ reader'[v] = IF v = w THEN "over" ELSE reader[v]
                            /\ queue'[v] = IF v = w THEN <<>> ELSE queue[v]
      BY <3>1 DEF HubType
    <3>3. \A u \in Turn : subs'[u] = IF u = at[w] THEN subs[u] \ {w} ELSE subs[u]
      BY <3>1 DEF HubType
    <3>4. Viewers
      BY <2>2, <3>1, <3>2 DEF PlaceInv
    <3>5. Places
      <4> SUFFICES ASSUME NEW t \in Turn
                   PROVE  subs'[t] = {v \in Viewer : at'[v] = t /\ reader'[v] # "over"
                                                     /\ v \notin dropped'}
        OBVIOUS
      <4>1. subs[t] = {v \in Viewer : at[v] = t /\ reader[v] # "over" /\ v \notin dropped}
        BY DEF PlaceInv
      <4>2. /\ at' = at /\ dropped' = dropped
            /\ subs'[t] = IF t = at[w] THEN subs[t] \ {w} ELSE subs[t]
        BY <2>2, <3>1, <3>3
      <4>3. CASE t = at[w]
        BY <3>2, <4>1, <4>2, <4>3
      <4>4. CASE t # at[w]
        BY <3>2, <4>1, <4>2, <4>4
      <4> QED
        BY <4>3, <4>4
    <3> QED
      BY <3>4, <3>5 DEF PlaceInv
  <2>3. CASE Leave(w)
    BY <2>2, <2>3 DEF Leave, PlaceInv
  <2>4. CASE Finish(w)
    BY <2>2, <2>4 DEF Finish, PlaceInv, viewVars
  <2>5. ASSUME UNCHANGED <<at, left, dropped, subs>>, reader[w] \notin {"new", "refused", "over"},
               \E r \in {"ending", "reading", "asleep"} : reader' = [reader EXCEPT ![w] = r],
               \A v \in Viewer : /\ queue[v] = <<>> => queue'[v] = <<>>
                                 /\ v # w => got'[v] = got[v]
        PROVE  PlaceInv'
    <3>1. \A v \in Viewer :
             /\ reader'[v] = "over" <=> reader[v] = "over"
             /\ reader'[v] \in {"new", "refused"} <=> reader[v] \in {"new", "refused"}
      BY <2>5 DEF HubType
    <3>2. Viewers
      BY <2>5, <3>1 DEF PlaceInv
    <3>3. Places
      BY <2>5, <3>1 DEF PlaceInv
    <3> QED
      BY <3>2, <3>3 DEF PlaceInv
  <2>6. CASE StartReading(w)
    BY <2>5, <2>6 DEF StartReading, viewVars, queueVars
  <2>7. CASE Pull(w)
    <3>1. NextStep(w) \in {"ending", "reading", "asleep"}
      BY DEF NextStep
    <3>2. NextStep(w) = "reading" => queue[w] # <<>>
      BY DEF NextStep
    <3>3. \A v \in Viewer : /\ queue[v] = <<>> => queue'[v] = <<>>
                            /\ v # w => got'[v] = got[v]
      BY <2>7, <3>2 DEF Pull, HubType
    <3> QED
      BY <2>5, <2>7, <3>1, <3>3 DEF Pull
  <2> QED
    BY <1>3, <2>1, <2>3, <2>4, <2>6, <2>7 DEF View
<1> QED
  BY <1>1, <1>2, <1>3, StepCases DEF Quiet, viewVars, queueVars

(* The counts follow the queues, and neither passes its limit.             *)
LEMMA CountStep == HubType /\ OpenInv /\ CountInv /\ [Next]_vars => CountInv'
<1> SUFFICES ASSUME HubType, OpenInv, CountInv, [Next]_vars PROVE CountInv'
  OBVIOUS
<1> DEFINE Counted(q, b) == b = TotalBytes(q) /\ b <= QueueMaxBytes /\ Len(q) <= QueueMaxFrames
<1>1. Counted(<<>>, 0)
  BY BytesEmpty, HubAssumption
<1>2. \A v \in Viewer : /\ Counted(queue[v], bytes[v])
                        /\ queue[v] \in Seq(FrameType) /\ bytes[v] \in Int
  BY DEF CountInv, HubType
<1>3. CASE UNCHANGED <<queue, bytes>>
  BY <1>3 DEF CountInv
<1>4. ASSUME NEW t \in Turn, NEW f, Delivers(t, f) PROVE CountInv'
  <2> DEFINE full == {v \in subs[t] : Overflows(v, f)}
  <2>1. /\ \A v \in Viewer : queue'[v] = IF v \in full THEN <<>>
                                         ELSE IF v \in subs[t] \ full THEN Append(queue[v], f)
                                         ELSE queue[v]
        /\ \A v \in Viewer : bytes'[v] = IF v \in full THEN 0
                                         ELSE IF v \in subs[t] \ full THEN bytes[v] + FrameBytes(f)
                                         ELSE bytes[v]
    BY <1>4 DEF Delivers, Deliver
  <2>2. f \in FrameType /\ FrameBytes(f) \in Nat
    BY <1>4, DeliveredType, FrameBytesType
  <2>3. ASSUME NEW v \in Viewer, ~Overflows(v, f)
        PROVE  Counted(Append(queue[v], f), bytes[v] + FrameBytes(f))
    <3>1. TotalBytes(Append(queue[v], f)) = TotalBytes(queue[v]) + FrameBytes(f)
      BY <1>2, <2>2, BytesAppend
    <3>2. Len(Append(queue[v], f)) = Len(queue[v]) + 1 /\ Len(queue[v]) \in Nat
      BY <1>2, <2>2
    <3>3. bytes[v] = TotalBytes(queue[v]) /\ bytes[v] \in Int
      BY <1>2
    <3>4. /\ ~(Len(queue[v]) + 1 > QueueMaxFrames)
          /\ ~(bytes[v] + FrameBytes(f) > QueueMaxBytes)
      BY <2>3 DEF Overflows
    <3>5. bytes[v] + FrameBytes(f) <= QueueMaxBytes
      <4> DEFINE m == bytes[v] + FrameBytes(f)
      <4>1. m \in Int /\ ~(m > QueueMaxBytes)
        BY <2>2, <3>3, <3>4
      <4> HIDE DEF m
      <4>2. m <= QueueMaxBytes
        BY <4>1, HubAssumption
      <4> QED
        BY <4>2 DEF m
    <3>6. Len(queue[v]) + 1 <= QueueMaxFrames
      BY <3>2, <3>4, HubAssumption
    <3> QED
      BY <3>1, <3>2, <3>3, <3>5, <3>6
  <2>4. \A v \in subs[t] \ full : ~Overflows(v, f)
    OBVIOUS
  <2> HIDE DEF full, Counted
  <2>5. \A v \in Viewer : Counted(queue'[v], bytes'[v])
    BY <1>1, <1>2, <2>1, <2>3, <2>4
  <2> QED
    BY <2>5 DEF CountInv, Counted
<1>5. ASSUME NEW w \in Viewer, View(w), UNCHANGED turnVars PROVE CountInv'
  <2>1. CASE Detach(w)
    <3>1. \A v \in Viewer : /\ queue'[v] = IF v = w THEN <<>> ELSE queue[v]
                            /\ bytes'[v] = IF v = w THEN 0 ELSE bytes[v]
      BY <2>1 DEF Detach, HubType
    <3> HIDE DEF Counted
    <3>2. \A v \in Viewer : Counted(queue'[v], bytes'[v])
      BY <1>1, <1>2, <3>1
    <3> QED
      BY <3>2 DEF CountInv, Counted
  <2>2. CASE Pull(w) /\ NextStep(w) = "reading"
    <3>1. queue[w] # <<>>
      BY <2>2 DEF NextStep
    <3>2. \A v \in Viewer :
            /\ queue'[v] = IF v = w THEN Tail(queue[v]) ELSE queue[v]
            /\ bytes'[v] = IF v = w THEN bytes[v] - FrameBytes(Head(queue[v])) ELSE bytes[v]
      BY <2>2 DEF Pull, HubType
    <3>3. Counted(Tail(queue[w]), bytes[w] - FrameBytes(Head(queue[w])))
      <4> DEFINE h == FrameBytes(Head(queue[w]))
                 m == TotalBytes(Tail(queue[w]))
      <4>1. /\ Head(queue[w]) \in FrameType /\ Tail(queue[w]) \in Seq(FrameType)
            /\ Len(Tail(queue[w])) = Len(queue[w]) - 1 /\ Len(queue[w]) \in Nat
        BY <1>2, <3>1, HeadTailProperties
      <4>2. h \in Nat /\ m \in Nat
        BY <4>1, FrameBytesType, BytesType
      <4>3. bytes[w] = h + m /\ bytes[w] <= QueueMaxBytes /\ Len(queue[w]) <= QueueMaxFrames
        BY <1>2, <3>1, BytesTail
      <4> HIDE DEF h, m
      <4>4. bytes[w] - h = m /\ bytes[w] - h <= QueueMaxBytes
        BY <4>2, <4>3, HubAssumption
      <4>5. Len(Tail(queue[w])) <= QueueMaxFrames
        BY <4>1, <4>3, HubAssumption
      <4> QED
        BY <4>4, <4>5 DEF h, m
    <3> HIDE DEF Counted
    <3>4. \A v \in Viewer : Counted(queue'[v], bytes'[v])
      BY <1>2, <3>2, <3>3
    <3> QED
      BY <3>4 DEF CountInv, Counted
  <2> QED
    BY <1>3, <1>5, <2>1, <2>2 DEF View, Attach, Leave, StartReading, Pull, Finish, queueVars
<1> QED
  BY <1>3, <1>4, <1>5, StepCases DEF Quiet, queueVars

-----------------------------------------------------------------------------
(* What a viewer sees.                                                     *)
LEMMA PrefixFacts ==
    ASSUME NEW g \in Seq(FrameType), NEW q \in Seq(FrameType), NEW f \in FrameType
    PROVE  /\ IsPrefix(g, g \o q)
           /\ \A r \in Seq(FrameType) : IsPrefix(g, r) => IsPrefix(g, Append(r, f))
<1>1. IsPrefix(g, g \o q)
  <2>1. SubSeq(g \o q, 1, Len(g)) = SubSeq(g, 1, Len(g))
    OBVIOUS
  <2>2. Len(g) <= Len(g \o q)
    OBVIOUS
  <2> QED
    BY <2>1, <2>2 DEF IsPrefix
<1>2. ASSUME NEW r \in Seq(FrameType), IsPrefix(g, r) PROVE IsPrefix(g, Append(r, f))
  <2>1. Len(g) \in Nat /\ Len(r) \in Nat /\ Len(g) <= Len(r) /\ Len(Append(r, f)) = Len(r) + 1
    BY <1>2 DEF IsPrefix
  <2>2. SubSeq(Append(r, f), 1, Len(g)) = SubSeq(r, 1, Len(g))
    BY <2>1, FrontAppend
  <2>3. SubSeq(g, 1, Len(g)) = SubSeq(r, 1, Len(g))
    BY <1>2 DEF IsPrefix
  <2> QED
    BY <2>1, <2>2, <2>3 DEF IsPrefix
<1> QED
  BY <1>1, <1>2

(* Taking the head of the queue moves it to what was received.             *)
LEMMA HeadMoves ==
    ASSUME NEW g \in Seq(FrameType), NEW q \in Seq(FrameType), q # <<>>
    PROVE  Append(g, Head(q)) \o Tail(q) = g \o q
<1>1. /\ Head(q) \in FrameType /\ Tail(q) \in Seq(FrameType) /\ <<Head(q)>> \in Seq(FrameType)
      /\ q = <<Head(q)>> \o Tail(q)
  OBVIOUS
<1>2. Append(g, Head(q)) = g \o <<Head(q)>>
  BY <1>1, AppendIsConcat
<1>4. (g \o <<Head(q)>>) \o Tail(q) = g \o (<<Head(q)>> \o Tail(q))
  <2> DEFINE h == <<Head(q)>>
             t == Tail(q)
  <2>1. h \in Seq(FrameType) /\ t \in Seq(FrameType)
    BY <1>1
  <2> HIDE DEF h, t
  <2>2. (g \o h) \o t = g \o (h \o t)
    BY ONLY <2>1, Regrouped, SMTT(60)
  <2> QED
    BY <2>2 DEF h, t
<1>5. Append(g, Head(q)) \o Tail(q) = (g \o <<Head(q)>>) \o Tail(q)
  BY <1>2, Zenon
<1>6. g \o q = g \o (<<Head(q)>> \o Tail(q))
  BY <1>1, Zenon
<1> QED
  BY <1>4, <1>5, <1>6, Zenon

LEMMA QueueGrows ==
    ASSUME NEW g \in Seq(FrameType), NEW q \in Seq(FrameType), NEW f \in FrameType
    PROVE  g \o Append(q, f) = Append(g \o q, f)
<1>1. <<f>> \in Seq(FrameType) /\ g \o q \in Seq(FrameType)
  OBVIOUS
<1>2. Append(q, f) = q \o <<f>> /\ Append(g \o q, f) = (g \o q) \o <<f>>
  BY <1>1, AppendIsConcat
<1>4. (g \o q) \o <<f>> = g \o (q \o <<f>>)
  <2> DEFINE h == <<f>>
  <2>1. h \in Seq(FrameType)
    BY <1>1
  <2> HIDE DEF h
  <2>2. (g \o q) \o h = g \o (q \o h)
    BY ONLY <2>1, Regrouped, SMTT(60)
  <2> QED
    BY <2>2 DEF h
<1>5. g \o Append(q, f) = g \o (q \o <<f>>)
  BY <1>2, Zenon
<1> QED
  BY <1>2, <1>4, <1>5, Zenon

(* A viewer's stretch grows with what its turn delivers.                   *)
LEMMA SinceGrows ==
    ASSUME HubType, SnapInv, NEW t \in Turn, NEW f, Delivers(t, f),
           NEW v \in Viewer, at[v] # NoTurn
    PROVE  /\ Since(v) \in Seq(FrameType)
           /\ Since(v)' = IF at[v] = t THEN Append(Since(v), f) ELSE Since(v)
<1>1. /\ f \in FrameType /\ sent' = [sent EXCEPT ![t] = Append(@, f)]
      /\ UNCHANGED <<at, since>>
  BY DeliveredType DEF Delivers, Deliver, viewVars
<1>2. at[v] \in Turn /\ sent[at[v]] \in Seq(FrameType) /\ since[v] \in 0..Len(sent[at[v]])
  BY DEF HubType, SnapInv
<1>3. Since(v) \in Seq(FrameType)
  BY <1>2 DEF Since
<1>4. Since(v)' = SubSeq(sent'[at[v]], since[v] + 1, Len(sent'[at[v]]))
  BY <1>1 DEF Since
<1>5. CASE at[v] = t
  <2>1. sent'[at[v]] = Append(sent[at[v]], f)
    BY <1>1, <1>2, <1>5 DEF HubType
  <2>2. Since(v)' = Append(Since(v), f)
    BY <1>1, <1>2, <1>4, <2>1, RestAppend DEF Since
  <2> QED
    BY <1>3, <1>5, <2>2
<1>6. CASE at[v] # t
  <2>1. sent'[at[v]] = sent[at[v]]
    BY <1>1, <1>2, <1>6 DEF HubType
  <2> QED
    BY <1>3, <1>4, <1>6, <2>1 DEF Since
<1> QED
  BY <1>5, <1>6

LEMMA ViewStep ==
    HubType /\ OpenInv /\ SnapInv /\ PlaceInv /\ ViewInv /\ RestInv /\ [Next]_vars => ViewInv'
<1> SUFFICES ASSUME HubType, OpenInv, SnapInv, PlaceInv, ViewInv, RestInv, [Next]_vars
             PROVE  ViewInv'
  OBVIOUS
<1>1. CASE UNCHANGED <<at, since, sent, left, dropped, got, queue>>
  BY <1>1 DEF ViewInv, Since
<1>2. ASSUME NEW t \in Turn, NEW f, Delivers(t, f) PROVE ViewInv'
  <2> DEFINE full == {v \in subs[t] : Overflows(v, f)}
  <2>1. f \in FrameType /\ UNCHANGED <<at, left, got>>
    BY <1>2, DeliveredType DEF Delivers, viewVars
  <2>2. /\ dropped' = dropped \cup full
        /\ \A v \in Viewer : queue'[v] = IF v \in full THEN <<>>
                                         ELSE IF v \in subs[t] \ full THEN Append(queue[v], f)
                                         ELSE queue[v]
    BY <1>2 DEF Delivers, Deliver
  <2> HIDE DEF full
  <2> SUFFICES ASSUME NEW v \in Viewer, at[v] # NoTurn
               PROVE  /\ v \notin left \cup dropped' => got[v] \o queue'[v] = Since(v)'
                      /\ IsPrefix(got[v], Since(v)')
    BY <2>1 DEF ViewInv
  <2>3. got[v] \in Seq(FrameType) /\ queue[v] \in Seq(FrameType)
    BY DEF HubType
  <2>4. /\ Since(v) \in Seq(FrameType)
        /\ Since(v)' = IF at[v] = t THEN Append(Since(v), f) ELSE Since(v)
    BY <1>2, SinceGrows
  <2>5. /\ v \notin left \cup dropped => got[v] \o queue[v] = Since(v)
        /\ IsPrefix(got[v], Since(v))
    BY DEF ViewInv
  <2>6. IsPrefix(got[v], Since(v)')
    BY <2>1, <2>3, <2>4, <2>5, PrefixFacts
  <2>7. ASSUME v \notin left \cup dropped' PROVE got[v] \o queue'[v] = Since(v)'
    <3>1. v \notin left \cup dropped /\ v \notin full
      BY <2>2, <2>7
    <3>2. CASE at[v] = t
      <4>1. reader[v] # "over"
        BY <1>2, <3>1, <3>2 DEF RestInv, Delivers
      <4>2. v \in subs[t]
        BY <3>1, <3>2, <4>1 DEF PlaceInv
      <4>3. queue'[v] = Append(queue[v], f)
        BY <2>2, <3>1, <4>2
      <4>4. got[v] \o Append(queue[v], f) = Append(got[v] \o queue[v], f)
        BY <2>1, <2>3, QueueGrows
      <4> QED
        BY <2>4, <2>5, <3>1, <3>2, <4>3, <4>4
    <3>3. CASE at[v] # t
      <4>1. v \notin subs[t]
        BY <3>3 DEF PlaceInv
      <4> QED
        BY <2>2, <2>4, <2>5, <3>1, <3>3, <4>1
    <3> QED
      BY <3>2, <3>3
  <2> QED
    BY <2>6, <2>7
<1>3. ASSUME NEW w \in Viewer, View(w), UNCHANGED turnVars PROVE ViewInv'
  <2>1. UNCHANGED sent
    BY <1>3 DEF turnVars
  <2>2. CASE Attach(w)
    <3>1. /\ at[w] = NoTurn /\ queue[w] = <<>> /\ got[w] = <<>>
          /\ UNCHANGED <<queue, dropped, left, got>>
      BY <2>2 DEF Attach, PlaceInv
    <3>2. CASE UNCHANGED <<at, since>>
      BY <1>1, <2>1, <3>1, <3>2
    <3>3. CASE entry # NoTurn /\ Subscribe(w, entry)
      <4>1. /\ entry \in Turn /\ sent[entry] \in Seq(FrameType)
            /\ at'[w] = entry /\ since'[w] = Len(sent[entry])
        BY <3>3 DEF Subscribe, HubType
      <4>2. SubSeq(sent[entry], Len(sent[entry]) + 1, Len(sent[entry])) = <<>>
        <5>1. Len(sent[entry]) \in Int /\ Len(sent[entry]) + 1 \in Int
              /\ Len(sent[entry]) < Len(sent[entry]) + 1
          BY <4>1
        <5> QED
          BY <5>1, SubSeqEmpty
      <4>3. Since(w)' = <<>>
        <5>1. Since(w)' = SubSeq(sent'[at'[w]], since'[w] + 1, Len(sent'[at'[w]]))
          BY DEF Since
        <5>2. sent'[at'[w]] = sent[entry] /\ since'[w] = Len(sent[entry])
          BY <2>1, <4>1
        <5> QED
          BY <4>2, <5>1, <5>2
      <4>4. IsPrefix(<<>>, <<>>) /\ <<>> \o <<>> = <<>>
        BY DEF IsPrefix
      <4>5. ASSUME NEW v \in Viewer, v # w PROVE at'[v] = at[v] /\ Since(v)' = Since(v)
        <5>1. at'[v] = at[v] /\ since'[v] = since[v]
          BY <3>3, <4>5 DEF Subscribe, HubType
        <5>2. Since(v)' = SubSeq(sent'[at'[v]], since'[v] + 1, Len(sent'[at'[v]]))
          BY DEF Since
        <5> QED
          BY <2>1, <5>1, <5>2 DEF Since
      <4>6. ASSUME NEW v \in Viewer, at'[v] # NoTurn
            PROVE  /\ v \notin left \cup dropped => got[v] \o queue[v] = Since(v)'
                   /\ IsPrefix(got[v], Since(v)')
        <5>1. CASE v = w
          BY <3>1, <4>3, <4>4, <5>1
        <5>2. CASE v # w
          BY <4>5, <4>6, <5>2 DEF ViewInv
        <5> QED
          BY <5>1, <5>2
      <4> QED
        BY <3>1, <4>6 DEF ViewInv
    <3> QED
      BY <2>2, <3>2, <3>3 DEF Attach
  <2>3. CASE Leave(w)
    <3>1. /\ UNCHANGED <<at, since, got, dropped>> /\ left' = left \cup {w}
          /\ \A v \in Viewer : v # w => queue'[v] = queue[v]
      BY <2>3 DEF Leave, Detach, HubType
    <3>2. \A v \in Viewer : Since(v)' = Since(v)
      BY <2>1, <3>1 DEF Since
    <3> QED
      BY <3>1, <3>2 DEF ViewInv
  <2>4. CASE StartReading(w)
    BY <1>1, <2>1, <2>4 DEF StartReading, viewVars, queueVars
  <2>5. CASE Pull(w) /\ NextStep(w) = "reading"
    <3>1. queue[w] # <<>> /\ w \notin dropped
      BY <2>5 DEF NextStep
    <3>2. /\ UNCHANGED <<at, since, left, dropped>>
          /\ \A v \in Viewer : v # w => queue'[v] = queue[v] /\ got'[v] = got[v]
          /\ queue'[w] = Tail(queue[w]) /\ got'[w] = Append(got[w], Head(queue[w]))
      BY <2>5 DEF Pull, HubType
    <3>3. got[w] \in Seq(FrameType) /\ queue[w] \in Seq(FrameType)
      BY DEF HubType
    <3>4. got'[w] \o queue'[w] = got[w] \o queue[w]
      BY <3>1, <3>2, <3>3, HeadMoves
    <3>5. at[w] # NoTurn /\ w \notin left
      BY <2>5 DEF Pull, PlaceInv
    <3>6. got[w] \o queue[w] = Since(w)
      BY <3>1, <3>5 DEF ViewInv
    <3>7. IsPrefix(got'[w], Since(w))
      <4>1. /\ Head(queue[w]) \in FrameType /\ Tail(queue[w]) \in Seq(FrameType)
            /\ got'[w] \in Seq(FrameType) /\ queue'[w] \in Seq(FrameType)
        BY <3>1, <3>2, <3>3
      <4>2. IsPrefix(got'[w], got'[w] \o queue'[w])
        BY <4>1, PrefixFacts
      <4> QED
        BY <3>4, <3>6, <4>2
    <3>8. \A v \in Viewer : Since(v)' = Since(v)
      BY <2>1, <3>2 DEF Since
    <3>9. ASSUME NEW v \in Viewer, at[v] # NoTurn
          PROVE  /\ v \notin left \cup dropped => got'[v] \o queue'[v] = Since(v)
                 /\ IsPrefix(got'[v], Since(v))
      <4>1. CASE v = w
        BY <3>4, <3>6, <3>7, <4>1
      <4>2. CASE v # w
        BY <3>2, <3>9, <4>2 DEF ViewInv
      <4> QED
        BY <4>1, <4>2
    <3> QED
      BY <3>2, <3>8, <3>9 DEF ViewInv
  <2>6. CASE Pull(w) /\ NextStep(w) # "reading"
    BY <1>1, <2>1, <2>6 DEF Pull
  <2>7. CASE Finish(w)
    <3>1. /\ UNCHANGED <<at, since, got, dropped, left>> /\ queue'[w] = <<>>
          /\ \A v \in Viewer : v # w => queue'[v] = queue[v]
      BY <2>7 DEF Finish, Detach, HubType, viewVars
    <3>2. \A v \in Viewer : Since(v)' = Since(v)
      BY <2>1, <3>1 DEF Since
    <3>3. w \in dropped \/ queue[w] = <<>>
      BY <2>7 DEF Finish, RestInv
    <3> QED
      BY <3>1, <3>2, <3>3 DEF ViewInv
  <2> QED
    BY <1>3, <2>2, <2>3, <2>4, <2>5, <2>6, <2>7 DEF View
<1> QED
  BY <1>1, <1>2, <1>3, StepCases DEF Quiet, viewVars, queueVars

(* Nobody is asleep while there is something to be told.                   *)
LEMMA RestStep ==
    /\ HubType /\ OpenInv /\ EndInv /\ SnapInv /\ PlaceInv /\ ViewInv /\ RestInv
    /\ [Next]_vars
    => RestInv'
<1> SUFFICES ASSUME HubType, OpenInv, EndInv, SnapInv, PlaceInv, ViewInv, RestInv, [Next]_vars
             PROVE  RestInv'
  OBVIOUS
<1>1. CASE UNCHANGED <<at, reader, ended, left, dropped, got, queue>>
  BY <1>1 DEF RestInv
<1>2. ASSUME NEW t \in Turn, NEW f, Delivers(t, f) PROVE RestInv'
  <2> DEFINE full == {v \in subs[t] : Overflows(v, f)}
  <2>1. UNCHANGED <<at, left, got>> /\ t \notin ended /\ ended' \in {ended, ended \cup {t}}
    BY <1>2 DEF Delivers, viewVars
  <2>2. /\ dropped' = dropped \cup full
        /\ \A v \in Viewer : v \notin subs[t] => queue'[v] = queue[v]
        /\ \A v \in Viewer : reader'[v] = IF v \in subs[t] /\ reader[v] = "asleep" THEN "awake"
                                          ELSE reader[v]
    BY <1>2 DEF Delivers, Deliver
  <2>3. full \subseteq subs[t]
    OBVIOUS
  <2> HIDE DEF full
  <2> SUFFICES ASSUME NEW v \in Viewer
               PROVE  /\ reader'[v] = "asleep" => queue'[v] = <<>> /\ v \notin dropped'
                                                   /\ at[v] \notin ended'
                      /\ reader'[v] = "ending" =>
                           \/ v \in dropped'
                           \/ queue'[v] = <<>> /\ at[v] \in ended' /\ Contains(got[v], Terminal)
                      /\ reader'[v] = "over" => \/ v \in left \cup dropped'
                                                \/ at[v] \in ended' /\ Contains(got[v], Terminal)
    BY <2>1 DEF RestInv
  <2>4. CASE v \in subs[t]
    <3>1. at[v] = t /\ reader[v] # "over" /\ v \notin dropped
      BY <2>4 DEF PlaceInv
    <3>2. reader[v] # "ending"
      BY <2>1, <3>1 DEF RestInv
    <3> QED
      BY <2>2, <2>4, <3>1, <3>2
  <2>5. CASE v \notin subs[t]
    <3>1. reader'[v] = reader[v] /\ queue'[v] = queue[v] /\ v \notin full
      BY <2>2, <2>3, <2>5
    <3>2. reader[v] = "asleep" => at[v] # t
      BY <2>5 DEF PlaceInv, RestInv
    <3> QED
      BY <2>1, <2>2, <3>1, <3>2 DEF RestInv
  <2> QED
    BY <2>4, <2>5
<1>3. ASSUME NEW w \in Viewer, View(w), UNCHANGED turnVars PROVE RestInv'
  <2>1. UNCHANGED <<sent, ended>>
    BY <1>3 DEF turnVars
  <2>2. CASE Attach(w)
    <3>1. /\ reader'[w] \in {"auth", "refused"} /\ UNCHANGED <<queue, dropped, left, got>>
          /\ \A v \in Viewer : v # w => reader'[v] = reader[v] /\ at'[v] = at[v]
      BY <2>2 DEF Attach, Subscribe, HubType
    <3> QED
      BY <2>1, <3>1 DEF RestInv
  <2>3. ASSUME Detach(w), UNCHANGED <<at, got>>, left' \in {left, left \cup {w}},
               w \in left' \/ reader[w] = "ending"
        PROVE  RestInv'
    <3>1. /\ reader'[w] = "over" /\ UNCHANGED dropped
          /\ \A v \in Viewer : v # w => reader'[v] = reader[v] /\ queue'[v] = queue[v]
      BY <2>3 DEF Detach, HubType
    <3> QED
      BY <2>1, <2>3, <3>1 DEF RestInv
  <2>4. CASE Leave(w)
    BY <2>3, <2>4 DEF Leave
  <2>5. CASE Finish(w)
    BY <2>3, <2>5 DEF Finish, viewVars
  <2>6. CASE StartReading(w)
    <3>1. /\ reader'[w] = "reading" /\ UNCHANGED <<at, queue, dropped, left, got>>
          /\ \A v \in Viewer : v # w => reader'[v] = reader[v]
      BY <2>6 DEF StartReading, HubType, queueVars, viewVars
    <3> QED
      BY <2>1, <3>1 DEF RestInv
  <2>7. CASE Pull(w)
    <3>1. /\ reader'[w] = NextStep(w) /\ UNCHANGED <<at, left, dropped>>
          /\ \A v \in Viewer : v # w => /\ reader'[v] = reader[v] /\ queue'[v] = queue[v]
                                        /\ got'[v] = got[v]
      BY <2>7 DEF Pull, HubType
    <3>2. CASE NextStep(w) = "reading"
      BY <2>1, <3>1, <3>2 DEF RestInv
    <3>3. CASE NextStep(w) = "ending"
      <4>1. UNCHANGED <<got, queue>>
        BY <2>7, <3>3 DEF Pull
      <4>2. \/ w \in dropped
            \/ queue[w] = <<>> /\ at[w] \in ended /\ Contains(got[w], Terminal)
        BY <3>3 DEF NextStep
      <4> QED
        BY <2>1, <3>1, <3>3, <4>1, <4>2 DEF RestInv
    <3>4. CASE NextStep(w) = "asleep"
      <4>1. UNCHANGED <<got, queue>>
        BY <2>7, <3>4 DEF Pull
      <4>2. /\ w \notin dropped /\ queue[w] = <<>>
            /\ ~(at[w] \in ended /\ Contains(got[w], Terminal))
        BY <3>4 DEF NextStep
      <4>3. at[w] \in ended => Contains(got[w], Terminal)
        <5> SUFFICES ASSUME at[w] \in ended PROVE Contains(got[w], Terminal)
          OBVIOUS
        <5> DEFINE s == sent[at[w]]
                   n == Len(s)
                   k == since[w]
        <5>1. at[w] \in Turn /\ at[w] # NoTurn /\ w \notin left
          BY <2>7, HubAssumption DEF HubType, Pull, PlaceInv
        <5>2. s \in Seq(FrameType) /\ k \in Nat /\ n \in Nat
          BY <5>1 DEF HubType
        <5>3. k < n
          BY <5>1 DEF SnapInv
        <5>4. s[n] = Terminal
          BY <5>1, <5>2, <5>3 DEF EndInv
        <5>5. got[w] = SubSeq(s, k + 1, n)
          <6>1. got[w] \o <<>> = got[w]
            BY DEF HubType
          <6> QED
            BY <4>2, <5>1, <6>1 DEF ViewInv, Since
        <5> HIDE DEF s, n, k
        <5>6. n \in DOMAIN s /\ n - k \in 1..(n - k) /\ n = (k + 1) + (n - k) - 1
          BY <5>2, <5>3 DEF n
        <5>7. /\ Len(SubSeq(s, k + 1, n)) = n - k
              /\ SubSeq(s, k + 1, n)[n - k] = s[n]
          BY <5>2, <5>3, <5>6 DEF n
        <5> QED
          BY <5>4, <5>5, <5>6, <5>7 DEF Contains
      <4> QED
        BY <2>1, <3>1, <3>4, <4>1, <4>2, <4>3 DEF RestInv
    <3> QED
      BY <3>2, <3>3, <3>4 DEF NextStep
  <2> QED
    BY <1>3, <2>2, <2>4, <2>5, <2>6, <2>7 DEF View
<1> QED
  BY <1>1, <1>2, <1>3, StepCases DEF Quiet, viewVars, queueVars

-----------------------------------------------------------------------------
(* The invariant holds initially, is kept, and implies the properties.     *)
LEMMA HubInit == Init => HubInv
<1> SUFFICES ASSUME Init PROVE HubInv
  OBVIOUS
<1> USE HubAssumption DEF Init
<1>1. <<>> \in Seq(FrameType) /\ [frames |-> <<>>, bytes |-> 0, kept |-> TRUE] \in DigestType
  BY DEF DigestType
<1>2. HubType
  BY <1>1 DEF HubType, Readers
<1>3. OpenInv /\ EndInv
  BY DEF OpenInv, EndInv
<1>4. Proper(<<>>) /\ OneEach(<<>>)
  BY DEF Proper, OneEach
<1>5. DigestInv
  BY <1>4, BytesEmpty DEF DigestInv, Faithful
<1>6. SnapInv /\ ViewInv
  BY DEF SnapInv, ViewInv
<1>7. PlaceInv
  BY DEF PlaceInv
<1>8. CountInv
  BY BytesEmpty DEF CountInv
<1>9. RestInv
  BY DEF RestInv
<1> QED
  BY <1>2, <1>3, <1>5, <1>6, <1>7, <1>8, <1>9 DEF HubInv

LEMMA HubStep == HubInv /\ [Next]_vars => HubInv'
  BY TypeStep, OpenStep, EndStep, DigestStep, SnapStep, PlaceStep, CountStep, ViewStep, RestStep
     DEF HubInv

LEMMA HubInvariant == Spec => []HubInv
  BY HubInit, HubStep, PTL DEF Spec

(* Every component has its type, and no queue of a subscriber is past the  *)
(* limits of createSubscriberQueue, whatever the turns publish.            *)
THEOREM HubTyped == Spec => []TypeOK
<1>1. HubInv => TypeOK
  <2> SUFFICES ASSUME HubInv PROVE TypeOK
    OBVIOUS
  <2>1. HubType /\ CountInv
    BY DEF HubInv
  <2>2. ASSUME NEW v \in Viewer PROVE bytes[v] \in 0..QueueMaxBytes
    <3>1. bytes[v] = TotalBytes(queue[v]) /\ bytes[v] <= QueueMaxBytes
      BY <2>1 DEF CountInv
    <3>2. TotalBytes(queue[v]) \in Nat
      BY <2>1, BytesType DEF HubType
    <3> QED
      BY <3>1, <3>2, HubAssumption
  <2>3. \A t \in Turn : /\ digest[t].frames \in Seq(FrameType)
                        /\ digest[t].bytes \in Nat /\ digest[t].kept \in BOOLEAN
                        /\ sent[t] \in Seq(FrameType)
    BY <2>1 DEF HubType, DigestType
  <2>4. \A v \in Viewer : /\ queue[v] \in Seq(FrameType) /\ Len(queue[v]) <= QueueMaxFrames
                          /\ got[v] \in Seq(FrameType)
    BY <2>1 DEF HubType, CountInv
  <2> QED
    BY <2>1, <2>2, <2>3, <2>4 DEF TypeOK, HubType
<1> QED
  BY <1>1, HubInvariant, PTL

(* A viewer that is still attached has seen, with what is queued for it,   *)
(* every frame since it attached, in order and once; its snapshot reads    *)
(* like all that came before, however appendCoalesced merged it.           *)
THEOREM ViewsAreExact == Spec => []ViewIsExact
<1>1. HubInv => ViewIsExact
  <2> SUFFICES ASSUME HubInv, NEW v \in Viewer, at[v] # NoTurn, v \notin left
               PROVE  LET all == sent[at[v]] IN
                      /\ v \notin dropped =>
                           got[v] \o queue[v] = SubSeq(all, since[v] + 1, Len(all))
                      /\ IsPrefix(got[v], SubSeq(all, since[v] + 1, Len(all)))
                      /\ snap[v].kept => \A c \in Calls :
                           Text(snap[v].frames, c) = Text(SubSeq(all, 1, since[v]), c)
    BY DEF ViewIsExact
  <2>1. /\ v \notin dropped => got[v] \o queue[v] = Since(v)
        /\ IsPrefix(got[v], Since(v))
    BY DEF HubInv, ViewInv
  <2>2. ReadsLike(snap[v], SubSeq(sent[at[v]], 1, since[v]))
    BY DEF HubInv, SnapInv
  <2> QED
    BY <2>1, <2>2 DEF Since, ReadsLike
<1> QED
  BY <1>1, HubInvariant, PTL

(* The byte counts of the digests and of the queues are the bytes kept,    *)
(* and a turn's places are held by exactly the viewers that still read:    *)
(* no merge, overflow or departure leaks either.                           *)
THEOREM CountsAreExact == Spec => []AccountsAreExact
<1>1. HubInv => AccountsAreExact
  BY DEF HubInv, AccountsAreExact, DigestInv, Faithful, CountInv, PlaceInv
<1> QED
  BY <1>1, HubInvariant, PTL

(* A turn that ended has delivered its terminal frame, once and last; no   *)
(* wake-up is lost, and a stream that ended by itself has shown that frame *)
(* or was dropped.                                                         *)
THEOREM EndsReachViewers == Spec => []EndsAreTold
<1>1. HubInv => EndsAreTold
  BY DEF HubInv, EndsAreTold, EndInv, RestInv, Told
<1> QED
  BY <1>1, HubInvariant, PTL
=============================================================================
