----------------------- MODULE BridgeProcess_proofs ------------------------
(***************************************************************************)
(* Proofs about the bridge process around its turns.                       *)
(*                                                                         *)
(* BridgeGateway, for any messages and any capacity of the memory: a       *)
(* message is handled again only when Capacity others were sighted since,  *)
(* and nothing is released before the last task that uses it.              *)
(*                                                                         *)
(* BridgeHealth, for any interval, lateness and time to live that go       *)
(* together: the probe's verdict is right both ways.                       *)
(*                                                                         *)
(* PersonaWebhooks, for any number of tasks, channels and webhook ids: its *)
(* lock discipline gives every channel at most one persona webhook and     *)
(* every post a webhook owns_webhook knows.                                *)
(***************************************************************************)
EXTENDS PersonaWebhooks, BridgeGateway, BridgeHealth, TLAPS, SequenceTheorems,
        FiniteSetTheorems

(* A sequence without repetition.                                           *)
Line(S, q) == q \in Seq(S) /\ IsInjective(q)

LEMMA LineAppend ==
  ASSUME NEW S, NEW q, Line(S, q), NEW x \in S, \A i \in DOMAIN q : q[i] # x
  PROVE  /\ Line(S, Append(q, x)) /\ DOMAIN Append(q, x) = 1..(Len(q) + 1)
         /\ \A i \in DOMAIN q : i \in 1..Len(q) /\ Append(q, x)[i] = q[i]
         /\ Append(q, x)[Len(q) + 1] = x
<1> DEFINE r == Append(q, x)
<1>1. q \in Seq(S) /\ Len(q) \in Nat /\ DOMAIN q = 1..Len(q)
  BY DEF Line
<1>2. /\ r \in Seq(S) /\ DOMAIN r = 1..(Len(q) + 1)
      /\ \A i \in 1..Len(q) : r[i] = q[i]
      /\ r[Len(q) + 1] = x
  BY <1>1
<1> HIDE DEF r
<1>3. ASSUME NEW a \in DOMAIN r, NEW b \in DOMAIN r, r[a] = r[b] PROVE a = b
  <2>1. CASE a \in 1..Len(q) /\ b \in 1..Len(q)
    BY <1>1, <1>2, <1>3, <2>1 DEF Line, IsInjective
  <2>2. CASE a = Len(q) + 1 \/ b = Len(q) + 1
    BY <1>1, <1>2, <1>3, <2>2
  <2> QED BY <1>1, <1>2, <2>1, <2>2
<1> QED BY <1>1, <1>2, <1>3 DEF Line, IsInjective, r

LEMMA LineTail ==
  ASSUME NEW S, NEW q, Line(S, q), q # <<>>
  PROVE  /\ Line(S, Tail(q)) /\ Len(q) \in Nat /\ DOMAIN q = 1..Len(q)
         /\ Head(q) = q[1] /\ 1 \in DOMAIN q
         /\ Len(Tail(q)) = Len(q) - 1 /\ DOMAIN Tail(q) = 1..(Len(q) - 1)
         /\ \A i \in DOMAIN Tail(q) : /\ i + 1 \in DOMAIN q
                                      /\ Tail(q)[i] = q[i + 1]
                                      /\ Tail(q)[i] # Head(q)
         /\ \A i \in DOMAIN q : i # 1 => i - 1 \in DOMAIN Tail(q)
<1> DEFINE r == Tail(q)
<1>1. q \in Seq(S) /\ Len(q) \in Nat /\ Len(q) > 0 /\ DOMAIN q = 1..Len(q)
  BY DEF Line
<1>2. /\ r \in Seq(S) /\ Len(r) = Len(q) - 1 /\ DOMAIN r = 1..(Len(q) - 1)
      /\ \A i \in 1..(Len(q) - 1) : r[i] = q[i + 1]
      /\ Head(q) = q[1]
  BY <1>1
<1> HIDE DEF r
<1>3. \A i \in DOMAIN r : i + 1 \in DOMAIN q /\ i + 1 # 1
  BY <1>1, <1>2
<1>4. ASSUME NEW a \in DOMAIN r, NEW b \in DOMAIN r, r[a] = r[b] PROVE a = b
  <2>1. a + 1 = b + 1
    BY <1>2, <1>3, <1>4 DEF Line, IsInjective
  <2> QED BY <1>1, <1>2, <2>1
<1>5. \A i \in DOMAIN r : r[i] # q[1]
  BY <1>1, <1>2, <1>3 DEF Line, IsInjective
<1>6. \A i \in DOMAIN q : i # 1 => i - 1 \in DOMAIN r
  BY <1>1, <1>2
<1>7. 1 \in DOMAIN q
  BY <1>1
<1> QED BY <1>1, <1>2, <1>3, <1>4, <1>5, <1>6, <1>7 DEF Line, IsInjective, r

LEMMA LineRemove ==
  ASSUME NEW S, NEW q, Line(S, q), NEW k \in DOMAIN q
  PROVE  LET r == RemoveAt(q, k)
             from(i) == IF i < k THEN i ELSE i + 1
         IN  /\ Line(S, r) /\ DOMAIN r = 1..(Len(q) - 1)
             /\ \A i \in DOMAIN r : /\ from(i) \in DOMAIN q /\ from(i) # k
                                    /\ r[i] = q[from(i)]
             /\ Len(q) \in Nat /\ DOMAIN q = 1..Len(q)
<1> DEFINE n == Len(q)
           a == SubSeq(q, 1, k - 1)
           b == SubSeq(q, k + 1, n)
           r == RemoveAt(q, k)
           from(i) == IF i < k THEN i ELSE i + 1
<1>1. q \in Seq(S) /\ n \in Nat /\ DOMAIN q = 1..n /\ k \in 1..n
  BY DEF Line
<1>2. r = a \o b
  BY DEF RemoveAt
<1> HIDE DEF n
<1>3. /\ a \in Seq(S) /\ Len(a) = k - 1
      /\ \A i \in 1..(k - 1) : a[i] = q[i]
  BY <1>1
<1>4. /\ b \in Seq(S) /\ Len(b) = n - k
      /\ \A i \in 1..(n - k) : b[i] = q[k + i]
  BY <1>1
<1> HIDE DEF a, b
<1>5. /\ a \o b \in Seq(S) /\ Len(a \o b) = Len(a) + Len(b)
      /\ \A i \in 1..(Len(a) + Len(b)) :
           (a \o b)[i] = IF i <= Len(a) THEN a[i] ELSE b[i - Len(a)]
  BY <1>3, <1>4, ConcatProperties
<1> HIDE DEF r
<1>6. r \in Seq(S) /\ Len(r) = n - 1 /\ DOMAIN r = 1..(n - 1)
  <2>1. Len(a) + Len(b) = n - 1
    BY <1>1, <1>3, <1>4
  <2>2. r \in Seq(S) /\ Len(r) = n - 1
    BY <1>2, <1>5, <2>1
  <2> QED BY <2>2
<1>7. ASSUME NEW i \in DOMAIN r
      PROVE  from(i) \in 1..n /\ from(i) # k /\ r[i] = q[from(i)]
  <2>1. i \in 1..(Len(a) + Len(b)) /\ i \in 1..(n - 1)
    BY <1>1, <1>3, <1>4, <1>6
  <2>2. CASE i < k
    BY <1>1, <1>2, <1>3, <1>5, <2>1, <2>2
  <2>3. CASE ~(i < k)
    <3>1. ~(i <= Len(a)) /\ i - Len(a) \in 1..(n - k) /\ k + (i - Len(a)) = i + 1
      BY <1>1, <1>3, <2>1, <2>3
    <3>2. r[i] = q[i + 1]
      BY <1>2, <1>4, <1>5, <2>1, <3>1
    <3> QED BY <1>1, <2>1, <2>3, <3>2
  <2> QED BY <2>2, <2>3
<1>8. ASSUME NEW i \in DOMAIN r, NEW j \in DOMAIN r, r[i] = r[j] PROVE i = j
  <2>1. from(i) = from(j)
    <3>1. q[from(i)] = q[from(j)] /\ from(i) \in DOMAIN q /\ from(j) \in DOMAIN q
      BY <1>1, <1>7, <1>8
    <3> HIDE DEF from
    <3> QED BY <3>1 DEF Line, IsInjective
  <2> QED BY <1>1, <1>6, <2>1
<1>9. Line(S, r)
  BY <1>6, <1>8 DEF Line, IsInjective
<1> QED BY <1>1, <1>6, <1>7, <1>9 DEF n, r


-----------------------------------------------------------------------------
(* What follows an id was sighted since the id was.                         *)
InOrder(q, s) == \A i, j \in DOMAIN q : i < j => q[j] \in s[q[i]]

(* sighted once m is sighted.                                               *)
AfterSighting(s, m) ==
  [n \in Messages |-> IF n = m THEN {} ELSE s[n] \cup {m}]

(* A new id is in order at the end.                                         *)
LEMMA InOrderAtTheEnd ==
  ASSUME NEW q, Line(Messages, q), NEW m \in Messages,
         \A i \in DOMAIN q : q[i] # m,
         NEW s \in [Messages -> SUBSET Messages], InOrder(q, s)
  PROVE  InOrder(Append(q, m), AfterSighting(s, m))
<1> DEFINE r == Append(q, m)
           z == AfterSighting(s, m)
<1>1. /\ DOMAIN r = 1..(Len(q) + 1)
      /\ \A i \in DOMAIN q : r[i] = q[i]
      /\ r[Len(q) + 1] = m
  BY LineAppend
<1>2. Len(q) \in Nat /\ DOMAIN q = 1..Len(q) /\ \A i \in DOMAIN q : q[i] \in Messages
  BY DEF Line
<1>3. \A n \in Messages : n # m => z[n] = s[n] \cup {m}
  BY DEF AfterSighting
<1> HIDE DEF r, z
<1>4. ASSUME NEW i \in DOMAIN r, NEW j \in DOMAIN r, i < j
      PROVE  r[j] \in z[r[i]]
  <2>1. i \in DOMAIN q /\ r[i] = q[i] /\ z[q[i]] = s[q[i]] \cup {m}
    BY <1>1, <1>2, <1>3, <1>4
  <2>2. CASE j \in DOMAIN q
    BY <1>1, <1>4, <2>1, <2>2 DEF InOrder
  <2>3. CASE j = Len(q) + 1
    BY <1>1, <2>1, <2>3
  <2> QED BY <1>1, <1>2, <2>2, <2>3
<1> QED BY <1>4 DEF InOrder, r, z

(* The rest of a sequence in order is in order.                             *)
LEMMA InOrderWithoutHead ==
  ASSUME NEW q, Line(Messages, q), q # <<>>, NEW s, InOrder(q, s)
  PROVE  /\ InOrder(Tail(q), s)
         /\ \A i \in DOMAIN Tail(q) : Tail(q)[i] \in s[Head(q)]
<1> DEFINE r == Tail(q)
<1>1. /\ Len(q) \in Nat /\ DOMAIN q = 1..Len(q)
      /\ Head(q) = q[1] /\ 1 \in DOMAIN q
      /\ DOMAIN r = 1..(Len(q) - 1)
      /\ \A i \in DOMAIN r : i + 1 \in DOMAIN q /\ r[i] = q[i + 1]
  BY LineTail
<1> HIDE DEF r
<1>2. ASSUME NEW i \in DOMAIN r, NEW j \in DOMAIN r, i < j
      PROVE  r[j] \in s[r[i]]
  <2>1. i + 1 < j + 1
    BY <1>1, <1>2
  <2> QED BY <1>1, <2>1 DEF InOrder
<1>3. ASSUME NEW i \in DOMAIN r PROVE r[i] \in s[Head(q)]
  <2>1. 1 < i + 1
    BY <1>1, <1>3
  <2> QED BY <1>1, <2>1 DEF InOrder
<1> QED BY <1>2, <1>3 DEF InOrder, r

(* A sequence in order is in order without one of its elements, and has the *)
(* others.                                                                  *)
LEMMA InOrderWithout ==
  ASSUME NEW q, Line(Messages, q), NEW k \in DOMAIN q, NEW s, InOrder(q, s)
  PROVE  /\ Line(Messages, RemoveAt(q, k)) /\ InOrder(RemoveAt(q, k), s)
         /\ Len(q) \in Nat /\ Len(RemoveAt(q, k)) = Len(q) - 1
         /\ \A i \in DOMAIN RemoveAt(q, k) : RemoveAt(q, k)[i] # q[k]
         /\ \A i \in DOMAIN q : i # k =>
              \E j \in DOMAIN RemoveAt(q, k) : RemoveAt(q, k)[j] = q[i]
<1> DEFINE r == RemoveAt(q, k)
           from(i) == IF i < k THEN i ELSE i + 1
<1>1. /\ Line(Messages, r) /\ DOMAIN r = 1..(Len(q) - 1)
      /\ \A i \in DOMAIN r : /\ from(i) \in DOMAIN q /\ from(i) # k
                             /\ r[i] = q[from(i)]
      /\ Len(q) \in Nat /\ DOMAIN q = 1..Len(q)
  BY LineRemove
<1> HIDE DEF r
<1>2. Len(r) = Len(q) - 1
  <2> r \in Seq(Messages)
    BY <1>1 DEF Line
  <2>1. Len(r) \in Nat /\ DOMAIN r = 1..Len(r)
    OBVIOUS
  <2>4. Len(q) - 1 \in Nat
    BY <1>1
  <2>2. Len(r) > 0 => Len(r) \in 1..(Len(q) - 1)
    BY <1>1, <2>1
  <2>3. Len(q) - 1 > 0 => Len(q) - 1 \in 1..Len(r)
    BY <1>1, <2>1, <2>4
  <2> QED BY <2>1, <2>2, <2>3, <2>4
<1>3. ASSUME NEW i \in DOMAIN r, NEW j \in DOMAIN r, i < j
      PROVE  r[j] \in s[r[i]]
  <2>1. from(i) < from(j)
    BY <1>1, <1>3
  <2>2. from(i) \in DOMAIN q /\ from(j) \in DOMAIN q
        /\ r[i] = q[from(i)] /\ r[j] = q[from(j)]
    BY <1>1
  <2> HIDE DEF from
  <2> QED BY <2>1, <2>2 DEF InOrder
<1>4. ASSUME NEW i \in DOMAIN r PROVE r[i] # q[k]
  <2>1. from(i) \in DOMAIN q /\ from(i) # k /\ r[i] = q[from(i)]
    BY <1>1
  <2> HIDE DEF from
  <2> QED BY <2>1 DEF Line, IsInjective
<1>5. ASSUME NEW i \in DOMAIN q, i # k
      PROVE  \E j \in DOMAIN r : r[j] = q[i]
  <2>1. CASE i < k
    <3>1. i \in DOMAIN r /\ from(i) = i
      BY <1>1, <2>1
    <3> QED BY <1>1, <3>1
  <2>2. CASE ~(i < k)
    <3>1. i - 1 \in DOMAIN r /\ from(i - 1) = i
      BY <1>1, <1>5, <2>2
    <3> QED BY <1>1, <3>1
  <2> QED BY <2>1, <2>2
<1> QED BY <1>1, <1>2, <1>3, <1>4, <1>5 DEF InOrder, r

(* A sequence without repetition has as many elements as it is long.        *)
LEMMA AsManyAsLong ==
  ASSUME NEW q, Line(Messages, q), NEW T, IsFiniteSet(T),
         \A i \in DOMAIN q : q[i] \in T
  PROVE  Cardinality(T) \in Nat /\ Len(q) <= Cardinality(T)
<1>1. Len(q) \in Nat /\ DOMAIN q = 1..Len(q) /\ q = [i \in 1..Len(q) |-> q[i]]
  BY DEF Line
<1>2. q \in [1..Len(q) -> T]
  BY <1>1
<1>3. q \in Injection(1..Len(q), T)
  BY <1>2 DEF Injection, Line
<1>4. Cardinality(1..Len(q)) <= Cardinality(T)
  BY <1>3, FS_Injection
<1>5. Cardinality(1..Len(q)) = Len(q)
  <2>1. 1 \in Int /\ Len(q) \in Int
    BY <1>1
  <2>2. Cardinality(1..Len(q)) = IF 1 > Len(q) THEN 0 ELSE Len(q) - 1 + 1
    BY <2>1, FS_Interval, Zenon
  <2> QED BY <1>1, <2>2
<1> QED BY <1>1, <1>4, <1>5, FS_CardinalityType

-----------------------------------------------------------------------------
(* What a sighting makes of the memory.                                     *)
LEMMA Sighting ==
  ASSUME GatewayTypeOK, ForgottenLate, NEW m \in Messages, Remember(m)
  PROVE  /\ Line(Messages, seen') /\ Len(seen') <= Capacity
         /\ sighted' = AfterSighting(sighted, m)
         /\ InOrder(seen', sighted')
         /\ \E i \in DOMAIN seen' : seen'[i] = m
         /\ \A n \in Messages :
              \/ \E i \in DOMAIN seen' : seen'[i] = n
              \/ /\ ~AlreadySeen(n) /\ n # m
              \/ /\ IsFiniteSet(sighted'[n])
                 /\ Cardinality(sighted'[n]) >= Capacity
<1>1. /\ Line(Messages, seen) /\ InOrder(seen, sighted) /\ Len(seen) <= Capacity
      /\ sighted \in [Messages -> SUBSET Messages]
      /\ Len(seen) \in Nat /\ DOMAIN seen = 1..Len(seen)
      /\ Capacity \in Nat /\ Capacity > 0
  BY GatewayAssumption DEF GatewayTypeOK, ForgottenLate, InOrder, Line
<1>2. sighted' = AfterSighting(sighted, m)
  BY DEF Remember, AfterSighting
<1>3. CASE AlreadySeen(m)
  <2> DEFINE k == CHOOSE i \in DOMAIN seen : seen[i] = m
             r == RemoveAt(seen, k)
  <2>1. k \in DOMAIN seen /\ seen[k] = m
    BY <1>1, <1>3 DEF AlreadySeen, Contains
  <2>2. seen' = Append(r, m)
    BY <1>3 DEF Remember, MovedToEnd
  <2> HIDE DEF k
  <2>3. /\ Line(Messages, r) /\ InOrder(r, sighted) /\ Len(r) = Len(seen) - 1
        /\ \A i \in DOMAIN r : r[i] # m
        /\ \A i \in DOMAIN seen : i # k => \E j \in DOMAIN r : r[j] = seen[i]
    BY <1>1, <2>1, InOrderWithout
  <2> HIDE DEF r
  <2>4. /\ Line(Messages, seen') /\ DOMAIN seen' = 1..(Len(r) + 1)
        /\ \A i \in DOMAIN r : i \in 1..Len(r) /\ seen'[i] = r[i]
        /\ seen'[Len(r) + 1] = m
    BY <2>2, <2>3, LineAppend
  <2>5. InOrder(seen', sighted')
    BY <1>1, <1>2, <2>2, <2>3, InOrderAtTheEnd
  <2>6. Len(seen') <= Capacity
    BY <1>1, <2>2, <2>3 DEF Line
  <2>7. Len(r) \in Nat /\ Len(r) + 1 \in DOMAIN seen'
    BY <2>3, <2>4 DEF Line
  <2>8. ASSUME NEW n \in Messages, AlreadySeen(n)
        PROVE  \E i \in DOMAIN seen' : seen'[i] = n
    <3>1. PICK i \in DOMAIN seen : seen[i] = n
      BY <1>1, <2>8 DEF AlreadySeen, Contains
    <3>2. CASE i = k
      BY <2>1, <2>4, <2>7, <3>1, <3>2
    <3>3. CASE i # k
      <4>1. PICK j \in DOMAIN r : r[j] = n
        BY <2>3, <3>1, <3>3
      <4>2. j \in DOMAIN seen' /\ seen'[j] = n
        BY <2>4, <2>7, <4>1
      <4> QED BY <4>2
    <3> QED BY <3>2, <3>3
  <2> QED BY <1>2, <1>3, <2>4, <2>5, <2>6, <2>7, <2>8
<1>4. CASE ~AlreadySeen(m)
  <2> DEFINE q == Append(seen, m)
  <2>1. \A i \in DOMAIN seen : seen[i] # m
    BY <1>1, <1>4 DEF AlreadySeen, Contains
  <2>2. /\ Line(Messages, q) /\ DOMAIN q = 1..(Len(seen) + 1)
        /\ \A i \in DOMAIN seen : i \in DOMAIN q /\ q[i] = seen[i]
        /\ q[Len(seen) + 1] = m /\ Len(q) = Len(seen) + 1
    BY <1>1, <2>1, LineAppend DEF Line
  <2>3. InOrder(q, sighted')
    BY <1>1, <1>2, <2>1, InOrderAtTheEnd
  <2>4. seen' = Evicted(q)
    BY <1>4 DEF Remember
  <2> HIDE DEF q
  <2>5. ASSUME NEW n \in Messages
        PROVE  (~AlreadySeen(n) /\ n # m) \/ \E i \in DOMAIN q : q[i] = n
    <3>1. CASE AlreadySeen(n)
      BY <1>1, <2>2, <3>1 DEF AlreadySeen, Contains
    <3>2. CASE n = m
      BY <1>1, <2>2, <3>2
    <3> QED BY <3>1, <3>2
  <2>6. CASE ~(Len(q) > Capacity)
    <3>1. seen' = q
      BY <2>4, <2>6 DEF Evicted
    <3>2. Len(seen) + 1 \in DOMAIN seen'
      BY <1>1, <2>2, <3>1
    <3> QED BY <1>1, <1>2, <2>2, <2>3, <2>5, <2>6, <3>1, <3>2
  <2>7. CASE Len(q) > Capacity
    <3>0. Len(seen) + 1 > Capacity
      BY <2>2, <2>7
    <3>1. Len(seen) = Capacity
      <4> DEFINE l == Len(seen)
      <4>1. l \in Nat /\ l <= Capacity /\ Capacity \in Nat
        BY <1>1
      <4>2. l + 1 > Capacity
        BY <3>0
      <4> HIDE DEF l
      <4>3. l = Capacity
        BY <4>1, <4>2
      <4> QED BY <4>3 DEF l
    <3> q # <<>>
      BY <1>1, <2>2, <3>1
    <3> seen' = Tail(q)
      BY <2>4, <2>7 DEF Evicted
    <3>2. /\ Line(Messages, seen')
          /\ Head(q) = q[1] /\ 1 \in DOMAIN q
          /\ Len(seen') = Len(q) - 1 /\ DOMAIN seen' = 1..(Len(q) - 1)
          /\ \A i \in DOMAIN seen' : seen'[i] = q[i + 1]
          /\ \A i \in DOMAIN q : i # 1 => i - 1 \in DOMAIN seen'
      BY <2>2, <3>1, LineTail
    <3>3. /\ InOrder(seen', sighted')
          /\ \A i \in DOMAIN seen' : seen'[i] \in sighted'[Head(q)]
      BY <2>2, <2>3, <3>1, InOrderWithoutHead
    <3>4. Len(seen') = Capacity /\ Len(q) = Capacity + 1
      BY <1>1, <2>2, <3>1, <3>2
    <3>5. Capacity \in DOMAIN seen' /\ seen'[Capacity] = m
      BY <1>1, <2>2, <3>1, <3>2, <3>4
    <3>6. ASSUME NEW n \in Messages, NEW i \in DOMAIN q, q[i] = n
          PROVE  \/ \E j \in DOMAIN seen' : seen'[j] = n
                 \/ /\ IsFiniteSet(sighted'[n])
                    /\ Cardinality(sighted'[n]) >= Capacity
      <4>1. CASE i # 1
        <5>1. i - 1 \in DOMAIN seen' /\ (i - 1) + 1 = i
          BY <2>2, <3>2, <4>1
        <5> QED BY <3>2, <3>6, <5>1
      <4>2. CASE i = 1
        <5>1. Head(q) = n
          BY <3>2, <3>6, <4>2
        <5>2. IsFiniteSet(sighted'[n])
          <6>1. IsFiniteSet({}) /\ IsFiniteSet(sighted[n] \cup {m})
            BY FS_EmptySet, FS_AddElement DEF ForgottenLate
          <6> QED BY <1>2, <6>1 DEF AfterSighting
        <5>3. Len(seen') <= Cardinality(sighted'[n])
              /\ Cardinality(sighted'[n]) \in Nat
          BY <3>2, <3>3, <5>1, <5>2, AsManyAsLong
        <5> QED BY <1>1, <3>4, <5>2, <5>3
      <4> QED BY <4>1, <4>2
    <3> QED BY <1>1, <1>2, <2>5, <3>2, <3>3, <3>4, <3>5, <3>6
  <2> QED BY <1>1, <2>2, <2>6, <2>7
<1> QED BY <1>3, <1>4

(* A sighting keeps what is to be kept of the memory, whether a handler of  *)
(* the message is spawned or not.                                           *)
LEMMA MemoryKept ==
  ASSUME GatewayTypeOK, ForgottenLate, NEW m \in Messages, Remember(m),
         \A n \in Mentions : n # m => runs'[n] = runs[n]
  PROVE  /\ seen' \in Seq(Messages) /\ Len(seen') <= Capacity /\ IsInjective(seen')
         /\ sighted' \in [Messages -> SUBSET Messages]
         /\ ForgottenLate'
<1>1. /\ Line(Messages, seen') /\ Len(seen') <= Capacity
      /\ sighted' = AfterSighting(sighted, m)
      /\ InOrder(seen', sighted')
      /\ \E i \in DOMAIN seen' : seen'[i] = m
      /\ \A n \in Messages :
           \/ \E i \in DOMAIN seen' : seen'[i] = n
           \/ /\ ~AlreadySeen(n) /\ n # m
           \/ /\ IsFiniteSet(sighted'[n])
              /\ Cardinality(sighted'[n]) >= Capacity
  BY Sighting
<1>2. sighted' \in [Messages -> SUBSET Messages]
  BY <1>1 DEF AfterSighting, GatewayTypeOK
<1>3. ASSUME NEW n \in Messages PROVE IsFiniteSet(sighted'[n])
  <2>1. IsFiniteSet({}) /\ IsFiniteSet(sighted[n] \cup {m})
    BY FS_EmptySet, FS_AddElement DEF ForgottenLate
  <2> QED BY <1>1, <2>1 DEF AfterSighting
<1>4. DOMAIN seen' = 1..Len(seen')
  BY <1>1 DEF Line
<1>5. ASSUME NEW n \in Mentions, runs'[n] > 0, ~(AlreadySeen(n)')
      PROVE  Cardinality(sighted'[n]) >= Capacity
  <2>1. n \in Messages /\ Capacity \in Nat
    BY GatewayAssumption
  <2>2. ~\E i \in DOMAIN seen' : seen'[i] = n
    BY <1>4, <1>5 DEF AlreadySeen, Contains
  <2>3. CASE ~AlreadySeen(n) /\ n # m
    <3>1. runs[n] > 0
      BY <1>5, <2>3
    <3>2. Cardinality(sighted[n]) >= Capacity /\ IsFiniteSet(sighted[n])
      BY <2>1, <2>3, <3>1 DEF ForgottenLate
    <3>3. sighted'[n] = sighted[n] \cup {m}
      BY <1>1, <2>1, <2>3 DEF AfterSighting
    <3>4. /\ Cardinality(sighted'[n]) = IF m \in sighted[n]
               THEN Cardinality(sighted[n]) ELSE Cardinality(sighted[n]) + 1
          /\ Cardinality(sighted[n]) \in Nat
      BY <3>2, <3>3, FS_AddElement, FS_CardinalityType
    <3> QED BY <2>1, <3>2, <3>4
  <2>4. CASE Cardinality(sighted'[n]) >= Capacity
    BY <2>4
  <2> QED BY <1>1, <2>1, <2>2, <2>3, <2>4
<1>6. ForgottenLate'
  BY <1>1, <1>3, <1>5 DEF ForgottenLate, InOrder
<1> QED BY <1>1, <1>2, <1>6 DEF Line

-----------------------------------------------------------------------------
(* The initial states satisfy the inductive invariant.                      *)
LEMMA InitGatewayIInv == GatewayInit => GatewayIInv
<1> SUFFICES ASSUME GatewayInit PROVE GatewayIInv
  OBVIOUS
<1> USE GatewayAssumption DEF GatewayInit
<1>1. GatewayTypeOK
  <2>1. /\ seen \in Seq(Messages) /\ Len(seen) = 0 /\ DOMAIN seen = {}
    OBVIOUS
  <2>2. Len(seen) <= Capacity /\ IsInjective(seen)
    BY <2>1 DEF IsInjective
  <2>3. /\ sighted \in [Messages -> SUBSET Messages]
        /\ runs \in [Mentions -> 0..MaxRuns]
    OBVIOUS
  <2>4. ready \in BOOLEAN /\ phase \in Phases
    BY DEF Phases
  <2>5. inflight \subseteq Handlers /\ cancelled \subseteq Handlers
        /\ swallowed \subseteq inflight \cap cancelled /\ typing \subseteq Handlers
    OBVIOUS
  <2> HIDE DEF GatewayInit
  <2> QED BY <2>1, <2>2, <2>3, <2>4, <2>5 DEF GatewayTypeOK
<1>2. ForgottenLate
  <2>1. \A m \in Messages : IsFiniteSet(sighted[m])
    BY FS_EmptySet
  <2> QED BY <2>1 DEF ForgottenLate
<1>3. DrainWaitsForAll /\ ResourcesOutliveTasks
  BY DEF DrainWaitsForAll, ResourcesOutliveTasks, Releasing
<1> QED BY <1>1, <1>2, <1>3 DEF GatewayIInv

(* What the handlers and the shutdown do leaves the memory as it is.        *)
LEMMA MemoryUntouched ==
  ASSUME ForgottenLate, UNCHANGED <<seen, sighted, runs>>
  PROVE  ForgottenLate'
  BY DEF ForgottenLate, AlreadySeen

(* Every action preserves the inductive invariant.                          *)
LEMMA NextGatewayIInv == GatewayIInv /\ [GatewayNext]_gatewayVars => GatewayIInv'
<1> SUFFICES ASSUME GatewayIInv, [GatewayNext]_gatewayVars PROVE GatewayIInv'
  OBVIOUS
<1> USE DEF GatewayIInv
<1>1. CASE OnReady
  BY <1>1, MemoryUntouched DEF OnReady, tasks, GatewayTypeOK, DrainWaitsForAll,
     ResourcesOutliveTasks
<1>2. CASE Stop
  BY <1>2, MemoryUntouched DEF Stop, ingress, tasks, GatewayTypeOK, Phases,
     DrainWaitsForAll, ResourcesOutliveTasks, Releasing
<1>3. CASE Closed
  BY <1>3, MemoryUntouched DEF Closed, ingress, GatewayTypeOK,
     Phases, DrainWaitsForAll, ResourcesOutliveTasks, Releasing
<1>4. CASE Drained
  BY <1>4, MemoryUntouched DEF Drained, ingress, tasks, GatewayTypeOK, Phases,
     DrainWaitsForAll, ResourcesOutliveTasks, Releasing
<1>5. CASE TypingClosed
  BY <1>5, MemoryUntouched DEF TypingClosed, TypingIsOver, ingress, tasks,
     GatewayTypeOK, Phases, DrainWaitsForAll, ResourcesOutliveTasks, Releasing
<1>6. CASE Release
  <2>1. phase' \in {"client", "sender", "exited"}
    BY <1>6, Zenon DEF Release, Releasing
  <2>2. UNCHANGED <<ingress, tasks>> /\ phase \in Releasing
    BY <1>6 DEF Release
  <2> QED
    BY <2>1, <2>2, MemoryUntouched DEF ingress, tasks, GatewayTypeOK, Phases,
       DrainWaitsForAll, ResourcesOutliveTasks, Releasing
<1>7. ASSUME NEW h \in Handlers, HandlerEnds(h) PROVE GatewayIInv'
  BY <1>7, MemoryUntouched DEF HandlerEnds, ingress, GatewayTypeOK,
     DrainWaitsForAll, ResourcesOutliveTasks
<1>8. ASSUME NEW h \in Handlers, FireTyping(h) PROVE GatewayIInv'
  BY <1>8, MemoryUntouched DEF FireTyping, ingress, GatewayTypeOK,
     DrainWaitsForAll, ResourcesOutliveTasks
<1>9. ASSUME NEW h \in Handlers, TypingEnds(h) PROVE GatewayIInv'
  BY <1>9, MemoryUntouched DEF TypingEnds, ingress, GatewayTypeOK,
     DrainWaitsForAll, ResourcesOutliveTasks
<1>10. ASSUME NEW h \in Handlers, Swallows(h) PROVE GatewayIInv'
  BY <1>10, MemoryUntouched DEF Swallows, ingress, GatewayTypeOK,
     DrainWaitsForAll, ResourcesOutliveTasks
<1>11. ASSUME NEW m \in Messages, OnMessage(m) PROVE GatewayIInv'
  <2>1. CASE m \in Mentions /\ Spawn(m)
    <3>1. /\ runs' \in [Mentions -> 0..MaxRuns]
          /\ \A n \in Mentions : n # m => runs'[n] = runs[n]
          /\ inflight' \subseteq Handlers
      BY <2>1, GatewayAssumption DEF Spawn, GatewayTypeOK, Handlers
    <3>2. /\ seen' \in Seq(Messages) /\ Len(seen') <= Capacity
          /\ IsInjective(seen') /\ sighted' \in [Messages -> SUBSET Messages]
          /\ ForgottenLate'
      BY <1>11, <3>1, MemoryKept DEF OnMessage
    <3> QED
      BY <1>11, <2>1, <3>1, <3>2 DEF OnMessage, Spawn, Listening, GatewayTypeOK,
         Phases, DrainWaitsForAll, ResourcesOutliveTasks, Releasing
  <2>2. CASE UNCHANGED tasks
    <3>1. /\ seen' \in Seq(Messages) /\ Len(seen') <= Capacity
          /\ IsInjective(seen') /\ sighted' \in [Messages -> SUBSET Messages]
          /\ ForgottenLate'
      BY <1>11, <2>2, MemoryKept DEF OnMessage, tasks
    <3> QED
      BY <1>11, <2>2, <3>1 DEF OnMessage, tasks, GatewayTypeOK,
         DrainWaitsForAll, ResourcesOutliveTasks
  <2> QED BY <1>11, <2>1, <2>2 DEF OnMessage
<1>12. ASSUME NEW m \in Messages, Unnormalizable(m) PROVE GatewayIInv'
  <2>1. /\ seen' \in Seq(Messages) /\ Len(seen') <= Capacity
        /\ IsInjective(seen') /\ sighted' \in [Messages -> SUBSET Messages]
        /\ ForgottenLate'
    BY <1>12, MemoryKept DEF Unnormalizable, tasks
  <2> QED
    BY <1>12, <2>1 DEF Unnormalizable, tasks, GatewayTypeOK, DrainWaitsForAll,
       ResourcesOutliveTasks
<1>13. CASE UNCHANGED gatewayVars
  BY <1>13, MemoryUntouched DEF gatewayVars, ingress, tasks, GatewayTypeOK,
     DrainWaitsForAll, ResourcesOutliveTasks
<1> QED
  BY <1>1, <1>2, <1>3, <1>4, <1>5, <1>6, <1>7, <1>8, <1>9, <1>10, <1>11, <1>12,
     <1>13 DEF GatewayNext, Main, Background

(* The inductive invariant holds in every reachable state.                  *)
THEOREM GatewayInvariance == GatewaySpec => []GatewayIInv
  BY InitGatewayIInv, NextGatewayIInv, PTL DEF GatewaySpec

(* The gateway's state is typed; what it remembers has no duplicate and at  *)
(* most Capacity ids (gateway.py, _already_seen).                           *)
THEOREM GatewayTyped == GatewaySpec => []GatewayTypeOK
  BY GatewayInvariance, PTL DEF GatewayIInv

(* Nothing a handler or a typing task uses is released while one of them is *)
(* left (gateway.py, _run's finally).                                       *)
THEOREM NothingReleasedEarly == GatewaySpec => []ResourcesOutliveTasks
  BY GatewayInvariance, PTL DEF GatewayIInv

(* A step that spawns a second handler for a message does so when Capacity  *)
(* others were sighted since the message was.                               *)
LEMMA SecondHandlerIsLate ==
  ASSUME GatewayTypeOK, ForgottenLate, [GatewayNext]_gatewayVars,
         NEW m \in Mentions, runs'[m] > runs[m], runs[m] > 0
  PROVE  Cardinality(sighted[m]) >= Capacity
<1>1. runs[m] \in Nat
  BY GatewayAssumption DEF GatewayTypeOK
<1>2. runs' # runs
  BY <1>1
<1>3. PICK n \in Messages : OnMessage(n)
  BY <1>2 DEF GatewayNext, OnReady, Stop, Main, Closed, Drained, TypingClosed,
     Release, Background, Swallows, HandlerEnds, FireTyping, TypingEnds, Unnormalizable,
     tasks, gatewayVars
<1>4. ~AlreadySeen(n) /\ n \in Mentions /\ Spawn(n)
  BY <1>2, <1>3 DEF OnMessage, tasks
<1>5. n = m
  BY <1>1, <1>4 DEF Spawn, GatewayTypeOK
<1> QED BY <1>4, <1>5 DEF ForgottenLate

(* A message is handled a second time only if Capacity other messages were  *)
(* sighted since it was last sighted itself (gateway.py, _already_seen).    *)
THEOREM SecondHandlingIsLate == GatewaySpec => HandledOnceWhileRemembered
<1>1. GatewayIInv /\ [GatewayNext]_gatewayVars =>
        [\A m \in Mentions :
          runs'[m] > runs[m] /\ runs[m] > 0 =>
            Cardinality(sighted[m]) >= Capacity]_gatewayVars
  BY SecondHandlerIsLate DEF GatewayIInv
<1> QED
  BY <1>1, GatewayInvariance, PTL DEF GatewaySpec, HandledOnceWhileRemembered

-----------------------------------------------------------------------------
(* The readiness signal.                                                    *)

(* What the bounds say of a few more seconds or beats.                      *)
LEMMA HealthBounds ==
  /\ Period \in Nat /\ Period >= Interval /\ Interval > 0
  /\ Old \in Nat /\ Old > TTL /\ TTL \in Nat
  /\ Unknown \in Nat /\ Unknown > MaxMissed /\ MaxMissed \in Nat
  BY HealthAssumption DEF Period, Old, Unknown

(* The ends of the ranges are in them.                                      *)
LEMMA HealthEnds ==
  /\ 0 \in 0..Period /\ 0 \in 0..Old /\ 0 \in 0..Unknown
  /\ Old \in 0..Old /\ Unknown \in 0..Unknown
  BY HealthBounds

(* A beat more missed is a period more.                                     *)
LEMMA OnePeriodMore ==
  ASSUME NEW a \in Nat, NEW P \in Nat
  PROVE  a * P \in Nat /\ (a + 1) * P = a * P + P
  OBVIOUS

(* Fewer beats missed are fewer periods.                                    *)
LEMMA PeriodsGrow ==
  ASSUME NEW a \in Nat, NEW b \in Nat, a <= b, NEW P \in Nat
  PROVE  a * P <= b * P
<1>1. \A d \in Nat : (a + d) * P = a * P + d * P /\ d * P \in Nat /\ a * P \in Nat
  OBVIOUS
<1>2. b - a \in Nat /\ a + (b - a) = b
  OBVIOUS
<1> QED BY <1>1, <1>2

(* The initial states satisfy the inductive invariant.                      *)
LEMMA InitHealthIInv == HealthInit => HealthIInv
<1> USE HealthBounds DEF HealthInit
<1>1. HealthInit => HealthTypeOK
  BY HealthEnds DEF HealthTypeOK
<1>2. HealthInit => RefresherLives
  BY DEF RefresherLives
<1>3. HealthInit => BeatsTellTheTime
  BY DEF BeatsTellTheTime
<1> QED BY <1>1, <1>2, <1>3 DEF HealthIInv

(* A tick that leaves one more beat missed accounts for the sleep before it.*)
LEMMA MissedTick ==
  ASSUME HealthIInv, WriteFails, slept' \in Nat
  PROVE  /\ missed' \in 0..Unknown
         /\ missed' <= MaxMissed => beatAge' <= missed' * Period + slept'
<1> USE HealthBounds DEF HealthIInv, HealthTypeOK
<1>1. /\ missed \in Nat /\ beatAge \in Nat /\ beatAge' = beatAge
      /\ slept \in Nat /\ slept <= Period
  BY DEF WriteFails
<1>2. /\ missed' \in 0..Unknown
      /\ missed' <= MaxMissed => missed <= MaxMissed /\ missed' = missed + 1
  BY DEF WriteFails, UpTo, Unknown
<1>3. missed * Period \in Nat /\ (missed + 1) * Period = missed * Period + Period
  BY <1>1, OnePeriodMore
<1>4. ASSUME missed' <= MaxMissed
      PROVE  beatAge' <= missed' * Period + slept'
  <2>1. beatAge <= missed * Period + slept
    BY <1>4, <1>2 DEF BeatsTellTheTime
  <2>2. missed' * Period = missed * Period + Period
    BY <1>2, <1>3, <1>4
  <2> HIDE DEF HealthIInv, HealthTypeOK
  <2> QED BY <1>1, <1>3, <2>1, <2>2
<1> QED BY <1>2, <1>4

(* Every action preserves the inductive invariant.                          *)
LEMMA NextHealthIInv == HealthIInv /\ [HealthNext]_healthVars => HealthIInv'
<1> SUFFICES ASSUME HealthIInv, [HealthNext]_healthVars PROVE HealthIInv'
  OBVIOUS
<1> USE HealthBounds DEF HealthIInv
<1>1. CASE Start
  <2> USE <1>1 DEF Start, ConnectedAtStart
  <2>2. HealthTypeOK'
    BY HealthEnds DEF HealthTypeOK
  <2>3. RefresherLives'
    BY DEF RefresherLives
  <2>4. BeatsTellTheTime'
    BY DEF HealthTypeOK, BeatsTellTheTime
  <2> QED BY <2>2, <2>3, <2>4
<1>2. CASE Die
  <2> USE <1>2 DEF Die
  <2>2. HealthTypeOK'
    BY HealthEnds DEF HealthTypeOK
  <2>3. RefresherLives'
    BY DEF RefresherLives
  <2>4. BeatsTellTheTime'
    BY DEF HealthTypeOK, BeatsTellTheTime
  <2> QED BY <2>2, <2>3, <2>4
<1>3. CASE OnReadyBeats
  <2>1. RefresherLives'
    BY <1>3 DEF OnReadyBeats, RefresherLives
  <2>2. CASE WriteBeat
    <3>1. 0 * Period = 0
      BY HealthBounds
    <3> QED
      BY <1>3, <2>1, <2>2, <3>1 DEF OnReadyBeats, WriteBeat, HealthTypeOK,
         BeatsTellTheTime
  <2>3. CASE WriteFails
    <3>1. /\ missed' \in 0..Unknown
          /\ missed' <= MaxMissed => beatAge' <= missed' * Period + slept'
      BY <1>3, <2>3, MissedTick DEF OnReadyBeats, HealthTypeOK
    <3> QED
      BY <1>3, <2>1, <2>3, <3>1 DEF OnReadyBeats, WriteFails, HealthTypeOK,
         BeatsTellTheTime
  <2> QED BY <1>3, <2>2, <2>3 DEF OnReadyBeats
<1>4. CASE OnDisconnect
  BY <1>4 DEF OnDisconnect, HealthTypeOK, RefresherLives, BeatsTellTheTime
<1>5. CASE OnResumed
  BY <1>5 DEF OnResumed, HealthTypeOK, RefresherLives, BeatsTellTheTime
<1>6. CASE RefreshWrites
  <2> USE <1>6 DEF RefreshWrites, TickDue, IsHealthy, WriteBeat
  <2>1. 0 * Period = 0
    OBVIOUS
  <2>2. HealthTypeOK'
    BY HealthEnds DEF HealthTypeOK
  <2>3. RefresherLives'
    BY DEF RefresherLives
  <2>4. BeatsTellTheTime'
    BY <2>1 DEF HealthTypeOK, BeatsTellTheTime
  <2> QED BY <2>2, <2>3, <2>4
<1>7. CASE RefreshFails
  <2>1. /\ missed' \in 0..Unknown
        /\ missed' <= MaxMissed => beatAge' <= missed' * Period + slept'
    BY <1>7, MissedTick DEF RefreshFails
  <2> USE <1>7 DEF RefreshFails, TickDue, IsHealthy, SurvivesFailure, WriteFails
  <2>2. HealthTypeOK'
    BY <2>1 DEF HealthTypeOK
  <2>3. RefresherLives'
    BY DEF RefresherLives, HealthTypeOK
  <2>4. BeatsTellTheTime'
    BY <2>1 DEF BeatsTellTheTime
  <2> QED BY <2>2, <2>3, <2>4
<1>8. CASE RefreshSkips
  <2> USE <1>8 DEF RefreshSkips, TickDue, IsHealthy
  <2>2. HealthTypeOK'
    BY HealthEnds DEF HealthTypeOK
  <2>3. RefresherLives'
    BY DEF RefresherLives
  <2>4. BeatsTellTheTime'
    BY DEF HealthTypeOK, BeatsTellTheTime
  <2> QED BY <2>2, <2>3, <2>4
<1>9. CASE Second
  <2>1. HealthTypeOK'
    BY <1>9 DEF Second, UpTo, HealthTypeOK
  <2>2. RefresherLives'
    BY <1>9 DEF Second, RefresherLives
  <2>3. missed' <= MaxMissed => refreshing /\ missed <= MaxMissed
    BY <1>9 DEF Second, RefresherLives, HealthTypeOK, Unknown
  <2>4. missed * Period \in Nat
    BY OnePeriodMore DEF HealthTypeOK
  <2>5. (connected => gatewayAge = 0)' /\ (gatewayAge <= beatAge)'
    BY <1>9 DEF Second, UpTo, HealthTypeOK, BeatsTellTheTime
  <2>6. ASSUME missed' <= MaxMissed
        PROVE  beatAge' <= missed' * Period + slept'
    <3>1. /\ beatAge <= missed * Period + slept /\ missed' = missed
          /\ slept' = slept + 1 /\ beatAge' <= beatAge + 1
          /\ beatAge \in Nat /\ slept \in Nat /\ beatAge' \in Nat
      BY <1>9, <2>3, <2>6 DEF Second, UpTo, HealthTypeOK, BeatsTellTheTime
    <3> QED BY <3>1, <2>4
  <2> QED BY <2>1, <2>2, <2>5, <2>6 DEF BeatsTellTheTime
<1>10. CASE UNCHANGED healthVars
  BY <1>10 DEF healthVars, HealthTypeOK, RefresherLives, BeatsTellTheTime
<1> QED
  BY <1>1, <1>2, <1>3, <1>4, <1>5, <1>6, <1>7, <1>8, <1>9, <1>10
  DEF HealthNext, Refresh

(* The beats account for the verdict.                                       *)
LEMMA VerdictFollows == HealthIInv => VerdictIsRight
<1> SUFFICES ASSUME HealthIInv PROVE VerdictIsRight
  OBVIOUS
<1> USE HealthBounds DEF HealthIInv, HealthTypeOK, BeatsTellTheTime
<1>1. Fresh => gatewayAge <= TTL
  BY DEF Fresh
<1>2. ASSUME connected, missed <= MaxMissed PROVE Fresh
  <2>1. /\ missed \in Nat /\ missed * Period <= MaxMissed * Period
        /\ missed * Period \in Nat /\ MaxMissed * Period \in Nat
    BY <1>2, PeriodsGrow, OnePeriodMore
  <2>2. (MaxMissed + 1) * Period = MaxMissed * Period + Period
    BY OnePeriodMore
  <2>3. (MaxMissed + 1) * Period <= TTL
    BY HealthAssumption DEF Period
  <2>4. beatAge <= missed * Period + slept /\ slept <= Period
        /\ beatAge \in Nat /\ slept \in Nat
    BY <1>2
  <2> HIDE DEF HealthIInv, HealthTypeOK, BeatsTellTheTime
  <2>5. beatAge <= TTL
    BY <2>1, <2>2, <2>3, <2>4
  <2> QED BY <2>5 DEF Fresh
<1> QED BY <1>1, <1>2 DEF VerdictIsRight

(* The inductive invariant of the readiness signal holds in every reachable *)
(* state.                                                                   *)
THEOREM HealthInvariance == HealthSpec => []HealthIInv
  BY InitHealthIInv, NextHealthIInv, PTL DEF HealthSpec

(* The state of the readiness signal is typed; a bridge that is connected   *)
(* runs and has been ready (gateway.py, connected).                      *)
THEOREM HealthTyped == HealthSpec => []HealthTypeOK
  BY HealthInvariance, PTL DEF HealthIInv

(* The probe is right both ways, for any interval, lateness and number of   *)
(* missed beats that the time to live allows for (heartbeat.py).            *)
THEOREM ProbeIsRight == HealthSpec => []VerdictIsRight
  BY HealthInvariance, VerdictFollows, PTL

-----------------------------------------------------------------------------
(* The persona webhooks.                                                    *)
USE DEF Discovering, Awaits

(* The initial states satisfy the inductive invariant.                      *)
LEMMA InitIInv == Init => IInv
  BY WebhookAssumption DEF Init, IInv, TypeOK, LockMatchesHolder,
     CreatesOnlyIfNone, OneWebhookPerChannel, PostsAreRecognised

(* A creation nobody was told of adds a webhook only to the channel of the  *)
(* task that was creating, which had none.                                  *)
LEMMA UnnoticedOne ==
  ASSUME IInv, NEW t \in Tasks, Unnoticed(t)
  PROVE  /\ hooks' \in [Channels -> SUBSET HookIds]
         /\ issued' \in SUBSET HookIds
         /\ OneWebhookPerChannel'
         /\ \A c \in Channels : hooks'[c] # hooks[c] =>
                pc[t] = "create" /\ c = channel[t]
  BY DEF IInv, TypeOK, CreatesOnlyIfNone, OneWebhookPerChannel, Unnoticed,
     NewHook, discord

(* Every action preserves the inductive invariant.                          *)
LEMMA NextIInv == IInv /\ [Next]_vars => IInv'
<1> SUFFICES ASSUME IInv, [Next]_vars PROVE IInv'
  OBVIOUS
<1> USE DEF IInv
<1>1. ASSUME NEW t \in Tasks, NEW c \in Channels, Begin(t, c) PROVE IInv'
  <2> USE <1>1, WebhookAssumption DEF Begin, Call, LockFree, discord
  <2>1. TypeOK'
    BY DEF TypeOK
  <2>2. LockMatchesHolder'
    BY DEF TypeOK, LockMatchesHolder
  <2>3. CreatesOnlyIfNone'
    BY DEF TypeOK, CreatesOnlyIfNone
  <2>4. OneWebhookPerChannel'
    BY DEF OneWebhookPerChannel
  <2>5. PostsAreRecognised'
    BY DEF TypeOK, PostsAreRecognised
  <2> QED BY <2>1, <2>2, <2>3, <2>4, <2>5
<1>2. ASSUME NEW t \in Tasks, Acquire(t) PROVE IInv'
  <2> USE <1>2, WebhookAssumption DEF Acquire, Call, LockFree, UnderLock, discord
  <2>1. TypeOK'
    BY DEF TypeOK, CreatesOnlyIfNone
  <2>2. LockMatchesHolder'
    BY DEF TypeOK, LockMatchesHolder
  <2>3. CreatesOnlyIfNone'
    BY DEF TypeOK, CreatesOnlyIfNone
  <2>4. OneWebhookPerChannel'
    BY DEF OneWebhookPerChannel
  <2>5. PostsAreRecognised'
    BY DEF TypeOK, PostsAreRecognised
  <2> QED BY <2>1, <2>2, <2>3, <2>4, <2>5
<1>3. ASSUME NEW t \in Tasks, Fetch(t) PROVE IInv'
  BY <1>3 DEF Fetch, discord, sender, TypeOK, LockMatchesHolder,
     CreatesOnlyIfNone, OneWebhookPerChannel, PostsAreRecognised
<1>4. ASSUME NEW t \in Tasks, List(t) PROVE IInv'
  <2> USE <1>4, WebhookAssumption DEF List, OwnHooks, discord, sender
  <2>1. channel[t] \in Channels /\ lock = t /\ cache[channel[t]] = None
    BY DEF LockMatchesHolder, CreatesOnlyIfNone
  <2>2. CASE \E h \in hooks[channel[t]] : Found(t, h)
    <3> PICK h \in hooks[channel[t]] : Found(t, h)
      BY <2>2
    <3> USE <2>1 DEF Found, Call
    <3>1. TypeOK'
      BY DEF TypeOK
    <3>2. LockMatchesHolder'
      BY DEF TypeOK, LockMatchesHolder
    <3>3. CreatesOnlyIfNone'
      BY DEF TypeOK, CreatesOnlyIfNone, LockMatchesHolder
    <3>4. OneWebhookPerChannel'
      BY DEF OneWebhookPerChannel
    <3>5. PostsAreRecognised'
      BY DEF TypeOK, PostsAreRecognised, CreatesOnlyIfNone
    <3> QED BY <3>1, <3>2, <3>3, <3>4, <3>5
  <2>3. CASE /\ hooks[channel[t]] = {}
             /\ pc' = [pc EXCEPT ![t] = "create"]
             /\ UNCHANGED <<sender, channel, hook>>
    BY <2>1, <2>3 DEF TypeOK, LockMatchesHolder, CreatesOnlyIfNone,
       OneWebhookPerChannel, PostsAreRecognised
  <2> QED BY <2>2, <2>3
<1>5. ASSUME NEW t \in Tasks, Create(t) PROVE IInv'
  <2>1. PICK h \in HookIds : NewHook(channel[t], h) /\ Found(t, h)
    BY <1>5 DEF Create
  <2>2. /\ channel[t] \in Channels /\ lock = t
        /\ cache[channel[t]] = None /\ hooks[channel[t]] = {}
    BY <1>5 DEF Create, LockMatchesHolder, CreatesOnlyIfNone
  <2> USE <2>1, <2>2, WebhookAssumption DEF NewHook, Found, Call
  <2>3. TypeOK'
    BY DEF TypeOK
  <2>4. LockMatchesHolder'
    BY DEF TypeOK, LockMatchesHolder
  <2>5. CreatesOnlyIfNone'
    BY DEF TypeOK, CreatesOnlyIfNone, LockMatchesHolder
  <2>6. OneWebhookPerChannel'
    BY DEF TypeOK, OneWebhookPerChannel
  <2>7. PostsAreRecognised'
    BY DEF TypeOK, PostsAreRecognised, CreatesOnlyIfNone
  <2> QED BY <2>3, <2>4, <2>5, <2>6, <2>7
<1>6. ASSUME NEW t \in Tasks, Raise(t) PROVE IInv'
  <2> USE <1>6, WebhookAssumption DEF Raise, Return, LockAfterRaise
  <2>1. /\ hooks' \in [Channels -> SUBSET HookIds]
        /\ issued' \in SUBSET HookIds
        /\ OneWebhookPerChannel'
        /\ \A c \in Channels : hooks'[c] # hooks[c] =>
               pc[t] = "create" /\ c = channel[t]
    BY UnnoticedOne
  <2>2. TypeOK'
    BY <2>1 DEF TypeOK
  <2>3. LockMatchesHolder'
    BY DEF TypeOK, LockMatchesHolder
  <2>4. CreatesOnlyIfNone'
    BY <2>1 DEF TypeOK, CreatesOnlyIfNone, LockMatchesHolder
  <2>5. PostsAreRecognised'
    BY DEF TypeOK, PostsAreRecognised
  <2> QED BY <2>1, <2>2, <2>3, <2>4, <2>5
<1>7. ASSUME NEW t \in Tasks, Posted(t) PROVE IInv'
  BY <1>7 DEF Posted, Return, discord, sender, TypeOK, LockMatchesHolder,
     CreatesOnlyIfNone, OneWebhookPerChannel, PostsAreRecognised
<1>8. ASSUME NEW c \in Channels, DeleteHook(c) PROVE IInv'
  BY <1>8 DEF DeleteHook, sender, task, TypeOK, LockMatchesHolder,
     CreatesOnlyIfNone, OneWebhookPerChannel, PostsAreRecognised
<1>9. CASE Restart
  <2>1. PICK t \in Tasks : Unnoticed(t)
    BY <1>9 DEF Restart
  <2>2. /\ hooks' \in [Channels -> SUBSET HookIds]
        /\ issued' \in SUBSET HookIds
        /\ OneWebhookPerChannel'
    BY <2>1, UnnoticedOne
  <2> QED BY <1>9, <2>2, WebhookAssumption DEF Restart, TypeOK,
         LockMatchesHolder, CreatesOnlyIfNone, PostsAreRecognised
<1>10. CASE UNCHANGED vars
  BY <1>10 DEF vars, discord, sender, task, TypeOK, LockMatchesHolder,
     CreatesOnlyIfNone, OneWebhookPerChannel, PostsAreRecognised
<1> QED
  BY <1>1, <1>2, <1>3, <1>4, <1>5, <1>6, <1>7, <1>8, <1>9, <1>10
  DEF Next, Step

(* The inductive invariant holds in every reachable state.                  *)
THEOREM Invariance == Spec => []IInv
  BY InitIInv, NextIInv, PTL DEF Spec

(* The sender's state is typed, and a task never calls a webhook that is    *)
(* None (persona.py, send and _get_or_create_webhook).                      *)
THEOREM TypeCorrect == Spec => []TypeOK
  BY Invariance, PTL DEF IInv

(* A channel never has two persona webhooks (_get_or_create_webhook).       *)
THEOREM NoSecondWebhook == Spec => []OneWebhookPerChannel
  BY Invariance, PTL DEF IInv

(* The discovery lock is held exactly while its holder discovers, on every  *)
(* path out of the async with (_get_or_create_webhook).                     *)
THEOREM LockDiscipline == Spec => []LockMatchesHolder
  BY Invariance, PTL DEF IInv

(* Every post is made by a webhook that owns_webhook recognises.            *)
THEOREM Recognised == Spec => []PostsAreRecognised
  BY Invariance, PTL DEF IInv

=============================================================================
