-------------------------- MODULE BridgeMemory_proofs --------------------------
(***************************************************************************)
(* Proofs about BridgeMemory, for any number of tasks, any channel, any    *)
(* limit of Discord's and any number of restarts: what an agent is shown   *)
(* of a channel, what becomes of those who wait for another's fetch, and   *)
(* that the effort map agrees with the store.                              *)
(*                                                                         *)
(* First the operators of ChannelHistory, for every channel; then queues;  *)
(* then the single flight by itself; and last the invariant, IInv, one     *)
(* lemma for each group of actions.                                        *)
(***************************************************************************)
EXTENDS BridgeMemory, TLAPS, WellFoundedInduction, NaturalsInduction,
        SequenceTheorems, FiniteSetTheorems

(* Numbers: a set of them has a least and, if bounded, a greatest one.      *)
LEMMA LeastNumber ==
  ASSUME NEW T, T \subseteq Nat, T # {}
  PROVE  \E x \in T : \A y \in T : x <= y
<1>1. PICK x \in T : \A y \in T : ~(<<y, x>> \in OpToRel(<, Nat))
  BY NatLessThanWellFounded, WFMin
<1>2. \A y \in T : ~(y < x)
  BY <1>1 DEF OpToRel
<1> QED BY <1>2

LEMMA GreatestNumber ==
  ASSUME NEW n \in Nat, NEW T \in SUBSET (0..n), T # {}
  PROVE  \E x \in T : \A y \in T : y <= x
<1> DEFINE U == {n - x : x \in T}
<1>1. U \subseteq Nat /\ U # {}
  <2>1. \A x \in T : n - x \in Nat
    OBVIOUS
  <2> QED BY <2>1
<1>2. PICK u \in U : \A y \in U : u <= y
  <2> HIDE DEF U
  <2> QED BY <1>1, LeastNumber
<1>3. PICK x \in T : u = n - x
  OBVIOUS
<1>4. ASSUME NEW y \in T PROVE y <= x
  <2>1. n - y \in U
    OBVIOUS
  <2>2. n - x <= n - y
    BY <2>1, <1>2, <1>3
  <2> QED BY <2>2
<1> QED BY <1>4

(* Induction, with a set for the predicate.                                 *)
LEMMA UpTo ==
  ASSUME NEW n \in Nat, NEW S, 0 \in S,
         \A k \in 0..n : k \in S /\ k < n => k + 1 \in S
  PROVE  \A k \in 0..n : k \in S
<1> DEFINE T == {k \in 0..n : k \notin S}
<1> SUFFICES ASSUME T # {} PROVE FALSE
  OBVIOUS
<1>1. PICK x \in T : \A y \in T : x <= y
  <2>1. T \subseteq Nat
    OBVIOUS
  <2> QED BY <2>1, LeastNumber
<1>2. x # 0 /\ x - 1 \in 0..n
  BY <1>1
<1>3. x - 1 \in S
  BY <1>1, <1>2
<1> QED BY <1>1, <1>2, <1>3

-----------------------------------------------------------------------------
(* The records a fetch returns, for any channel.  Ids grow along them.      *)
Increasing(ids) == \A i, j \in DOMAIN ids : i < j => ids[i] < ids[j]

LEMMA WindowShape ==
  ASSUME NEW c \in Seq(Posts), NEW b \in Ids(c)
  PROVE  \E o, n \in Nat : /\ o = (IF b = Starter THEN 0 ELSE b - 1)
                           /\ n = (IF o < Limit THEN o ELSE Limit)
                           /\ Window(c, b) = [i \in 1..n |-> o - n + i]
<1> DEFINE o == IF b = Starter THEN 0 ELSE b - 1
           n == IF o < Limit THEN o ELSE Limit
<1>1. b \in Nat
  BY DEF Ids, Starter
<1>2. o \in Nat
  BY <1>1 DEF Starter
<1>3. n \in Nat
  BY <1>2, LimitAssumption
<1>4. Window(c, b) = [i \in 1..n |-> o - n + i]
  BY DEF Window
<1> QED BY <1>2, <1>3, <1>4

LEMMA WindowIs ==
  ASSUME NEW c \in Seq(Posts), NEW b \in Ids(c)
  PROVE  /\ Window(c, b) \in Seq(Ids(c))
         /\ Increasing(Window(c, b))
         /\ Elements(Window(c, b)) \subseteq DOMAIN c
         /\ \A s \in Nat : s < b /\ s \notin Elements(Window(c, b))
              => \A i \in DOMAIN Window(c, b) : s < Window(c, b)[i]
<1> DEFINE w == Window(c, b)
<1>1. PICK o, n \in Nat : /\ o = (IF b = Starter THEN 0 ELSE b - 1)
                          /\ n = (IF o < Limit THEN o ELSE Limit)
                          /\ w = [i \in 1..n |-> o - n + i]
  BY WindowShape
<1>2. n <= o /\ DOMAIN c = 1..Len(c)
  BY <1>1, LimitAssumption
<1>3. o <= Len(c) /\ b \in Nat
  BY <1>1 DEF Ids, Starter
<1> HIDE DEF w
<1>4. \A i \in 1..n : w[i] = o - n + i /\ w[i] \in 1..Len(c)
  <2>1. \A i \in 1..n : w[i] = o - n + i
    BY <1>1
  <2>2. \A i \in 1..n : o - n + i \in 1..Len(c)
    <3>1. Len(c) \in Nat
      OBVIOUS
    <3> QED BY <1>2, <1>3, <3>1
  <2> QED BY <2>1, <2>2
<1>5. DOMAIN w = 1..n
  BY <1>1
<1>6. w \in Seq(Ids(c))
  <2>1. \A i \in 1..n : w[i] \in Ids(c)
    BY <1>2, <1>4 DEF Ids
  <2>2. w \in [1..n -> Ids(c)]
    BY <1>1, <2>1
  <2> QED BY <2>2, SeqDef
<1>7. Increasing(w)
  BY <1>4, <1>5 DEF Increasing
<1>8. Elements(w) \subseteq DOMAIN c
  BY <1>2, <1>4, <1>5 DEF Elements
<1>9. ASSUME NEW s \in Nat, s < b, s \notin Elements(w), NEW i \in DOMAIN w
      PROVE  s < w[i]
  <2>1. s <= o
    BY <1>1, <1>3, <1>9 DEF Starter
  <2>2. CASE s > o - n
    <3>1. s - (o - n) \in DOMAIN w /\ w[s - (o - n)] = s
      BY <1>2, <1>4, <1>5, <2>1, <2>2
    <3> QED BY <3>1, <1>9 DEF Elements
  <2>3. CASE s <= o - n
    BY <1>2, <1>4, <1>5, <1>9, <2>3
  <2> QED BY <1>2, <2>2, <2>3
<1> QED BY <1>6, <1>7, <1>8, <1>9 DEF w

(* The starter, if it is put in front, is from before the window.           *)
LEMMA StarterInFront ==
  ASSUME NEW c \in Seq(Posts), NEW b \in Ids(c), NEW found,
         found = {} \/ found = {0} \/ found = {1}
  PROVE  LET ids == WithStarter(Window(c, b), found, b)
         IN  /\ ids \in Seq(Ids(c)) /\ Increasing(ids)
             /\ Elements(Window(c, b)) \subseteq Elements(ids)
<1> DEFINE w == Window(c, b)
           new == {s \in found : s < b /\ s \notin Elements(w)}
           ids == WithStarter(w, found, b)
<1>1. /\ w \in Seq(Ids(c)) /\ Increasing(w)
      /\ \A s \in Nat : s < b /\ s \notin Elements(w) => \A i \in DOMAIN w : s < w[i]
  BY WindowIs
<1>2. CASE new = {}
  <2>1. ids = w
    BY <1>2 DEF WithStarter
  <2> QED BY <2>1, <1>1
<1>3. CASE new # {}
  <2> DEFINE s == CHOOSE x \in new : TRUE
  <2>1. s \in new
    BY <1>3
  <2>2. s \in Nat /\ s < b /\ s \notin Elements(w)
    BY <2>1
  <2>3. ids = <<s>> \o w
    BY <1>3 DEF WithStarter
  <2>4. b \in Nat /\ b <= Len(c)
    BY DEF Ids, Starter
  <2>5. s \in Ids(c)
    BY <2>2, <2>4 DEF Ids, Starter
  <2> HIDE DEF s, ids, w, new
  <2>6. /\ Len(ids) = 1 + Len(w)
        /\ \A i \in 1..Len(ids) : ids[i] = IF i = 1 THEN s ELSE w[i-1]
        /\ ids \in Seq(Ids(c))
    BY <1>1, <2>3, <2>5
  <2>7. Increasing(ids)
    <3> SUFFICES ASSUME NEW i \in 1..Len(ids), NEW j \in 1..Len(ids), i < j
                 PROVE  ids[i] < ids[j]
      BY <2>6 DEF Increasing
    <3>1. j - 1 \in DOMAIN w /\ ids[j] = w[j-1]
      BY <1>1, <2>6
    <3>2. CASE i = 1
      BY <1>1, <2>2, <2>6, <3>1, <3>2
    <3>3. CASE i # 1
      <4>1. i - 1 \in DOMAIN w /\ ids[i] = w[i-1] /\ i - 1 < j - 1
        BY <1>1, <2>6, <3>3
      <4> QED BY <1>1, <3>1, <4>1 DEF Increasing
    <3> QED BY <3>2, <3>3
  <2>8. ASSUME NEW i \in DOMAIN w PROVE w[i] \in Elements(ids)
    <3>1. i + 1 \in DOMAIN ids /\ ids[i+1] = w[i]
      BY <1>1, <2>6
    <3> QED BY <3>1 DEF Elements
  <2>9. Elements(w) \subseteq Elements(ids)
    BY <2>8 DEF Elements
  <2> QED BY <2>6, <2>7, <2>9 DEF ids, w
<1> QED BY <1>2, <1>3

(* The cut is at the last marker.                                           *)
LEMMA CutAtMarker ==
  ASSUME NEW c \in Seq(Posts), NEW ids \in Seq(Ids(c)), Increasing(ids)
  PROVE  /\ AfterMarker(c, ids) \in Seq(Ids(c))
         /\ \A m \in Elements(ids) : IsClearMarker(c, m) =>
              \A id \in Elements(AfterMarker(c, ids)) : id > m
<1> DEFINE marks == {i \in DOMAIN ids : IsClearMarker(c, ids[i])}
           last == CHOOSE i \in marks : \A j \in marks : j <= i
           cut == IF marks = {} THEN 0 ELSE last
           rest == AfterMarker(c, ids)
<1>1. marks # {} => last \in marks /\ \A j \in marks : j <= last
  <2> SUFFICES ASSUME marks # {} PROVE \E i \in marks : \A j \in marks : j <= i
    OBVIOUS
  <2>1. marks \in SUBSET (0..Len(ids))
    OBVIOUS
  <2>2. Len(ids) \in Nat
    OBVIOUS
  <2> HIDE DEF marks
  <2> QED BY <2>1, <2>2, GreatestNumber
<1>2. cut \in 0..Len(ids) /\ \A j \in marks : j <= cut
  BY <1>1
<1>3. rest = SubSeq(ids, cut + 1, Len(ids))
  BY DEF AfterMarker
<1> HIDE DEF marks, cut, last, rest
<1>4. /\ Len(rest) = Len(ids) - cut /\ rest \in Seq(Ids(c))
      /\ \A i \in 1..Len(rest) : rest[i] = ids[cut + i]
  BY <1>2, <1>3
<1>5. ASSUME NEW m \in Elements(ids), IsClearMarker(c, m), NEW id \in Elements(rest)
      PROVE  id > m
  <2>1. PICK j \in marks : m = ids[j]
    BY <1>5 DEF Elements, marks
  <2>2. PICK i \in 1..Len(rest) : id = rest[i]
    BY <1>4 DEF Elements
  <2>3. j \in DOMAIN ids /\ cut + i \in DOMAIN ids /\ j < cut + i
    BY <1>2, <1>4, <2>1, <2>2 DEF marks
  <2>4. ids[j] < ids[cut + i]
    BY <2>3 DEF Increasing
  <2> QED BY <1>4, <2>1, <2>2, <2>3, <2>4 DEF Ids, Starter
<1> QED BY <1>4, <1>5 DEF rest

(* Whatever the channel, its kind, the anchor and the starter found, what a *)
(* fetch returns are ids of the channel from after the last marker of the   *)
(* window (history.py, _do_fetch).                                          *)
THEOREM RecordsBound ==
  ASSUME NEW c \in Seq(Posts), NEW b \in Ids(c), NEW k \in ChannelKinds,
         NEW found \in {{}, StartersOf(k)}
  PROVE  LET ids == Records(c, Window(c, b), found, b)
         IN  /\ ids \in Seq(Ids(c))
             /\ \A m \in Elements(Window(c, b)) : IsClearMarker(c, m) =>
                  \A id \in Elements(ids) : id > m
<1>1. StartersOf(k) = {} \/ StartersOf(k) = {0} \/ StartersOf(k) = {1}
  BY Zenon DEF StartersOf, ChannelKinds, Starter
<1> QED BY <1>1, StarterInFront, CutAtMarker DEF Records

-----------------------------------------------------------------------------
(* What is built has each return framed, and a request before it.           *)
WellBuilt(c, out, seen) ==
    /\ out \in Seq(ModelEntries(c)) /\ seen \in BOOLEAN
    /\ ReturnsAreFramed(out)
    /\ \A i \in DOMAIN out : out[i].kind = "return" =>
         \E j \in 1..(i - 1) : out[j].kind = "request"
    /\ seen => \E j \in DOMAIN out : out[j].kind = "request"

LEMMA EntriesAre ==
  ASSUME NEW c, NEW id, NEW rows, NEW seen \in BOOLEAN
  PROVE  LET new == Entries(c, id, rows, seen)
         IN  \/ new = <<>>
             \/ new = <<>> \o <<Entry("response", id)>>
             \/ seen /\ new = Delta(id) \o <<Entry("response", id)>>
             \/ new = <<Entry("request", id)>>
<1> DEFINE new == Entries(c, id, rows, seen)
           delta == IF id \in rows /\ seen THEN Delta(id) ELSE <<>>
<1>0. Replays(seen) = seen
  BY DEF Replays
<1>1. \/ new = <<>>
      \/ new = delta \o <<Entry("response", id)>>
      \/ new = <<Entry("request", id)>>
  <2>1. CASE Post(c, id) = "blank"
    <3>1. new = <<>>
      BY <2>1, Zenon DEF Entries, IsAgent
    <3> QED BY <3>1
  <2>2. CASE IsAgent(c, id)
    <3>1. Post(c, id) # "blank"
      BY <2>2 DEF IsAgent
    <3>2. new = delta \o <<Entry("response", id)>>
      BY <1>0, <2>2, <3>1, Zenon DEF Entries
    <3> QED BY <3>2, Zenon
  <2>3. CASE Post(c, id) # "blank" /\ ~IsAgent(c, id)
    BY <2>3, Zenon DEF Entries
  <2> QED BY <2>1, <2>2, <2>3, Zenon
<1>2. delta = <<>> \/ (seen /\ delta = Delta(id))
  BY Zenon
<1> HIDE DEF new, delta
<1>3. ASSUME new = delta \o <<Entry("response", id)>>
      PROVE  \/ new = <<>> \o <<Entry("response", id)>>
             \/ seen /\ new = Delta(id) \o <<Entry("response", id)>>
  BY <1>2, <1>3, Zenon
<1>4. \/ new = <<>>
      \/ new = <<>> \o <<Entry("response", id)>>
      \/ seen /\ new = Delta(id) \o <<Entry("response", id)>>
      \/ new = <<Entry("request", id)>>
  BY <1>1, <1>3, Zenon
<1> QED BY <1>4, Zenon DEF new

LEMMA PlainEntry ==
  ASSUME NEW c, NEW out, NEW seen \in BOOLEAN, WellBuilt(c, out, seen),
         NEW e \in ModelEntries(c), e.kind # "return"
  PROVE  /\ WellBuilt(c, Append(out, e), seen)
         /\ e.kind = "request" => WellBuilt(c, Append(out, e), TRUE)
<1> DEFINE more == Append(out, e)
<1>1. out \in Seq(ModelEntries(c)) /\ Len(out) \in Nat /\ DOMAIN out = 1..Len(out)
  BY DEF WellBuilt
<1>2. /\ more \in Seq(ModelEntries(c)) /\ Len(more) = Len(out) + 1
      /\ DOMAIN more = 1..(Len(out) + 1)
      /\ \A i \in 1..Len(out) : more[i] = out[i]
      /\ more[Len(out) + 1] = e
  BY <1>1
<1> HIDE DEF more
<1>3. \A i \in DOMAIN more : more[i].kind = "return" =>
        i \in 1..Len(out) /\ more[i] = out[i]
  BY <1>1, <1>2
<1>4. ReturnsAreFramed(more)
  <2> SUFFICES ASSUME NEW i \in DOMAIN more, more[i].kind = "return"
               PROVE  /\ i > 1 /\ more[i-1] = Entry("call", more[i].of)
                      /\ i < Len(more) /\ more[i+1] = Entry("response", more[i].of)
    BY DEF ReturnsAreFramed
  <2>1. i \in 1..Len(out) /\ more[i] = out[i]
    BY <1>3
  <2>2. /\ i > 1 /\ out[i-1] = Entry("call", out[i].of)
        /\ i < Len(out) /\ out[i+1] = Entry("response", out[i].of)
    BY <1>1, <2>1 DEF WellBuilt, ReturnsAreFramed
  <2>3. i - 1 \in 1..Len(out) /\ i + 1 \in 1..Len(out)
    BY <1>1, <2>1, <2>2
  <2> QED BY <1>1, <1>2, <2>1, <2>2, <2>3
<1>5. ASSUME NEW i \in DOMAIN more, more[i].kind = "return"
      PROVE  \E j \in 1..(i - 1) : more[j].kind = "request"
  <2>1. i \in DOMAIN out /\ more[i] = out[i]
    BY <1>1, <1>3, <1>5
  <2>2. PICK j \in 1..(i - 1) : out[j].kind = "request"
    BY <1>5, <2>1 DEF WellBuilt
  <2>3. j \in 1..Len(out)
    BY <1>1, <2>1, <2>2
  <2> QED BY <1>2, <2>2, <2>3
<1>6. seen => \E j \in DOMAIN more : more[j].kind = "request"
  <2> SUFFICES ASSUME seen PROVE \E j \in DOMAIN more : more[j].kind = "request"
    OBVIOUS
  <2>1. PICK j \in DOMAIN out : out[j].kind = "request"
    BY DEF WellBuilt
  <2> QED BY <1>1, <1>2, <2>1
<1>7. e.kind = "request" => \E j \in DOMAIN more : more[j].kind = "request"
  BY <1>1, <1>2
<1> QED BY <1>2, <1>4, <1>5, <1>6, <1>7 DEF WellBuilt, more

LEMMA ReplayedTurn ==
  ASSUME NEW c, NEW out, WellBuilt(c, out, TRUE), NEW id \in Ids(c)
  PROVE  WellBuilt(c, out \o (Delta(id) \o <<Entry("response", id)>>), TRUE)
<1> DEFINE new == <<Entry("call", id), Entry("return", id), Entry("response", id)>>
           more == out \o new
           n == Len(out)
<1>1. Delta(id) \o <<Entry("response", id)>> = new
  <2>1. ASSUME NEW x, NEW y, NEW z PROVE <<x, y>> \o <<z>> = <<x, y, z>>
    <3> DEFINE S == {x, y, z}
               s == <<x, y>> \o <<z>>
               r == <<x, y, z>>
    <3>1. <<x, y>> \in Seq(S) /\ <<z>> \in Seq(S) /\ r \in Seq(S)
      OBVIOUS
    <3>2. s \in Seq(S) /\ Len(s) = 3
          /\ \A i \in 1..3 : s[i] = IF i <= 2 THEN <<x, y>>[i] ELSE <<z>>[i - 2]
      <4> HIDE DEF S
      <4> QED BY <3>1, ConcatProperties
    <3>3. Len(r) = 3 /\ r[1] = x /\ r[2] = y /\ r[3] = z
      OBVIOUS
    <3> HIDE DEF s, S, r
    <3>4. \A i \in 1..3 : s[i] = r[i]
      <4>1. \A i \in 1..3 : i = 1 \/ i = 2 \/ i = 3
        OBVIOUS
      <4> QED BY <3>2, <3>3, <4>1
    <3>5. s = r
      BY <3>1, <3>2, <3>3, <3>4, SeqEqual
    <3> QED BY <3>5 DEF s, r
  <2> QED BY <2>1, Zenon DEF Delta
<1>2. out \in Seq(ModelEntries(c)) /\ n \in Nat /\ DOMAIN out = 1..n
  BY DEF WellBuilt
<1>3. /\ new \in Seq(ModelEntries(c)) /\ Len(new) = 3
      /\ new[1] = Entry("call", id) /\ new[2] = Entry("return", id)
      /\ new[3] = Entry("response", id)
  <2>1. \A k \in EntryKinds : Entry(k, id) \in ModelEntries(c)
    BY DEF Entry, ModelEntries
  <2>2. /\ Entry("call", id) \in ModelEntries(c)
        /\ Entry("return", id) \in ModelEntries(c)
        /\ Entry("response", id) \in ModelEntries(c)
    BY <2>1 DEF EntryKinds
  <2> QED BY <2>2
<1> HIDE DEF new
<1>4. /\ more \in Seq(ModelEntries(c)) /\ Len(more) = n + 3
      /\ DOMAIN more = 1..(n + 3)
      /\ \A i \in 1..n : more[i] = out[i]
      /\ more[n+1] = Entry("call", id)
      /\ more[n+2] = Entry("return", id)
      /\ more[n+3] = Entry("response", id)
  <2> HIDE DEF n
  <2>1. /\ more \in Seq(ModelEntries(c)) /\ Len(more) = n + 3
        /\ \A i \in 1..(n + 3) : more[i] = IF i <= n THEN out[i] ELSE new[i - n]
    <3>1. Len(out) = n /\ Len(new) = 3
      BY <1>3 DEF n
    <3>2. /\ more \in Seq(ModelEntries(c)) /\ Len(more) = Len(out) + Len(new)
          /\ \A i \in 1..(Len(out) + Len(new)) :
               more[i] = IF i <= Len(out) THEN out[i] ELSE new[i - Len(out)]
      BY <1>2, <1>3, ConcatProperties, Zenon
    <3> HIDE DEF more
    <3> QED BY <3>1, <3>2
  <2>2. /\ n + 1 \in 1..(n + 3) /\ n + 2 \in 1..(n + 3) /\ n + 3 \in 1..(n + 3)
        /\ (n + 1) - n = 1 /\ (n + 2) - n = 2 /\ (n + 3) - n = 3
        /\ ~(n + 1 <= n) /\ ~(n + 2 <= n) /\ ~(n + 3 <= n)
    BY <1>2
  <2> HIDE DEF more
  <2>3. DOMAIN more = 1..(n + 3)
    BY <2>1
  <2>4. \A i \in 1..n : more[i] = out[i]
    BY <1>2, <2>1
  <2>5. more[n+1] = new[1] /\ more[n+2] = new[2] /\ more[n+3] = new[3]
    BY <2>1, <2>2
  <2> QED BY <1>3, <2>1, <2>3, <2>4, <2>5
<1> HIDE DEF more, n
<1>5. /\ Entry("call", id).kind = "call" /\ Entry("response", id).kind = "response"
      /\ Entry("return", id).of = id
  BY DEF Entry
<1>6. \A i \in DOMAIN more : more[i].kind = "return" => i \in 1..n \/ i = n + 2
  BY <1>2, <1>4, <1>5
<1>7. ReturnsAreFramed(more)
  <2> SUFFICES ASSUME NEW i \in DOMAIN more, more[i].kind = "return"
               PROVE  /\ i > 1 /\ more[i-1] = Entry("call", more[i].of)
                      /\ i < Len(more) /\ more[i+1] = Entry("response", more[i].of)
    BY DEF ReturnsAreFramed
  <2>1. CASE i \in 1..n
    <3>1. /\ i > 1 /\ out[i-1] = Entry("call", out[i].of)
          /\ i < n /\ out[i+1] = Entry("response", out[i].of)
      BY <1>2, <1>4, <2>1 DEF WellBuilt, ReturnsAreFramed, n
    <3>2. i - 1 \in 1..n /\ i + 1 \in 1..n
      BY <1>2, <2>1, <3>1
    <3> QED BY <1>2, <1>4, <2>1, <3>1, <3>2
  <2>2. CASE i = n + 2
    <3>1. i > 1 /\ i < Len(more) /\ i - 1 = n + 1 /\ i + 1 = n + 3
      BY <1>2, <1>4, <2>2
    <3> QED BY <1>4, <1>5, <2>2, <3>1
  <2> QED BY <1>6, <2>1, <2>2
<1>8. PICK q \in 1..n : out[q].kind = "request"
  BY <1>2 DEF WellBuilt
<1>9. ASSUME NEW i \in DOMAIN more, more[i].kind = "return"
      PROVE  \E j \in 1..(i - 1) : more[j].kind = "request"
  <2>1. CASE i \in 1..n
    <3>1. PICK j \in 1..(i - 1) : out[j].kind = "request"
      BY <1>2, <1>4, <1>9, <2>1 DEF WellBuilt
    <3>2. j \in 1..n
      BY <1>2, <2>1, <3>1
    <3> QED BY <1>4, <3>1, <3>2
  <2>2. CASE i = n + 2
    BY <1>2, <1>4, <1>8, <2>2
  <2> QED BY <1>6, <1>9, <2>1, <2>2
<1>10. \E j \in DOMAIN more : more[j].kind = "request"
  BY <1>2, <1>4, <1>8
<1>11. WellBuilt(c, more, TRUE)
  BY <1>4, <1>7, <1>9, <1>10 DEF WellBuilt
<1> QED BY <1>1, <1>11 DEF more

LEMMA BuildStep ==
  ASSUME NEW c, NEW out, NEW seen \in BOOLEAN, WellBuilt(c, out, seen),
         NEW id \in Ids(c), NEW rows
  PROVE  LET new == Entries(c, id, rows, seen)
         IN  WellBuilt(c, out \o new,
                       \/ seen
                       \/ /\ new # <<>>
                          /\ new[Len(new)].kind = "request")
<1> DEFINE new == Entries(c, id, rows, seen)
           now == \/ seen
                  \/ /\ new # <<>>
                     /\ new[Len(new)].kind = "request"
<1>1. out \in Seq(ModelEntries(c))
  BY DEF WellBuilt
<1>2. \A k \in EntryKinds : Entry(k, id) \in ModelEntries(c) /\ Entry(k, id).kind = k
  BY DEF Entry, ModelEntries
<1>3. \A e : out \o <<e>> = Append(out, e) /\ <<>> \o <<e>> = <<e>>
  BY <1>1
<1>4. CASE new = <<>>
  <2>1. out \o new = out /\ (now <=> seen)
    BY <1>1, <1>4
  <2>2. now = seen
    BY <2>1
  <2> QED BY <2>1, <2>2
<1>5. CASE new = <<>> \o <<Entry("response", id)>>
  <2>1. new = <<Entry("response", id)>> /\ new[Len(new)] = Entry("response", id)
    BY <1>3, <1>5
  <2>2. now = seen
    <3>1. new[Len(new)].kind # "request"
      BY <1>2, <2>1 DEF EntryKinds
    <3> HIDE DEF new
    <3> QED BY <3>1
  <2>3. WellBuilt(c, Append(out, Entry("response", id)), seen)
    BY <1>2, PlainEntry DEF EntryKinds
  <2> QED BY <1>3, <2>1, <2>2, <2>3
<1>6. CASE seen /\ new = Delta(id) \o <<Entry("response", id)>>
  <2>1. seen = TRUE /\ now = TRUE
    BY <1>6
  <2> QED BY <1>6, <2>1, ReplayedTurn
<1>7. CASE new = <<Entry("request", id)>>
  <2>1. new # <<>> /\ new[Len(new)] = Entry("request", id)
    BY <1>7
  <2>2. now = TRUE
    BY <1>2, <2>1 DEF EntryKinds
  <2>3. WellBuilt(c, Append(out, Entry("request", id)), TRUE)
    BY <1>2, PlainEntry DEF EntryKinds
  <2> QED BY <1>3, <1>7, <2>2, <2>3
<1> QED BY <1>4, <1>5, <1>6, <1>7, EntriesAre

-----------------------------------------------------------------------------
(* The recursive function of Built is there, up to any place.               *)
BuiltUpTo(c, ids, rows, n, upTo) ==
    upTo = [k \in 0..n |->
              IF k = 0 THEN [out |-> <<>>, seen |-> FALSE]
              ELSE LET new == Entries(c, ids[k], rows, upTo[k-1].seen)
                   IN  [out  |-> upTo[k-1].out \o new,
                        seen |-> \/ upTo[k-1].seen
                                 \/ /\ new # <<>>
                                    /\ new[Len(new)].kind = "request"]]

LEMMA BuiltExists ==
  ASSUME NEW c, NEW ids, NEW rows, NEW n \in Nat
  PROVE  \E f : BuiltUpTo(c, ids, rows, n, f)
<1> DEFINE S == {k \in Nat : \E f : BuiltUpTo(c, ids, rows, k, f)}
           After(k, r) == LET new == Entries(c, ids[k], rows, r.seen)
                          IN  [out  |-> r.out \o new,
                               seen |-> \/ r.seen
                                        \/ /\ new # <<>>
                                           /\ new[Len(new)].kind = "request"]
           Start == [out |-> <<>>, seen |-> FALSE]
<1>0. \A k, f : BuiltUpTo(c, ids, rows, k, f) <=>
        f = [j \in 0..k |-> IF j = 0 THEN Start ELSE After(j, f[j-1])]
  BY Zenon DEF BuiltUpTo
<1> HIDE DEF After, Start
<1>1. 0 \in S
  <2> DEFINE f == [k \in 0..0 |-> Start]
  <2>1. f = [k \in 0..0 |-> IF k = 0 THEN Start ELSE After(k, f[k-1])]
    OBVIOUS
  <2> QED BY <1>0, <2>1
<1>2. ASSUME NEW k \in 0..n, k \in S, k < n PROVE k + 1 \in S
  <2>1. PICK f : f = [j \in 0..k |-> IF j = 0 THEN Start ELSE After(j, f[j-1])]
    BY <1>0, <1>2
  <2> DEFINE g == [j \in 0..(k+1) |-> IF j = k + 1 THEN After(k + 1, f[k]) ELSE f[j]]
  <2>2. \A j \in 0..k : f[j] = IF j = 0 THEN Start ELSE After(j, f[j-1])
    BY <2>1
  <2>3. \A j \in 0..(k+1) : g[j] = IF j = 0 THEN Start ELSE After(j, g[j-1])
    BY <2>2
  <2>4. g = [j \in 0..(k+1) |-> IF j = 0 THEN Start ELSE After(j, g[j-1])]
    BY <2>3
  <2> HIDE DEF g
  <2>5. BuiltUpTo(c, ids, rows, k + 1, g)
    BY <1>0, <2>4
  <2> QED BY <2>5
<1> HIDE DEF S
<1>3. n \in S
  BY <1>1, <1>2, UpTo
<1> QED BY <1>3 DEF S

LEMMA BuiltIs ==
  ASSUME NEW c, NEW ids, NEW rows, NEW n \in Nat, Len(ids) = n
  PROVE  \E f : BuiltUpTo(c, ids, rows, n, f) /\ Built(c, ids, rows) = f[n].out
<1> DEFINE g == CHOOSE f : BuiltUpTo(c, ids, rows, Len(ids), f)
<1>1. BuiltUpTo(c, ids, rows, Len(ids), g)
  BY BuiltExists
<1>2. Built(c, ids, rows) = g[Len(ids)].out
  BY Zenon DEF Built, BuiltUpTo
<1> QED BY <1>1, <1>2

LEMMA BuiltWell ==
  ASSUME NEW c, NEW ids \in Seq(Ids(c)), NEW rows
  PROVE  \E seen \in BOOLEAN : WellBuilt(c, Built(c, ids, rows), seen)
<1> DEFINE n == Len(ids)
<1>1. n \in Nat
  OBVIOUS
<1>2. PICK f : BuiltUpTo(c, ids, rows, n, f) /\ Built(c, ids, rows) = f[n].out
  BY <1>1, BuiltIs
<1> DEFINE S == {k \in 0..n : WellBuilt(c, f[k].out, f[k].seen)}
<1>3. f[0] = [out |-> <<>>, seen |-> FALSE]
  BY <1>1, <1>2 DEF BuiltUpTo
<1>4. ASSUME NEW k \in 0..n, k < n
      PROVE  LET new == Entries(c, ids[k+1], rows, f[k].seen)
             IN  f[k+1] = [out |-> f[k].out \o new,
                           seen |-> \/ f[k].seen
                                    \/ /\ new # <<>>
                                       /\ new[Len(new)].kind = "request"]
  <2>1. k + 1 \in 0..n /\ k + 1 # 0 /\ (k + 1) - 1 = k
    BY <1>1, <1>4
  <2> QED BY <1>2, <2>1 DEF BuiltUpTo
<1>5. 0 \in S
  <2>1. WellBuilt(c, <<>>, FALSE)
    BY DEF WellBuilt, ReturnsAreFramed
  <2>2. f[0].out = <<>> /\ f[0].seen = FALSE /\ 0 \in 0..n
    BY <1>1, <1>3
  <2> QED BY <2>1, <2>2
<1>6. ASSUME NEW k \in 0..n, k \in S, k < n PROVE k + 1 \in S
  <2>1. WellBuilt(c, f[k].out, f[k].seen) /\ f[k].seen \in BOOLEAN
    BY <1>6 DEF WellBuilt
  <2>2. ids[k+1] \in Ids(c) /\ k + 1 \in 0..n
    BY <1>1, <1>6
  <2> DEFINE new == Entries(c, ids[k+1], rows, f[k].seen)
             now == \/ f[k].seen
                    \/ /\ new # <<>>
                       /\ new[Len(new)].kind = "request"
  <2>3. WellBuilt(c, f[k].out \o new, now)
    BY <2>1, <2>2, BuildStep
  <2>4. f[k+1].out = f[k].out \o new /\ f[k+1].seen = now
    <3>1. f[k+1] = [out |-> f[k].out \o new, seen |-> now]
      BY <1>4, <1>6
    <3> HIDE DEF new, now
    <3> QED BY <3>1
  <2> QED BY <2>2, <2>3, <2>4
<1> HIDE DEF S, n
<1>7. \A k \in 0..n : k \in S
  BY <1>1, <1>5, <1>6, UpTo
<1>8. n \in S
  BY <1>1, <1>7
<1>9. WellBuilt(c, f[n].out, f[n].seen)
  BY <1>8 DEF S
<1> QED BY <1>2, <1>9 DEF WellBuilt

(* What is left starts with a request, and its returns are framed.          *)
Fits(out) == /\ out # <<>> => out[1].kind = "request"
             /\ ReturnsAreFramed(out)

(* Whatever the records and whichever of their transcripts are stored, what *)
(* the model gets starts with a request and frames every replayed return,   *)
(* by induction over the records (history.py, build_message_history).       *)
THEOREM ModelHistoryFits ==
  ASSUME NEW c, NEW ids \in Seq(Ids(c)), NEW rows
  PROVE  /\ ModelHistory(c, ids, rows) \in Seq(ModelEntries(c))
         /\ Fits(ModelHistory(c, ids, rows))
<1> DEFINE out == Built(c, ids, rows)
           kept == {i \in DOMAIN out : ~IsResponse(out[i])}
           least == CHOOSE i \in kept : \A j \in kept : i <= j
           first == IF kept = {} THEN Len(out) + 1 ELSE least
           rest == SubSeq(out, first, Len(out))
<1>1. rest = ModelHistory(c, ids, rows)
  BY DEF ModelHistory, WithoutLeadingResponses
<1>2. PICK seen \in BOOLEAN : WellBuilt(c, out, seen)
  BY BuiltWell
<1> HIDE DEF out
<1>3. out \in Seq(ModelEntries(c)) /\ Len(out) \in Nat /\ DOMAIN out = 1..Len(out)
  BY <1>2 DEF WellBuilt
<1>4. CASE kept = {}
  <2>1. rest = <<>>
    BY <1>3, <1>4
  <2> HIDE DEF rest
  <2> QED BY <1>1, <2>1 DEF Fits, ReturnsAreFramed
<1>5. CASE kept # {}
  <2>1. least \in kept /\ \A j \in kept : least <= j
    <3>1. kept \subseteq Nat
      BY <1>3
    <3> HIDE DEF kept
    <3> QED BY <1>5, <3>1, LeastNumber
  <2>2. first = least /\ first \in 1..Len(out)
    BY <1>3, <1>5, <2>1
  <2>3. out[first].kind = "request"
    <3>1. out[first].kind \in EntryKinds /\ out[first].kind \notin {"response", "call"}
      <4>1. out[first] \in ModelEntries(c) /\ first \in kept
        <5> HIDE DEF kept, first, least
        <5> QED BY <1>3, <2>1, <2>2
      <4>2. ~IsResponse(out[first])
        BY <4>1
      <4> HIDE DEF first
      <4> QED BY <4>1, <4>2 DEF IsResponse, ModelEntries
    <3>2. ASSUME out[first].kind = "return" PROVE FALSE
      <4>1. PICK j \in 1..(first - 1) : out[j].kind = "request"
        BY <1>2, <1>3, <2>2, <3>2 DEF WellBuilt
      <4>2. j \in DOMAIN out /\ j < first /\ first \in Nat
        <5> HIDE DEF first
        <5> QED BY <1>3, <2>2, <4>1
      <4>3. ~IsResponse(out[j])
        BY <4>1 DEF IsResponse
      <4>4. j \in kept
        BY <4>2, <4>3
      <4> HIDE DEF kept, first, least
      <4> QED BY <2>1, <2>2, <4>2, <4>4
    <3> QED BY <3>1, <3>2 DEF EntryKinds
  <2> HIDE DEF kept, least, first
  <2>4. /\ rest \in Seq(ModelEntries(c)) /\ Len(rest) = Len(out) - first + 1
        /\ DOMAIN rest = 1..(Len(out) - first + 1)
        /\ \A i \in 1..(Len(out) - first + 1) : rest[i] = out[first + i - 1]
    BY <1>3, <2>2
  <2>5. rest[1].kind = "request"
    BY <1>3, <2>2, <2>3, <2>4
  <2> HIDE DEF rest
  <2>6. ASSUME NEW i \in DOMAIN rest, rest[i].kind = "return"
        PROVE  /\ i > 1 /\ rest[i-1] = Entry("call", rest[i].of)
               /\ i < Len(rest) /\ rest[i+1] = Entry("response", rest[i].of)
    <3> DEFINE k == first + i - 1
    <3>1. i # 1 /\ k \in DOMAIN out /\ rest[i] = out[k]
      BY <1>3, <2>2, <2>4, <2>5, <2>6
    <3>2. /\ out[k-1] = Entry("call", out[k].of)
          /\ k < Len(out) /\ out[k+1] = Entry("response", out[k].of)
      BY <1>2, <2>6, <3>1 DEF WellBuilt, ReturnsAreFramed
    <3>3. i > 1 /\ i < Len(rest)
      BY <1>3, <2>2, <2>4, <2>6, <3>1, <3>2
    <3>4. rest[i-1] = out[k-1] /\ rest[i+1] = out[k+1]
      <4>1. /\ i - 1 \in 1..(Len(out) - first + 1)
            /\ i + 1 \in 1..(Len(out) - first + 1)
            /\ first + (i - 1) - 1 = k - 1 /\ first + (i + 1) - 1 = k + 1
        BY <1>3, <2>2, <2>4, <2>6, <3>3
      <4> HIDE DEF k
      <4> QED BY <2>4, <4>1
    <3> QED BY <3>1, <3>2, <3>3, <3>4
  <2> QED BY <1>1, <2>4, <2>5, <2>6 DEF Fits, ReturnsAreFramed
<1> QED BY <1>4, <1>5

-----------------------------------------------------------------------------
(* A queue without repetition.                                              *)
Line(S, q) == q \in Seq(S) /\ IsInjective(q)

LEMMA LineAppend ==
  ASSUME NEW S, NEW q, Line(S, q), NEW x \in S, \A i \in DOMAIN q : q[i] # x
  PROVE  /\ Line(S, Append(q, x)) /\ DOMAIN Append(q, x) = 1..(Len(q) + 1)
         /\ \A i \in DOMAIN q : i \in 1..Len(q) /\ Append(q, x)[i] = q[i]
         /\ Append(q, x)[Len(q) + 1] = x
<1> DEFINE r == Append(q, x)
<1>1. q \in Seq(S) /\ Len(q) \in Nat /\ DOMAIN q = 1..Len(q)
  BY DEF Line
<1>2. /\ r \in Seq(S) /\ DOMAIN r = 1..(Len(q) + 1)
      /\ \A i \in 1..Len(q) : r[i] = q[i]
      /\ r[Len(q) + 1] = x
  BY <1>1
<1> HIDE DEF r
<1>3. ASSUME NEW a \in DOMAIN r, NEW b \in DOMAIN r, r[a] = r[b] PROVE a = b
  <2>1. CASE a \in 1..Len(q) /\ b \in 1..Len(q)
    BY <1>1, <1>2, <1>3, <2>1 DEF Line, IsInjective
  <2>2. CASE a = Len(q) + 1 \/ b = Len(q) + 1
    BY <1>1, <1>2, <1>3, <2>2
  <2> QED BY <1>1, <1>2, <2>1, <2>2
<1> QED BY <1>1, <1>2, <1>3 DEF Line, IsInjective, r

LEMMA LineTail ==
  ASSUME NEW S, NEW q, Line(S, q), q # <<>>
  PROVE  /\ Line(S, Tail(q)) /\ Len(q) \in Nat /\ DOMAIN q = 1..Len(q)
         /\ Head(q) = q[1] /\ 1 \in DOMAIN q
         /\ Len(Tail(q)) = Len(q) - 1 /\ DOMAIN Tail(q) = 1..(Len(q) - 1)
         /\ \A i \in DOMAIN Tail(q) : /\ i + 1 \in DOMAIN q
                                      /\ Tail(q)[i] = q[i + 1]
                                      /\ Tail(q)[i] # Head(q)
         /\ \A i \in DOMAIN q : i # 1 => i - 1 \in DOMAIN Tail(q)
<1> DEFINE r == Tail(q)
<1>1. q \in Seq(S) /\ Len(q) \in Nat /\ Len(q) > 0 /\ DOMAIN q = 1..Len(q)
  BY DEF Line
<1>2. /\ r \in Seq(S) /\ Len(r) = Len(q) - 1 /\ DOMAIN r = 1..(Len(q) - 1)
      /\ \A i \in 1..(Len(q) - 1) : r[i] = q[i + 1]
      /\ Head(q) = q[1]
  BY <1>1
<1> HIDE DEF r
<1>3. \A i \in DOMAIN r : i + 1 \in DOMAIN q /\ i + 1 # 1
  BY <1>1, <1>2
<1>4. ASSUME NEW a \in DOMAIN r, NEW b \in DOMAIN r, r[a] = r[b] PROVE a = b
  <2>1. a + 1 = b + 1
    BY <1>2, <1>3, <1>4 DEF Line, IsInjective
  <2> QED BY <1>1, <1>2, <2>1
<1>5. \A i \in DOMAIN r : r[i] # q[1]
  BY <1>1, <1>2, <1>3 DEF Line, IsInjective
<1>6. \A i \in DOMAIN q : i # 1 => i - 1 \in DOMAIN r
  BY <1>1, <1>2
<1>7. 1 \in DOMAIN q
  BY <1>1
<1> QED BY <1>1, <1>2, <1>3, <1>4, <1>5, <1>6, <1>7 DEF Line, IsInjective, r

LEMMA LineRemove ==
  ASSUME NEW S, NEW q, Line(S, q), NEW k \in DOMAIN q
  PROVE  LET r == RemoveAt(q, k)
             from(i) == IF i < k THEN i ELSE i + 1
         IN  /\ Line(S, r) /\ DOMAIN r = 1..(Len(q) - 1)
             /\ \A i \in DOMAIN r : /\ from(i) \in DOMAIN q /\ from(i) # k
                                    /\ r[i] = q[from(i)]
             /\ Len(q) \in Nat /\ DOMAIN q = 1..Len(q)
<1> DEFINE n == Len(q)
           a == SubSeq(q, 1, k - 1)
           b == SubSeq(q, k + 1, n)
           r == RemoveAt(q, k)
           from(i) == IF i < k THEN i ELSE i + 1
<1>1. q \in Seq(S) /\ n \in Nat /\ DOMAIN q = 1..n /\ k \in 1..n
  BY DEF Line
<1>2. r = a \o b
  BY DEF RemoveAt
<1> HIDE DEF n
<1>3. /\ a \in Seq(S) /\ Len(a) = k - 1
      /\ \A i \in 1..(k - 1) : a[i] = q[i]
  BY <1>1
<1>4. /\ b \in Seq(S) /\ Len(b) = n - k
      /\ \A i \in 1..(n - k) : b[i] = q[k + i]
  BY <1>1
<1> HIDE DEF a, b
<1>5. /\ a \o b \in Seq(S) /\ Len(a \o b) = Len(a) + Len(b)
      /\ \A i \in 1..(Len(a) + Len(b)) :
           (a \o b)[i] = IF i <= Len(a) THEN a[i] ELSE b[i - Len(a)]
  BY <1>3, <1>4, ConcatProperties
<1> HIDE DEF r
<1>6. r \in Seq(S) /\ Len(r) = n - 1 /\ DOMAIN r = 1..(n - 1)
  <2>1. Len(a) + Len(b) = n - 1
    BY <1>1, <1>3, <1>4
  <2>2. r \in Seq(S) /\ Len(r) = n - 1
    BY <1>2, <1>5, <2>1
  <2> QED BY <2>2
<1>7. ASSUME NEW i \in DOMAIN r
      PROVE  from(i) \in 1..n /\ from(i) # k /\ r[i] = q[from(i)]
  <2>1. i \in 1..(Len(a) + Len(b)) /\ i \in 1..(n - 1)
    BY <1>1, <1>3, <1>4, <1>6
  <2>2. CASE i < k
    BY <1>1, <1>2, <1>3, <1>5, <2>1, <2>2
  <2>3. CASE ~(i < k)
    <3>1. ~(i <= Len(a)) /\ i - Len(a) \in 1..(n - k) /\ k + (i - Len(a)) = i + 1
      BY <1>1, <1>3, <2>1, <2>3
    <3>2. r[i] = q[i + 1]
      BY <1>2, <1>4, <1>5, <2>1, <3>1
    <3> QED BY <1>1, <2>1, <2>3, <3>2
  <2> QED BY <2>2, <2>3
<1>8. ASSUME NEW i \in DOMAIN r, NEW j \in DOMAIN r, r[i] = r[j] PROVE i = j
  <2>1. from(i) = from(j)
    <3>1. q[from(i)] = q[from(j)] /\ from(i) \in DOMAIN q /\ from(j) \in DOMAIN q
      BY <1>1, <1>7, <1>8
    <3> HIDE DEF from
    <3> QED BY <3>1 DEF Line, IsInjective
  <2> QED BY <1>1, <1>6, <2>1
<1>9. Line(S, r)
  BY <1>6, <1>8 DEF Line, IsInjective
<1> QED BY <1>1, <1>6, <1>7, <1>9 DEF n, r

LEMMA LineConcat ==
  ASSUME NEW S, NEW q, Line(S, q), NEW p, Line(S, p),
         \A i \in DOMAIN q : \A j \in DOMAIN p : q[i] # p[j]
  PROVE  /\ Line(S, q \o p)
         /\ \A i \in DOMAIN q : i \in DOMAIN (q \o p) /\ (q \o p)[i] = q[i]
         /\ \A i \in DOMAIN (q \o p) :
              i \in DOMAIN q \/ \E j \in DOMAIN p : (q \o p)[i] = p[j]
<1> DEFINE r == q \o p
           n == Len(q)
           m == Len(p)
<1>1. /\ q \in Seq(S) /\ n \in Nat /\ DOMAIN q = 1..n
      /\ p \in Seq(S) /\ m \in Nat /\ DOMAIN p = 1..m
  BY DEF Line
<1>2. /\ r \in Seq(S) /\ Len(r) = n + m
      /\ \A i \in 1..(n + m) : r[i] = IF i <= n THEN q[i] ELSE p[i - n]
  BY <1>1, ConcatProperties, Zenon
<1> HIDE DEF r, n, m
<1>3. DOMAIN r = 1..(n + m)
  BY <1>2
<1>4. \A i \in 1..n : i \in 1..(n + m) /\ r[i] = q[i]
  BY <1>1, <1>2
<1>5. \A i \in 1..(n + m) : ~(i <= n) => i - n \in 1..m /\ r[i] = p[i - n]
  BY <1>1, <1>2
<1>6. ASSUME NEW i \in 1..(n + m), NEW j \in 1..(n + m), r[i] = r[j] PROVE i = j
  <2>1. CASE i <= n /\ j <= n
    BY <1>1, <1>4, <1>6, <2>1 DEF Line, IsInjective
  <2>2. CASE i <= n /\ ~(j <= n)
    BY <1>1, <1>4, <1>5, <1>6, <2>2
  <2>3. CASE ~(i <= n) /\ j <= n
    BY <1>1, <1>4, <1>5, <1>6, <2>3
  <2>4. CASE ~(i <= n) /\ ~(j <= n)
    <3>1. i - n = j - n
      BY <1>1, <1>5, <1>6, <2>4 DEF Line, IsInjective
    <3> QED BY <1>1, <3>1
  <2> QED BY <2>1, <2>2, <2>3, <2>4
<1>7. Line(S, r)
  BY <1>2, <1>3, <1>6 DEF Line, IsInjective
<1>8. \A i \in DOMAIN r : i \in DOMAIN q \/ \E j \in DOMAIN p : r[i] = p[j]
  BY <1>1, <1>3, <1>5
<1> QED BY <1>1, <1>3, <1>4, <1>7, <1>8 DEF r

(* The followers in any order.                                              *)
LEMMA LineOfSet ==
  ASSUME NEW S, IsFiniteSet(S), NEW T \in SUBSET S, NEW q \in SetToSeqs(T)
  PROVE  Line(S, q) /\ \A i \in DOMAIN q : q[i] \in T
<1>1. IsFiniteSet(T)
  BY FS_Subset
<1>2. Cardinality(T) \in Nat
  BY <1>1, FS_CardinalityType
<1>3. /\ q \in [1..Cardinality(T) -> T]
      /\ \A i, j \in 1..Cardinality(T) : i # j => q[i] # q[j]
  BY DEF SetToSeqs
<1>4. q \in Seq(T)
  BY <1>2, <1>3, SeqDef
<1>5. q \in Seq(S)
  BY <1>4, SeqMonotonic
<1> QED BY <1>3, <1>5 DEF Line, IsInjective

-----------------------------------------------------------------------------
(* What of a task's record counts for a fetch is there.                     *)
Flight == {"op", "pc", "at", "lead", "broken"}
Shaped(r) == Flight \subseteq DOMAIN r

Shape == /\ task = [t \in Tasks |-> task[t]]
         /\ \A t \in Tasks : Shaped(task[t])

FlightInv == Shape /\ LeadersFetch

-----------------------------------------------------------------------------
LEMMA IdleShaped == Shaped(Idle) /\ Idle.pc = "idle"
  BY DEF Idle, Shaped, Flight

LEMMA OverShaped ==
  ASSUME NEW r, NEW how
  PROVE  Shaped(Over(r, how)) /\ Over(r, how).pc = how
  BY DEF Over, Idle, Shaped, Flight

LEMMA WithRecordsShaped ==
  ASSUME NEW r, NEW ids
  PROVE  /\ Shaped(WithRecords(r, ids))
         /\ WithRecords(r, ids).pc \in {"join", "done"}
  BY DEF WithRecords, Idle, Shaped, Flight

LEMMA GoesShaped ==
  ASSUME NEW r, Shaped(r), NEW pc
  PROVE  Shaped([r EXCEPT !.pc = pc]) /\ [r EXCEPT !.pc = pc].pc = pc
  BY DEF Shaped, Flight

(* Some tasks go on, and nobody who follows is left behind by a leader that *)
(* goes.                                                                    *)
LEMMA GoOnKeeps ==
  ASSUME FlightInv, NEW moved \in SUBSET Tasks, NEW next,
         task' = [t \in Tasks |-> IF t \in moved THEN next[t] ELSE task[t]],
         \A t \in moved : Shaped(next[t]) /\ next[t].pc # "follow",
         \A f \in Tasks \ moved :
           task[f].pc = "follow" => task[f].lead \notin moved
  PROVE  FlightInv'
<1>1. \A t \in moved : task'[t] = next[t]
  OBVIOUS
<1>2. \A t \in Tasks \ moved : task'[t] = task[t]
  OBVIOUS
<1>3. Shape'
  BY <1>1, <1>2 DEF FlightInv, Shape
<1>4. LeadersFetch'
  <2> SUFFICES ASSUME NEW f \in Tasks, task'[f].pc = "follow"
               PROVE  /\ task'[f].lead \in Tasks
                      /\ task'[task'[f].lead].pc \in Fetching
                      /\ task'[task'[f].lead].at = task'[f].at
                      /\ ~task'[task'[f].lead].broken
    BY DEF LeadersFetch
  <2>1. f \notin moved /\ task'[f] = task[f]
    BY <1>1, <1>2
  <2>2. task[f].lead \in Tasks \ moved
    BY <2>1 DEF FlightInv, LeadersFetch
  <2> QED BY <1>2, <2>1, <2>2 DEF FlightInv, LeadersFetch
<1> QED BY <1>3, <1>4 DEF FlightInv

(* One task that leads nobody.                                              *)
LEMMA OneGoesKeeps ==
  ASSUME FlightInv, NEW t \in Tasks, task[t].pc \notin Fetching,
         NEW r, Shaped(r), r.pc # "follow", Begin(t, r)
  PROVE  FlightInv'
<1> DEFINE moved == {t}
           next == [u \in Tasks |-> r]
<1>1. task' = [u \in Tasks |-> IF u \in moved THEN next[u] ELSE task[u]]
  BY DEF Begin, FlightInv, Shape
<1>2. \A f \in Tasks \ moved : task[f].pc = "follow" => task[f].lead \notin moved
  BY DEF FlightInv, LeadersFetch
<1>3. moved \in SUBSET Tasks /\ \A u \in moved : next[u] = r
  OBVIOUS
<1> HIDE DEF moved, next
<1> QED BY <1>1, <1>2, <1>3, GoOnKeeps

-----------------------------------------------------------------------------
(* The leader and its followers get the records, or an empty history.       *)
LEMMA HandOverKeeps ==
  ASSUME FlightInv, NEW t \in Tasks, NEW ids, HandOver(t, ids)
  PROVE  FlightInv'
<1> DEFINE moved == {t} \cup Followers(t)
           next == [u \in Tasks |-> WithRecords(task[u], ids)]
<1>1. moved \in SUBSET Tasks
  BY DEF Followers
<1>2. task' = [u \in Tasks |-> IF u \in moved THEN next[u] ELSE task[u]]
  BY <1>1 DEF HandOver
<1>3. \A u \in moved : Shaped(next[u]) /\ next[u].pc # "follow"
  BY <1>1, WithRecordsShaped
<1>4. \A f \in Tasks \ moved : task[f].pc = "follow" => task[f].lead \notin moved
  BY DEF Followers, FlightInv, LeadersFetch, Fetching
<1> HIDE DEF moved, next
<1> QED BY <1>1, <1>2, <1>3, <1>4, GoOnKeeps

LEMMA FetchKeeps ==
  ASSUME FlightInv, NEW t \in Tasks, Fetch(t)
  PROVE  FlightInv'
<1>1. CASE \E ids, kept : FetchEnds(t, ids, kept)
  BY <1>1, HandOverKeeps DEF FetchEnds
<1>2. ASSUME task[t].pc = "history",
             NEW ids, Begin(t, [task[t] EXCEPT !.pc = "starter", !.ids = ids])
      PROVE  FlightInv'
  <2> DEFINE r == [task[t] EXCEPT !.pc = "starter", !.ids = ids]
  <2>1. /\ task = [u \in Tasks |-> task[u]] /\ Shaped(task[t])
        /\ task' = [task EXCEPT ![t] = r]
    BY <1>2 DEF FlightInv, Shape, Begin
  <2>2. /\ Shaped(r) /\ r.pc = "starter" /\ r.at = task[t].at
        /\ r.broken = task[t].broken /\ r.lead = task[t].lead
    BY <2>1 DEF Shaped, Flight
  <2> HIDE DEF r
  <2>3. task'[t] = r /\ \A u \in Tasks \ {t} : task'[u] = task[u]
    BY <2>1
  <2>4. Shape'
    BY <2>1, <2>2, <2>3 DEF FlightInv, Shape
  <2>5. LeadersFetch'
    BY <1>2, <2>2, <2>3 DEF FlightInv, LeadersFetch, Fetching
  <2> QED BY <2>4, <2>5 DEF FlightInv
<1> QED BY <1>1, <1>2 DEF Fetch, HistoryRead, HistoryFails, StarterRead,
       StarterFails

(* A mention that joins a fetch finds its leader at work, and the future    *)
(* whole.                                                                   *)
LEMMA MentionKeeps ==
  ASSUME FlightInv, NEW t \in Tasks, Mention(t)
  PROVE  FlightInv'
<1>1. PICK b \in Ids(chan) :
        MentionHit(t, b) \/ MentionFollows(t, b) \/ MentionLeads(t, b)
  BY DEF Mention
<1>2. task[t].pc = "idle"
  BY <1>1 DEF MentionHit, MentionFollows, MentionLeads
<1>3. CASE MentionHit(t, b)
  BY <1>2, <1>3, WithRecordsShaped, OneGoesKeeps DEF MentionHit, Fetching
<1>4. CASE MentionLeads(t, b)
  <2> DEFINE r == [Idle EXCEPT !.op = "mention", !.at = b, !.pc = "history"]
  <2>1. Shaped(r) /\ r.pc = "history"
    BY DEF Idle, Shaped, Flight
  <2>2. Begin(t, r)
    BY <1>4 DEF MentionLeads
  <2> HIDE DEF r
  <2> QED BY <1>2, <2>1, <2>2, OneGoesKeeps DEF Fetching
<1>5. CASE MentionFollows(t, b)
  <2>1. PICK l \in Leaders(b) :
          Begin(t, [Idle EXCEPT !.op = "mention", !.at = b, !.lead = l,
                      !.pc = IF task[l].broken THEN "unawaited" ELSE "follow"])
    BY <1>5 DEF MentionFollows
  <2> DEFINE pc == IF task[l].broken THEN "unawaited" ELSE "follow"
             r == [Idle EXCEPT !.op = "mention", !.at = b, !.lead = l, !.pc = pc]
  <2>2. /\ Shaped(r) /\ r.pc = pc /\ r.at = b /\ r.lead = l
    BY DEF Idle, Shaped, Flight
  <2>3. Begin(t, r)
    BY <2>1
  <2> HIDE DEF r
  <2>4. l \in Tasks /\ task[l].at = b /\ task[l].pc \in Fetching /\ l # t
    BY <1>2 DEF Leaders, Fetching
  <2>5. CASE task[l].broken
    BY <1>2, <2>2, <2>3, <2>5, OneGoesKeeps DEF Fetching
  <2>6. CASE ~task[l].broken
    <3>1. /\ task' = [task EXCEPT ![t] = r] /\ task = [u \in Tasks |-> task[u]]
      BY <2>3 DEF Begin, FlightInv, Shape
    <3>2. task'[t] = r /\ \A u \in Tasks \ {t} : task'[u] = task[u]
      BY <3>1
    <3>3. Shape'
      BY <2>2, <3>1, <3>2 DEF FlightInv, Shape
    <3>4. \A f \in Tasks \ {t} : task[f].pc = "follow" => task[f].lead # t
      BY <1>2 DEF FlightInv, LeadersFetch, Fetching
    <3>5. LeadersFetch'
      BY <2>2, <2>4, <2>6, <3>2, <3>4 DEF FlightInv, LeadersFetch
    <3> QED BY <3>3, <3>5 DEF FlightInv
  <2> QED BY <2>5, <2>6
<1> QED BY <1>1, <1>3, <1>4, <1>5

(* A cancelled leader serves its followers; a cancelled follower takes the  *)
(* future, and all who wait for it, along.                                  *)
LEMMA CancelKeeps ==
  ASSUME FlightInv, NEW t \in Tasks, Cancel(t)
  PROVE  FlightInv'
<1>1. CASE CancelLeader(t)
  <2> DEFINE moved == {t} \cup Followers(t)
             next == [u \in Tasks |-> IF u = t THEN Over(task[u], "cancelled")
                                      ELSE WithRecords(task[u], <<>>)]
  <2>1. moved \in SUBSET Tasks
    BY DEF Followers
  <2>2. task' = [u \in Tasks |-> IF u \in moved THEN next[u] ELSE task[u]]
    BY <1>1, <2>1 DEF CancelLeader, ServedOnCancel
  <2>3. \A u \in moved : Shaped(next[u]) /\ next[u].pc # "follow"
    BY <2>1, OverShaped, WithRecordsShaped
  <2>4. \A f \in Tasks \ moved : task[f].pc = "follow" => task[f].lead \notin moved
    BY DEF Followers, FlightInv, LeadersFetch, Fetching
  <2> HIDE DEF moved, next
  <2> QED BY <2>1, <2>2, <2>3, <2>4, GoOnKeeps
<1>2. CASE CancelFollower(t)
  <2> DEFINE l == task[t].lead
             moved == {t, l} \cup Followers(l)
             next == [u \in Tasks |->
                        IF u = t THEN Over(task[u], "cancelled")
                        ELSE IF u = l THEN [task[u] EXCEPT !.broken = TRUE]
                        ELSE Over(task[u], "unawaited")]
  <2>1. /\ l \in Tasks /\ l # t /\ task[l].pc \in Fetching
        /\ Shaped(task[l]) /\ t \in Followers(l)
    BY <1>2 DEF CancelFollower, Followers, FlightInv, LeadersFetch, Fetching, Shape
  <2> HIDE DEF l
  <2>2. moved \in SUBSET Tasks
    BY <2>1 DEF Followers
  <2>3. task' = [u \in Tasks |-> IF u \in moved THEN next[u] ELSE task[u]]
    BY <1>2, <2>2 DEF CancelFollower, l
  <2>4. Shaped([task[l] EXCEPT !.broken = TRUE])
        /\ [task[l] EXCEPT !.broken = TRUE].pc \in Fetching
    BY <2>1 DEF Shaped, Flight
  <2>5. \A u \in moved : Shaped(next[u]) /\ next[u].pc # "follow"
    BY <2>2, <2>4, OverShaped DEF Fetching
  <2>6. \A f \in Tasks \ moved : task[f].pc = "follow" => task[f].lead \notin moved
    BY <2>1 DEF Followers, FlightInv, LeadersFetch, Fetching
  <2> HIDE DEF moved, next
  <2> QED BY <2>2, <2>3, <2>5, <2>6, GoOnKeeps
<1>3. CASE CancelJoin(t)
  BY <1>3, OverShaped, OneGoesKeeps DEF CancelJoin, Fetching
<1> QED BY <1>1, <1>2, <1>3 DEF Cancel

(* The others neither lead nor follow.                                      *)
LEMMA OthersKeep ==
  ASSUME FlightInv, NEW t \in Tasks,
         \/ Reply(t) \/ Statement(t) \/ Clicked(t)
         \/ \E tier \in Tiers \cup {NoTier} : Effort(t, tier)
  PROVE  FlightInv'
<1>1. /\ task[t].pc \in Pcs \ (Fetching \cup {"follow"}) /\ Shaped(task[t])
  BY DEF FlightInv, Shape, Reply, Effort, Statement, Clicked, Execute,
     ExecuteFails, Commit, CommitFails, Join, JoinFails, Read, ReadFails, Click,
     Defer, DeferFails, FollowUp, Pcs, Fetching, Ended
<1>2. PICK r : Begin(t, r) /\ Shaped(r) /\ r.pc # "follow"
  <2>1. CASE Reply(t) \/ \E tier \in Tiers \cup {NoTier} : Effort(t, tier)
    <3>1. ASSUME NEW op, NEW at, NEW pc \in {"execute", "done"}
          PROVE  LET r == [Idle EXCEPT !.op = op, !.at = at, !.pc = pc]
                 IN  Shaped(r) /\ r.pc = pc
      BY DEF Idle, Shaped, Flight
    <3>2. ASSUME NEW op, NEW tier, NEW pc \in {"execute", "done"}
          PROVE  LET r == [Idle EXCEPT !.op = op, !.tier = tier, !.pc = pc]
                 IN  Shaped(r) /\ r.pc = pc
      BY DEF Idle, Shaped, Flight
    <3> QED BY <2>1, <3>1, <3>2 DEF Reply, Effort
  <2>2. CASE \E id \in toggles : Click(t, id)
    <3>1. ASSUME NEW id
          PROVE  LET r == [Idle EXCEPT !.op = "click", !.at = id, !.pc = "defer"]
                 IN  Shaped(r) /\ r.pc = "defer"
      BY DEF Idle, Shaped, Flight
    <3> QED BY <2>2, <3>1 DEF Click
  <2>3. CASE ExecuteFails(t) \/ Commit(t) \/ CommitFails(t) \/ JoinFails(t)
             \/ DeferFails(t)
    BY <2>3, OverShaped DEF ExecuteFails, Commit, CommitFails, JoinFails, DeferFails
  <2> DEFINE goes(pc) == [task[t] EXCEPT !.pc = pc]
  <2>0. \A pc \in {"commit", "done", "read"} :
          Shaped(goes(pc)) /\ goes(pc).pc # "follow"
    BY <1>1, GoesShaped
  <2>4. CASE Execute(t) \/ FollowUp(t)
    <3>1. Begin(t, goes("commit")) \/ Begin(t, goes("done"))
      BY <2>4 DEF Execute, FollowUp
    <3> HIDE DEF goes
    <3> QED BY <2>0, <3>1
  <2>5. CASE Join(t)
    <3>1. ASSUME NEW out
          PROVE  LET r == [task[t] EXCEPT !.pc = "done", !.out = out]
                 IN  Shaped(r) /\ r.pc = "done"
      BY <1>1 DEF Shaped, Flight
    <3> QED BY <2>5, <3>1 DEF Join
  <2>6. CASE Defer(t) \/ Read(t) \/ ReadFails(t)
    <3>1. ASSUME NEW what
          PROVE  Shaped(Answer(task[t], what))
                 /\ Answer(task[t], what).pc = "followup"
      BY <1>1 DEF Answer, Shaped, Flight
    <3>2. Begin(t, goes("read")) \/ \E what : Begin(t, Answer(task[t], what))
      BY <2>6 DEF Defer, Read, ReadFails, AfterReadError
    <3> HIDE DEF goes
    <3> QED BY <2>0, <3>1, <3>2
  <2> QED BY <2>1, <2>2, <2>3, <2>4, <2>5, <2>6 DEF Statement, Clicked
<1> QED BY <1>1, <1>2, OneGoesKeeps

LEMMA NextFlightInv == FlightInv /\ [Next]_vars => FlightInv'
<1> SUFFICES ASSUME FlightInv, [Next]_vars PROVE FlightInv'
  OBVIOUS
<1>1. CASE UNCHANGED task
  BY <1>1 DEF FlightInv, Shape, LeadersFetch
<1>2. CASE Restart
  BY <1>2, IdleShaped DEF Restart, FlightInv, Shape, LeadersFetch
<1> QED BY <1>1, <1>2, MentionKeeps, FetchKeeps, CancelKeeps, OthersKeep
       DEF Next, vars, HumanPosts, Clear, Expire

(* What a step makes of a follower.                                         *)
Waits(f) == task'[f] = task[f] /\ WaitsForFetch(f)'
Gets(f) == /\ task'[f].pc \in {"join", "done"}
           /\ task'[f].ids = task'[task[f].lead].ids
IsLetDown(f) == \E g \in Followers(task[f].lead) : task'[g].pc = "cancelled"

(* Left alone, it waits for a fetch: that is LeadersFetch.                  *)
LEMMA UntouchedWaits ==
  ASSUME FlightInv', NEW f \in Tasks, task[f].pc = "follow", task'[f] = task[f]
  PROVE  Waits(f)
  BY DEF FlightInv, LeadersFetch, Waits, WaitsForFetch

(* A step of one task that does not follow leaves the followers alone.      *)
LEMMA OneGoesAlone ==
  ASSUME FlightInv, FlightInv', NEW t \in Tasks, task[t].pc # "follow",
         NEW r, Begin(t, r), NEW f \in Tasks, task[f].pc = "follow"
  PROVE  Waits(f)
<1>1. task'[f] = task[f]
  BY DEF Begin, FlightInv, Shape
<1> QED BY <1>1, UntouchedWaits

LEMMA HandOverServes ==
  ASSUME FlightInv, FlightInv', NEW t \in Tasks, task[t].pc \in Fetching,
         NEW ids, HandOver(t, ids), NEW f \in Tasks, task[f].pc = "follow"
  PROVE  Waits(f) \/ Gets(f)
<1>1. task' = [u \in Tasks |-> IF u \in {t} \cup Followers(t)
                              THEN WithRecords(task[u], ids) ELSE task[u]]
  BY DEF HandOver
<1>2. f # t
  BY DEF Fetching
<1>3. CASE f \in Followers(t)
  <2>1. /\ task'[f] = WithRecords(task[f], ids)
        /\ task'[t] = WithRecords(task[t], ids) /\ task[f].lead = t
    BY <1>1, <1>3 DEF Followers
  <2>2. ASSUME NEW r
        PROVE  WithRecords(r, ids).ids = ids
               /\ WithRecords(r, ids).pc \in {"join", "done"}
    BY DEF WithRecords, Idle
  <2> QED BY <2>1, <2>2 DEF Gets
<1>4. CASE f \notin Followers(t)
  BY <1>1, <1>2, <1>4, UntouchedWaits
<1> QED BY <1>3, <1>4

LEMMA CancelTreats ==
  ASSUME FlightInv, FlightInv', NEW t \in Tasks, Cancel(t),
         NEW f \in Tasks, task[f].pc = "follow"
  PROVE  Waits(f) \/ Gets(f) \/ IsLetDown(f)
<1>1. CASE CancelLeader(t)
  <2>1. f # t /\ task'[t] = Over(task[t], "cancelled")
    BY <1>1 DEF CancelLeader, Fetching
  <2>2. CASE f \in Followers(t)
    <3>1. task'[f] = WithRecords(task[f], <<>>) /\ task[f].lead = t
      BY <1>1, <2>1, <2>2 DEF CancelLeader, ServedOnCancel, Followers
    <3>2. WithRecords(task[f], <<>>).ids = <<>> /\ Over(task[t], "cancelled").ids = <<>>
      BY DEF WithRecords, Over, Idle
    <3> QED BY <2>1, <3>1, <3>2, WithRecordsShaped DEF Gets
  <2>3. CASE f \notin Followers(t)
    BY <1>1, <2>1, <2>3, UntouchedWaits DEF CancelLeader, ServedOnCancel
  <2> QED BY <2>2, <2>3
<1>2. CASE CancelFollower(t)
  <2> DEFINE l == task[t].lead
  <2>1. /\ task[t].pc = "follow" /\ task[l].pc \in Fetching
        /\ task'[t] = Over(task[t], "cancelled")
    BY <1>2 DEF CancelFollower, FlightInv, LeadersFetch
  <2>2. CASE task[f].lead = l
    <3>1. t \in Followers(l) /\ task'[t].pc = "cancelled"
      BY <2>1, OverShaped DEF Followers
    <3> QED BY <2>2, <3>1 DEF IsLetDown
  <2>3. CASE task[f].lead # l
    <3>1. f # t /\ f # l /\ f \notin Followers(l)
      BY <2>1, <2>3 DEF Followers, Fetching
    <3>2. task'[f] = task[f]
      BY <1>2, <3>1 DEF CancelFollower
    <3> QED BY <3>2, UntouchedWaits
  <2> QED BY <2>2, <2>3
<1>3. CASE CancelJoin(t)
  BY <1>3, OneGoesAlone DEF CancelJoin
<1> QED BY <1>1, <1>2, <1>3 DEF Cancel

LEMMA FollowerStep ==
  ASSUME FlightInv, FlightInv', [Next]_vars, ~Restart,
         NEW f \in Tasks, task[f].pc = "follow"
  PROVE  Waits(f) \/ Gets(f) \/ IsLetDown(f)
<1>1. ASSUME NEW t \in Tasks, Mention(t) PROVE Waits(f)
  <2>1. task[t].pc = "idle" /\ \E r : Begin(t, r)
    BY <1>1 DEF Mention, MentionHit, MentionFollows, MentionLeads
  <2> QED BY <2>1, OneGoesAlone
<1>2. ASSUME NEW t \in Tasks, Fetch(t) PROVE Waits(f) \/ Gets(f)
  <2>1. task[t].pc \in Fetching
    BY <1>2 DEF Fetch, HistoryRead, HistoryFails, StarterRead, StarterFails, Fetching
  <2>2. (\E ids : HandOver(t, ids)) \/ \E r : Begin(t, r)
    BY <1>2 DEF Fetch, HistoryRead, HistoryFails, StarterRead, StarterFails, FetchEnds
  <2>3. task[t].pc # "follow"
    BY <2>1 DEF Fetching
  <2> QED BY <2>1, <2>2, <2>3, HandOverServes, OneGoesAlone
<1>3. ASSUME NEW t \in Tasks, Cancel(t)
      PROVE  Waits(f) \/ Gets(f) \/ IsLetDown(f)
  BY <1>3, CancelTreats
<1>4. ASSUME NEW t \in Tasks,
             \/ Reply(t) \/ Statement(t) \/ Clicked(t)
             \/ \E tier \in Tiers \cup {NoTier} : Effort(t, tier)
      PROVE  Waits(f)
  <2>1. task[t].pc # "follow" /\ \E r : Begin(t, r)
    BY <1>4 DEF Reply, Effort, Statement, Clicked, Execute, ExecuteFails, Commit,
       CommitFails, Join, JoinFails, Read, ReadFails, Click, Defer, DeferFails,
       FollowUp
  <2> QED BY <2>1, OneGoesAlone
<1>5. CASE UNCHANGED task
  BY <1>5, UntouchedWaits
<1> QED BY <1>1, <1>2, <1>3, <1>4, <1>5 DEF Next, vars, HumanPosts, Clear, Expire

-----------------------------------------------------------------------------
(* The invariant.  TaskRecords, of any channel.                             *)
RecordsOf(c) ==
    [op: {"none", "mention", "reply", "effort", "click"}, pc: Pcs,
     at: Ids(c), lead: Tasks \cup {NoTask}, broken: BOOLEAN,
     ids: Seq(Ids(c)), out: Seq(ModelEntries(c)),
     tier: Tiers \cup {NoTier}, shown: Shown]

(* BoundedBy, and HasRecords, of any channel and any record.                *)
Bounds(c, ids, b) ==
    \A m \in Elements(Window(c, b)) :
      IsClearMarker(c, m) => \A id \in Elements(ids) : id > m

Recorded(r) == r.op = "mention" /\ r.pc \in {"join", "done"}

(* What the invariant says of one task.                                     *)
TaskOK(c, r) ==
    /\ r \in RecordsOf(c)
    /\ r.pc \in Fetching \cup {"follow", "join"} => r.op = "mention"
    /\ r.pc \in {"execute", "commit"} => r.op \in {"reply", "effort"}
    /\ r.pc \in {"execute", "commit"} /\ r.op = "reply" => r.at \in DOMAIN c
    /\ r.pc \in {"defer", "read", "followup"} => r.op = "click"
    /\ Recorded(r) => Bounds(c, r.ids, r.at) /\ Fits(r.out)
    /\ r.pc = "starter" => r.ids = Window(c, r.at)

LEMMA ChannelGrows ==
  ASSUME NEW c \in Seq(Posts), NEW p \in Posts
  PROVE  LET more == Append(c, p)
         IN  /\ more \in Seq(Posts) /\ Len(more) = Len(c) + 1
             /\ DOMAIN c \subseteq DOMAIN more /\ Ids(c) \subseteq Ids(more)
             /\ Len(more) \in DOMAIN more
             /\ \A id \in DOMAIN c : more[id] = c[id]
             /\ Seq(Ids(c)) \subseteq Seq(Ids(more))
             /\ Seq(ModelEntries(c)) \subseteq Seq(ModelEntries(more))
             /\ \A b \in Ids(c) : Window(more, b) = Window(c, b)
             /\ \A b \in Ids(c) : \A ids : Bounds(c, ids, b) => Bounds(more, ids, b)
<1> DEFINE more == Append(c, p)
<1>1. /\ more \in Seq(Posts) /\ Len(more) = Len(c) + 1 /\ Len(c) \in Nat
      /\ DOMAIN more = 1..(Len(c) + 1) /\ DOMAIN c = 1..Len(c)
      /\ \A id \in 1..Len(c) : more[id] = c[id]
  OBVIOUS
<1> HIDE DEF more
<1>2. DOMAIN c \subseteq DOMAIN more /\ Len(more) \in DOMAIN more
  BY <1>1
<1>3. Ids(c) \subseteq Ids(more)
  BY <1>2 DEF Ids
<1>4. ModelEntries(c) \subseteq ModelEntries(more)
  BY <1>3 DEF ModelEntries
<1>5. /\ Seq(Ids(c)) \subseteq Seq(Ids(more))
      /\ Seq(ModelEntries(c)) \subseteq Seq(ModelEntries(more))
  BY <1>3, <1>4, SeqMonotonic
<1>6. \A b \in Ids(c) : Window(more, b) = Window(c, b)
  BY DEF Window
<1>7. ASSUME NEW b \in Ids(c), NEW ids, Bounds(c, ids, b) PROVE Bounds(more, ids, b)
  <2> SUFFICES ASSUME NEW m \in Elements(Window(c, b)), IsClearMarker(more, m)
               PROVE  \A id \in Elements(ids) : id > m
    BY <1>6 DEF Bounds
  <2>1. m \in DOMAIN c
    BY WindowIs
  <2>2. IsClearMarker(c, m)
    BY <1>1, <2>1 DEF IsClearMarker, Post
  <2> QED BY <1>7, <2>2 DEF Bounds
<1> QED BY <1>1, <1>2, <1>3, <1>5, <1>6, <1>7 DEF more

LEMMA TaskGrows ==
  ASSUME NEW c \in Seq(Posts), NEW p \in Posts, NEW r, TaskOK(c, r)
  PROVE  TaskOK(Append(c, p), r)
<1> DEFINE more == Append(c, p)
<1>1. r \in RecordsOf(c) /\ r.at \in Ids(c)
  BY DEF TaskOK, RecordsOf
<1>2. /\ DOMAIN c \subseteq DOMAIN more /\ Ids(c) \subseteq Ids(more)
      /\ Seq(Ids(c)) \subseteq Seq(Ids(more))
      /\ Seq(ModelEntries(c)) \subseteq Seq(ModelEntries(more))
      /\ Window(more, r.at) = Window(c, r.at)
      /\ Bounds(c, r.ids, r.at) => Bounds(more, r.ids, r.at)
  BY <1>1, ChannelGrows
<1> HIDE DEF more
<1>3. r \in RecordsOf(more)
  BY <1>1, <1>2 DEF RecordsOf
<1> QED BY <1>2, <1>3 DEF TaskOK, more

LEMMA NewRecord ==
  ASSUME NEW c, NEW op \in {"none", "mention", "reply", "effort", "click"},
         NEW pc \in Pcs, NEW at \in Ids(c), NEW lead \in Tasks \cup {NoTask},
         NEW ids \in Seq(Ids(c)), NEW out \in Seq(ModelEntries(c)),
         NEW tier \in Tiers \cup {NoTier}
  PROVE  LET r == [Idle EXCEPT !.op = op, !.pc = pc, !.at = at, !.lead = lead,
                     !.ids = ids, !.out = out, !.tier = tier]
         IN  /\ r \in RecordsOf(c) /\ r.op = op /\ r.pc = pc /\ r.at = at
             /\ r.ids = ids /\ r.out = out /\ r.lead = lead /\ r.tier = tier
  BY DEF Idle, RecordsOf, Shown

LEMMA EmptyHistory ==
  ASSUME NEW c
  PROVE  /\ <<>> \in Seq(Ids(c)) /\ <<>> \in Seq(ModelEntries(c))
         /\ \A b : Bounds(c, <<>>, b)
         /\ Fits(<<>>)
  BY DEF Bounds, Elements, Fits, ReturnsAreFramed

LEMMA IdleOK ==
  ASSUME NEW c
  PROVE  TaskOK(c, Idle)
<1>1. Idle \in RecordsOf(c)
  BY EmptyHistory DEF Idle, RecordsOf, Shown, Pcs, Ids, Starter
<1> QED BY <1>1 DEF TaskOK, Idle, Fetching, Recorded

LEMMA OverOK ==
  ASSUME NEW c, NEW r, TaskOK(c, r), NEW how \in Ended,
         how = "done" => r.op # "mention"
  PROVE  TaskOK(c, Over(r, how))
<1> DEFINE o == Over(r, how)
<1>1. r.op \in {"none", "mention", "reply", "effort", "click"}
  BY DEF TaskOK, RecordsOf
<1>2. o \in RecordsOf(c) /\ o.op = r.op /\ o.pc = how
  BY <1>1, EmptyHistory DEF Over, Idle, RecordsOf, Shown, Pcs, Ended, Ids, Starter
<1> HIDE DEF o
<1>3. TaskOK(c, o)
  BY <1>2 DEF TaskOK, Fetching, Ended, Recorded
<1> QED BY <1>3 DEF o

LEMMA WithRecordsOK ==
  ASSUME chan \in Seq(Posts), NEW r, r.op = "mention", r.at \in Ids(chan),
         NEW ids \in Seq(Ids(chan)), Bounds(chan, ids, r.at)
  PROVE  TaskOK(chan, WithRecords(r, ids))
<1> DEFINE w == WithRecords(r, ids)
           h == ModelHistory(chan, ids, {})
<1>1. h \in Seq(ModelEntries(chan)) /\ Fits(h)
  BY ModelHistoryFits
<1> HIDE DEF h
<1>2. /\ w \in RecordsOf(chan) /\ w.op = "mention" /\ w.pc \in {"join", "done"}
      /\ w.ids = ids /\ w.at = r.at /\ Fits(w.out)
  <2>1. CASE Joins(ids)
    <3>1. w = [Idle EXCEPT !.op = r.op, !.at = r.at, !.pc = "join", !.ids = ids]
      BY <2>1 DEF WithRecords
    <3> HIDE DEF w
    <3> QED BY <3>1, EmptyHistory DEF Idle, RecordsOf, Shown, Pcs
  <2>2. CASE ~Joins(ids)
    <3>1. w = [Idle EXCEPT !.op = r.op, !.at = r.at, !.pc = "done", !.ids = ids,
                 !.out = h]
      BY <2>2 DEF WithRecords, h
    <3> HIDE DEF w
    <3> QED BY <1>1, <3>1 DEF Idle, RecordsOf, Shown, Pcs, Ended
  <2> QED BY <2>1, <2>2
<1> HIDE DEF w
<1>3. TaskOK(chan, w)
  BY <1>2 DEF TaskOK, Fetching, Recorded
<1> QED BY <1>3 DEF w

-----------------------------------------------------------------------------
(* The invariant, by what it is about.                                      *)
DbOK(c, db) ==
    /\ DOMAIN db = {"rows", "tier"}
    /\ DOMAIN db.rows \subseteq DOMAIN c
    /\ \A id \in DOMAIN db.rows : db.rows[id] \in RowStates
    /\ db.tier \in Tiers \cup {NoTier}

ChanOK == /\ kind \in ChannelKinds
          /\ chan \in Seq(Posts) /\ (Len(chan) <= MaxOld \/ Len(chan) <= MaxPosts)

StoreOK == /\ toggles \subseteq {id \in DOMAIN chan : chan[id] = "reply"}
           /\ enabled \in BOOLEAN /\ faithful \in BOOLEAN
           /\ DbOK(chan, table) /\ DbOK(chan, disk)
           /\ effort \in Tiers \cup {NoTier}
           /\ restarts \in 0..MaxRestarts

CacheInv ==
    /\ DOMAIN cache \subseteq Ids(chan)
    /\ \A b \in DOMAIN cache : cache[b] \in Seq(Ids(chan)) /\ Bounds(chan, cache[b], b)

TasksInv == /\ task = [t \in Tasks |-> task[t]]
            /\ \A t \in Tasks : TaskOK(chan, task[t])

QueueInv == Line(Tasks, queue) /\ QueueWaits

LEMMA Parts ==
  IInv <=> /\ ChanOK /\ StoreOK /\ CacheInv /\ TasksInv /\ QueueInv
           /\ LeadersFetch /\ LastCommitCounts
<1>1. TypeOK <=> /\ ChanOK /\ StoreOK
                 /\ DOMAIN cache \subseteq Ids(chan)
                 /\ \A b \in DOMAIN cache : cache[b] \in Seq(Ids(chan))
                 /\ Line(Tasks, queue)
                 /\ task \in [Tasks -> RecordsOf(chan)]
  BY DEF TypeOK, ChanOK, StoreOK, DbOK, Line, TaskRecords, RecordsOf
<1>2. task \in [Tasks -> RecordsOf(chan)]
        <=> /\ task = [t \in Tasks |-> task[t]]
            /\ \A t \in Tasks : task[t] \in RecordsOf(chan)
  OBVIOUS
<1>3. /\ \A t : HasRecords(t) <=> Recorded(task[t])
      /\ \A ids, b : BoundedBy(ids, b) <=> Bounds(chan, ids, b)
  BY DEF HasRecords, Recorded, BoundedBy, Bounds
<1>4. ReplayFits <=> \A t \in Tasks : Recorded(task[t]) => Fits(task[t].out)
  BY <1>3 DEF ReplayFits, Fits
<1>5. RecordsBounded <=>
        /\ \A t \in Tasks : Recorded(task[t]) => Bounds(chan, task[t].ids, task[t].at)
        /\ \A b \in DOMAIN cache : Bounds(chan, cache[b], b)
        /\ \A t \in Tasks :
             task[t].pc = "starter" => task[t].ids = Window(chan, task[t].at)
  BY <1>3 DEF RecordsBounded
<1>6. TasksInv <=>
        /\ task = [t \in Tasks |-> task[t]]
        /\ \A t \in Tasks : task[t] \in RecordsOf(chan)
        /\ KeepsToItsOp
        /\ \A t \in Tasks : Recorded(task[t]) => /\ Bounds(chan, task[t].ids, task[t].at)
                                                 /\ Fits(task[t].out)
        /\ \A t \in Tasks :
             task[t].pc = "starter" => task[t].ids = Window(chan, task[t].at)
  BY DEF TasksInv, TaskOK, KeepsToItsOp
<1> QED BY <1>1, <1>2, <1>4, <1>5, <1>6 DEF IInv, CacheInv, QueueInv

-----------------------------------------------------------------------------
(* The tasks.                                                               *)
LEMMA TasksGoOn ==
  ASSUME TasksInv, NEW moved \in SUBSET Tasks, NEW next,
         task' = [t \in Tasks |-> IF t \in moved THEN next[t] ELSE task[t]],
         chan' = chan, \A t \in moved : TaskOK(chan, next[t])
  PROVE  TasksInv'
<1>1. \A t \in Tasks : task'[t] = IF t \in moved THEN next[t] ELSE task[t]
  OBVIOUS
<1>2. \A t \in Tasks : TaskOK(chan, task'[t])
  BY <1>1 DEF TasksInv
<1> QED BY <1>1, <1>2 DEF TasksInv

LEMMA TaskGoesOn ==
  ASSUME TasksInv, NEW t \in Tasks, NEW r, Begin(t, r)
  PROVE  /\ task' = [u \in Tasks |-> task'[u]] /\ task'[t] = r
         /\ \A u \in Tasks \ {t} : task'[u] = task[u]
         /\ chan' = chan /\ TaskOK(chan, r) => TasksInv'
<1>1. /\ task' = [u \in Tasks |-> task'[u]] /\ task'[t] = r
      /\ \A u \in Tasks \ {t} : task'[u] = task[u]
  BY DEF TasksInv, Begin
<1> QED BY <1>1 DEF TasksInv

-----------------------------------------------------------------------------
(* The queue, and the effort commands that wait for their commit.           *)
Waiting == {"join", "execute", "commit", "read"}

(* The same commands in the same order, wherever they are in the queue.     *)
SameCommits ==
    \E g : /\ \A j \in ToCommit' :
                g[j] \in ToCommit /\ task'[queue'[j]].tier = task[queue[g[j]]].tier
           /\ \A i, j \in ToCommit' : i <= j => g[i] <= g[j]
           /\ \A i \in ToCommit : \E j \in ToCommit' : g[j] = i

LEMMA CommitsCount ==
  ASSUME LastCommitCounts, SameCommits, enabled' = enabled, faithful' = faithful,
         effort' = effort, table'.tier = table.tier, disk'.tier = disk.tier
  PROVE  LastCommitCounts'
<1> SUFFICES ASSUME enabled, faithful
             PROVE  /\ \A i \in ToCommit' : (\A j \in ToCommit' : j <= i)
                         => task'[queue'[i]].tier = table.tier
                    /\ ToCommit' = {} => effort = table.tier /\ disk.tier = table.tier
  BY DEF LastCommitCounts
<1>1. PICK g :
        /\ \A j \in ToCommit' :
             g[j] \in ToCommit /\ task'[queue'[j]].tier = task[queue[g[j]]].tier
        /\ \A i, j \in ToCommit' : i <= j => g[i] <= g[j]
        /\ \A i \in ToCommit : \E j \in ToCommit' : g[j] = i
  BY DEF SameCommits
<1>2. ASSUME NEW i \in ToCommit', \A j \in ToCommit' : j <= i
      PROVE  task'[queue'[i]].tier = table.tier
  <2>1. \A k \in ToCommit : k <= g[i]
    BY <1>1, <1>2
  <2> QED BY <1>1, <2>1 DEF LastCommitCounts
<1>3. ToCommit' = {} => ToCommit = {}
  BY <1>1
<1> QED BY <1>2, <1>3 DEF LastCommitCounts

LEMMA QueueStays ==
  ASSUME QueueInv, queue' = queue,
         \A u \in Tasks : task[u].pc \in Waiting => task'[u] = task[u]
  PROVE  QueueInv' /\ SameCommits
<1>1. \A i \in DOMAIN queue : queue[i] \in Tasks /\ task[queue[i]].pc \in Waiting
  BY DEF QueueInv, Line, QueueWaits, Waiting
<1>2. \A i \in DOMAIN queue : task'[queue[i]] = task[queue[i]]
  BY <1>1
<1>3. QueueInv'
  BY <1>2 DEF QueueInv, QueueWaits, Line
<1>4. ToCommit' = ToCommit
  BY <1>2 DEF ToCommit
<1> DEFINE g == [i \in ToCommit |-> i]
<1>5. /\ \A j \in ToCommit' :
           g[j] \in ToCommit /\ task'[queue'[j]].tier = task[queue[g[j]]].tier
      /\ \A i, j \in ToCommit' : i <= j => g[i] <= g[j]
      /\ \A i \in ToCommit : \E j \in ToCommit' : g[j] = i
  BY <1>2, <1>4 DEF ToCommit
<1> QED BY <1>3, <1>5 DEF SameCommits

(* A task gets in line with a statement that is not a commit.               *)
LEMMA QueueGrows ==
  ASSUME QueueInv, NEW t \in Tasks, queue' = Append(queue, t),
         task[t].pc \notin Waiting, task'[t].pc \in Waiting \ {"commit"},
         \A u \in Tasks \ {t} : task[u].pc \in Waiting => task'[u] = task[u]
  PROVE  QueueInv' /\ SameCommits
<1>1. \A i \in DOMAIN queue : queue[i] \in Tasks /\ task[queue[i]].pc \in Waiting
  BY DEF QueueInv, Line, QueueWaits, Waiting
<1>2. \A i \in DOMAIN queue : queue[i] # t /\ task'[queue[i]] = task[queue[i]]
  BY <1>1
<1> DEFINE n == Len(queue)
<1>3. /\ Line(Tasks, queue') /\ DOMAIN queue' = 1..(n + 1)
      /\ \A i \in DOMAIN queue : i \in 1..n /\ queue'[i] = queue[i]
      /\ queue'[n + 1] = t
  BY <1>2, LineAppend DEF QueueInv
<1>4. n \in Nat /\ DOMAIN queue = 1..n
  BY DEF QueueInv, Line
<1> HIDE DEF n
<1>5. \A i \in DOMAIN queue' : i \in DOMAIN queue \/ i = n + 1
  BY <1>3, <1>4
<1>6. QueueInv'
  <2>1. \A i \in DOMAIN queue' : task'[queue'[i]].pc \in Waiting
    BY <1>1, <1>2, <1>3, <1>5
  <2> QED BY <1>3, <2>1 DEF QueueInv, QueueWaits, Waiting
<1>7. ToCommit' = ToCommit
  <2>1. ASSUME NEW i \in ToCommit' PROVE i \in ToCommit
    BY <1>2, <1>3, <1>5 DEF ToCommit
  <2>2. ASSUME NEW i \in ToCommit PROVE i \in ToCommit'
    <3>1. i \in DOMAIN queue'
      BY <1>3, <1>4 DEF ToCommit
    <3> QED BY <1>2, <1>3, <3>1 DEF ToCommit
  <2> QED BY <2>1, <2>2
<1> DEFINE g == [i \in ToCommit |-> i]
<1>8. /\ \A j \in ToCommit' :
           g[j] \in ToCommit /\ task'[queue'[j]].tier = task[queue[g[j]]].tier
      /\ \A i, j \in ToCommit' : i <= j => g[i] <= g[j]
      /\ \A i \in ToCommit : \E j \in ToCommit' : g[j] = i
  <2>1. \A i \in ToCommit : g[i] = i /\ i \in DOMAIN queue
    BY DEF ToCommit
  <2> HIDE DEF g
  <2>2. \A i \in ToCommit : task'[queue'[i]].tier = task[queue[i]].tier
    BY <1>2, <1>3, <2>1
  <2> QED BY <1>7, <2>1, <2>2
<1> QED BY <1>6, <1>8 DEF SameCommits

(* The statement at the head is run.                                        *)
LEMMA QueueServes ==
  ASSUME QueueInv, NEW t \in Tasks, Served(t), queue' = Tail(queue),
         \A u \in Tasks \ {t} : task'[u] = task[u]
  PROVE  /\ QueueInv'
         /\ ~(task[t].op = "effort" /\ task[t].pc = "commit") => SameCommits
         /\ \A j \in ToCommit' :
              j + 1 \in ToCommit /\ task'[queue'[j]].tier = task[queue[j + 1]].tier
         /\ \A i \in ToCommit : i # 1 => i - 1 \in ToCommit'
<1> DEFINE n == Len(queue)
<1>1. /\ Line(Tasks, queue') /\ n \in Nat /\ DOMAIN queue = 1..n
      /\ t = queue[1] /\ 1 \in DOMAIN queue
      /\ DOMAIN queue' = 1..(n - 1)
      /\ \A i \in DOMAIN queue' : /\ i + 1 \in DOMAIN queue
                                  /\ queue'[i] = queue[i + 1]
                                  /\ queue'[i] # t
      /\ \A i \in DOMAIN queue : i # 1 => i - 1 \in DOMAIN queue'
  BY LineTail DEF QueueInv, Served
<1> HIDE DEF n
<1>2. \A i \in DOMAIN queue' : queue'[i] \in Tasks /\ task'[queue'[i]] = task[queue'[i]]
  BY <1>1 DEF Line
<1>3. QueueInv'
  <2>1. \A i \in DOMAIN queue' : task'[queue'[i]].pc \in Waiting
    BY <1>1, <1>2 DEF QueueInv, QueueWaits, Waiting
  <2> QED BY <1>1, <2>1 DEF QueueInv, QueueWaits, Waiting
<1>4. \A j \in ToCommit' :
        j + 1 \in ToCommit /\ task'[queue'[j]].tier = task[queue[j + 1]].tier
  BY <1>1, <1>2 DEF ToCommit
<1>5. ASSUME NEW i \in ToCommit, i # 1 PROVE i - 1 \in ToCommit'
  <2>1. i - 1 \in DOMAIN queue' /\ (i - 1) + 1 = i
    BY <1>1, <1>5 DEF ToCommit
  <2>2. queue'[i - 1] = queue[i] /\ task'[queue'[i - 1]] = task[queue[i]]
    BY <1>1, <1>2, <2>1
  <2> QED BY <2>1, <2>2 DEF ToCommit
<1>6. ASSUME ~(task[t].op = "effort" /\ task[t].pc = "commit") PROVE SameCommits
  <2>1. 1 \notin ToCommit
    BY <1>1, <1>6 DEF ToCommit
  <2>2. ToCommit' \subseteq Int /\ ToCommit \subseteq Int
    BY <1>1 DEF ToCommit
  <2> DEFINE g == [j \in ToCommit' |-> j + 1]
  <2>3. \A j \in ToCommit' :
          g[j] \in ToCommit /\ task'[queue'[j]].tier = task[queue[g[j]]].tier
    BY <1>4
  <2>4. \A i, j \in ToCommit' : i <= j => g[i] <= g[j]
    <3>1. \A j \in ToCommit' : g[j] = j + 1 /\ j \in Int
      BY <2>2
    <3> HIDE DEF g
    <3> QED BY <3>1
  <2>5. ASSUME NEW i \in ToCommit PROVE \E j \in ToCommit' : g[j] = i
    <3>1. i - 1 \in ToCommit' /\ (i - 1) + 1 = i
      BY <1>5, <2>1, <2>2
    <3> QED BY <3>1
  <2> HIDE DEF g
  <2> QED BY <2>3, <2>4, <2>5 DEF SameCommits
<1> QED BY <1>3, <1>4, <1>5, <1>6

(* A join that waits for its statement is cancelled.                        *)
LEMMA QueueLoses ==
  ASSUME QueueInv, NEW k \in DOMAIN queue, queue' = RemoveAt(queue, k),
         task[queue[k]].pc = "join",
         \A u \in Tasks \ {queue[k]} : task'[u] = task[u]
  PROVE  QueueInv' /\ SameCommits
<1> DEFINE n == Len(queue)
           from(i) == IF i < k THEN i ELSE i + 1
<1>1. /\ Line(Tasks, queue') /\ n \in Nat /\ DOMAIN queue = 1..n
      /\ DOMAIN queue' = 1..(n - 1)
      /\ \A i \in DOMAIN queue' : /\ from(i) \in DOMAIN queue /\ from(i) # k
                                  /\ queue'[i] = queue[from(i)]
  BY LineRemove DEF QueueInv
<1> HIDE DEF n
<1>2. \A i \in DOMAIN queue : i # k => task'[queue[i]] = task[queue[i]]
  BY DEF QueueInv, Line, IsInjective
<1>3. \A i \in DOMAIN queue' : task'[queue'[i]] = task[queue[from(i)]]
  <2> HIDE DEF from
  <2> QED BY <1>1, <1>2
<1>4. QueueInv'
  <2>1. \A i \in DOMAIN queue' : task'[queue'[i]].pc \in Waiting
    <3> HIDE DEF from
    <3> QED BY <1>1, <1>3 DEF QueueInv, QueueWaits, Waiting
  <2> QED BY <1>1, <2>1 DEF QueueInv, QueueWaits, Waiting
<1> DEFINE g == [i \in 1..(n - 1) |-> from(i)]
<1>5. \A i \in DOMAIN queue' : g[i] = from(i)
  BY <1>1
<1>6. \A j \in ToCommit' :
        g[j] \in ToCommit /\ task'[queue'[j]].tier = task[queue[g[j]]].tier
  <2> HIDE DEF g, from
  <2> QED BY <1>1, <1>3, <1>5 DEF ToCommit
<1>7. \A i, j \in ToCommit' : i <= j => g[i] <= g[j]
  <2>1. \A i, j \in 1..(n - 1) : i <= j => from(i) <= from(j)
    BY <1>1
  <2>2. ToCommit' \subseteq 1..(n - 1)
    BY <1>1 DEF ToCommit
  <2> HIDE DEF g, from
  <2> QED BY <1>1, <1>5, <2>1, <2>2
<1>8. ASSUME NEW i \in ToCommit PROVE \E j \in ToCommit' : g[j] = i
  <2> DEFINE j == IF i < k THEN i ELSE i - 1
  <2>1. i \in 1..n /\ i # k
    BY <1>1 DEF ToCommit
  <2>2. j \in 1..(n - 1) /\ from(j) = i
    BY <1>1, <2>1
  <2> HIDE DEF j, from
  <2>3. task'[queue'[j]] = task[queue[i]] /\ j \in DOMAIN queue'
    BY <1>1, <1>3, <2>2
  <2>4. j \in ToCommit'
    BY <2>3 DEF ToCommit
  <2> HIDE DEF g
  <2> QED BY <1>1, <1>5, <2>2, <2>4
<1> HIDE DEF g
<1> QED BY <1>4, <1>6, <1>7, <1>8 DEF SameCommits

-----------------------------------------------------------------------------
(* What a step of a task leaves alone, except for the cache and the queue.  *)
Untouched == UNCHANGED <<kind, chan, toggles, enabled, table, disk, effort, faithful,
                         restarts>>

LEMMA UntouchedKeeps ==
  ASSUME ChanOK, StoreOK, LastCommitCounts, SameCommits, Untouched
  PROVE  ChanOK' /\ StoreOK' /\ LastCommitCounts'
<1>1. ChanOK' /\ StoreOK'
  BY DEF ChanOK, StoreOK, DbOK, Untouched
<1> QED BY <1>1, CommitsCount DEF Untouched

LEMMA CacheStays ==
  ASSUME CacheInv, chan' = chan, cache' = cache
  PROVE  CacheInv'
  BY DEF CacheInv

-----------------------------------------------------------------------------
(* Nobody but a task itself moves it in most steps.  What of the invariant  *)
(* is left then: the leaders' part is NextFlightInv.                        *)
Rest == ChanOK /\ StoreOK /\ CacheInv /\ TasksInv /\ QueueInv /\ LastCommitCounts

LEMMA FlightFollows == TasksInv /\ LeadersFetch => FlightInv
<1>1. TasksInv => Shape
  BY DEF TasksInv, TaskOK, RecordsOf, Shape, Shaped, Flight
<1> QED BY <1>1 DEF FlightInv

(* The task's own record is well made, and its place in the queue is as it  *)
(* was or it has got in line.                                               *)
LEMMA OwnStep ==
  ASSUME Rest, NEW t \in Tasks, NEW r, Begin(t, r), TaskOK(chan, r),
         Untouched, cache' = cache, task[t].pc \notin Waiting,
         \/ queue' = queue
         \/ queue' = Append(queue, t) /\ r.pc \in Waiting \ {"commit"}
  PROVE  Rest'
<1>1. /\ task'[t] = r /\ \A u \in Tasks \ {t} : task'[u] = task[u]
      /\ TasksInv'
  BY TaskGoesOn DEF Rest, Untouched
<1>2. QueueInv' /\ SameCommits
  <2>1. CASE queue' = queue
    BY <1>1, <2>1, QueueStays DEF Rest
  <2>2. CASE queue' = Append(queue, t) /\ r.pc \in Waiting \ {"commit"}
    BY <1>1, <2>2, QueueGrows DEF Rest
  <2> QED BY <2>1, <2>2
<1> QED BY <1>1, <1>2, UntouchedKeeps, CacheStays DEF Rest, Untouched

(* The statement of the task is run and the queue goes on without it.       *)
LEMMA ServedStep ==
  ASSUME Rest, NEW t \in Tasks, NEW r, Begin(t, r), TaskOK(chan, r),
         Untouched, cache' = cache, Served(t), queue' = Tail(queue),
         task[t].pc # "commit"
  PROVE  Rest'
<1>1. /\ task'[t] = r /\ \A u \in Tasks \ {t} : task'[u] = task[u]
      /\ TasksInv'
  BY TaskGoesOn DEF Rest, Untouched
<1>2. QueueInv' /\ SameCommits
  BY <1>1, QueueServes DEF Rest
<1> QED BY <1>1, <1>2, UntouchedKeeps, CacheStays DEF Rest, Untouched

-----------------------------------------------------------------------------
(* A message is posted.                                                     *)
LEMMA PostKeeps ==
  ASSUME ChanOK, StoreOK, CacheInv, \A t \in Tasks : TaskOK(chan, task[t]),
         NEW p \in Posts, Len(chan) < MaxPosts, chan' = Append(chan, p),
         kind' = kind, cache' = cache,
         UNCHANGED <<enabled, table, disk, effort, faithful, restarts>>,
         toggles' \subseteq toggles \cup {i \in {Len(chan) + 1} : p = "reply"}
  PROVE  ChanOK' /\ StoreOK' /\ CacheInv' /\ \A t \in Tasks : TaskOK(chan', task[t])
<1>1. chan \in Seq(Posts) /\ Len(chan) \in Nat /\ DOMAIN chan = 1..Len(chan)
  BY DEF ChanOK
<1>2. /\ chan' \in Seq(Posts) /\ Len(chan') = Len(chan) + 1
      /\ DOMAIN chan \subseteq DOMAIN chan' /\ Ids(chan) \subseteq Ids(chan')
      /\ Len(chan') \in DOMAIN chan'
      /\ \A id \in DOMAIN chan : chan'[id] = chan[id]
      /\ Seq(Ids(chan)) \subseteq Seq(Ids(chan'))
      /\ \A b \in Ids(chan) : \A ids : Bounds(chan, ids, b) => Bounds(chan', ids, b)
  BY <1>1, ChannelGrows
<1>3. chan'[Len(chan) + 1] = p
  BY <1>1
<1>4. ChanOK'
  BY <1>1, <1>2, MemoryAssumption DEF ChanOK, MemoryAssumption
<1>5. StoreOK'
  <2>1. DbOK(chan', table) /\ DbOK(chan', disk)
    BY <1>2 DEF StoreOK, DbOK
  <2>2. toggles' \subseteq {id \in DOMAIN chan' : chan'[id] = "reply"}
    BY <1>2, <1>3 DEF StoreOK
  <2> QED BY <2>1, <2>2 DEF StoreOK
<1>6. CacheInv'
  BY <1>2 DEF CacheInv
<1>7. \A t \in Tasks : TaskOK(chan', task[t])
  BY <1>1, TaskGrows
<1> QED BY <1>4, <1>5, <1>6, <1>7

LEMMA HumanKeeps ==
  ASSUME Rest, \/ \E p \in Posts : HumanPosts(p)
               \/ Clear
  PROVE  Rest'
<1>1. PICK p \in Posts : Len(chan) < MaxPosts /\ chan' = Append(chan, p)
  BY DEF HumanPosts, Clear, Posts
<1>2. UNCHANGED <<kind, toggles, enabled, table, disk, effort, faithful, queue,
                  cache, task, restarts>>
  BY DEF HumanPosts, Clear, store
<1>3. ChanOK' /\ StoreOK' /\ CacheInv' /\ \A t \in Tasks : TaskOK(chan', task[t])
  BY <1>1, <1>2, PostKeeps DEF Rest, TasksInv
<1>4. TasksInv'
  BY <1>2, <1>3 DEF Rest, TasksInv
<1>5. QueueInv' /\ SameCommits
  BY <1>2, QueueStays DEF Rest
<1>6. LastCommitCounts'
  BY <1>2, <1>5, CommitsCount DEF Rest
<1> QED BY <1>3, <1>4, <1>5, <1>6 DEF Rest

LEMMA ExpireKeeps ==
  ASSUME Rest, NEW b \in DOMAIN cache, Expire(b)
  PROVE  Rest'
<1>1. /\ UNCHANGED <<kind, chan, toggles, enabled, table, disk, effort, faithful,
                     queue, task, restarts>>
      /\ cache' = [c \in DOMAIN cache \ {b} |-> cache[c]]
  BY DEF Expire, discord, store
<1>2. CacheInv'
  BY <1>1 DEF Rest, CacheInv
<1>3. QueueInv' /\ SameCommits
  BY <1>1, QueueStays DEF Rest
<1>4. TasksInv'
  BY <1>1 DEF Rest, TasksInv
<1> QED BY <1>1, <1>2, <1>3, <1>4, UntouchedKeeps DEF Rest, Untouched

-----------------------------------------------------------------------------
LEMMA MentionRest ==
  ASSUME Rest, LeadersFetch, NEW t \in Tasks, Mention(t)
  PROVE  Rest'
<1>1. PICK b \in Ids(chan) :
        MentionHit(t, b) \/ MentionFollows(t, b) \/ MentionLeads(t, b)
  BY DEF Mention
<1>2. task[t].pc = "idle" /\ task[t].pc \notin Waiting
  BY <1>1 DEF MentionHit, MentionFollows, MentionLeads, Waiting
<1>3. CASE MentionHit(t, b)
  <2> DEFINE m == [Idle EXCEPT !.op = "mention", !.at = b]
             r == WithRecords(m, cache[b])
  <2>1. m.op = "mention" /\ m.at = b
    BY DEF Idle
  <2>2. /\ cache[b] \in Seq(Ids(chan)) /\ Bounds(chan, cache[b], b)
        /\ chan \in Seq(Posts)
    BY <1>3 DEF MentionHit, Rest, CacheInv, ChanOK
  <2>3. /\ Begin(t, r) /\ Untouched /\ cache' = cache
        /\ queue' = IF r.pc = "join" THEN Append(queue, t) ELSE queue
    BY <1>3 DEF MentionHit, Untouched, discord
  <2> HIDE DEF m
  <2>4. TaskOK(chan, r)
    BY <2>1, <2>2, WithRecordsOK
  <2> HIDE DEF r
  <2> QED BY <1>2, <2>3, <2>4, OwnStep DEF Waiting
<1>4. CASE MentionLeads(t, b)
  <2> DEFINE r == [Idle EXCEPT !.op = "mention", !.at = b, !.pc = "history"]
  <2>1. r \in RecordsOf(chan) /\ r.op = "mention" /\ r.pc = "history"
    BY <1>1, EmptyHistory DEF Idle, RecordsOf, Shown, Pcs, Fetching
  <2>2. Begin(t, r) /\ Untouched /\ cache' = cache /\ queue' = queue
    BY <1>4 DEF MentionLeads, Untouched, discord, store
  <2> HIDE DEF r
  <2>3. TaskOK(chan, r)
    BY <2>1 DEF TaskOK, Recorded
  <2> QED BY <1>2, <2>2, <2>3, OwnStep
<1>5. CASE MentionFollows(t, b)
  <2>1. PICK l \in Leaders(b) :
          Begin(t, [Idle EXCEPT !.op = "mention", !.at = b, !.lead = l,
                      !.pc = IF task[l].broken THEN "unawaited" ELSE "follow"])
    BY <1>5 DEF MentionFollows
  <2> DEFINE pc == IF task[l].broken THEN "unawaited" ELSE "follow"
             r == [Idle EXCEPT !.op = "mention", !.at = b, !.lead = l, !.pc = pc]
  <2>2. l \in Tasks /\ pc \in {"unawaited", "follow"}
    BY DEF Leaders
  <2>3. Begin(t, r) /\ Untouched /\ cache' = cache /\ queue' = queue
    BY <1>5, <2>1 DEF MentionFollows, Untouched, discord, store
  <2> HIDE DEF pc
  <2>4. r \in RecordsOf(chan) /\ r.op = "mention" /\ r.pc = pc
    BY <1>1, <2>2, EmptyHistory DEF Idle, RecordsOf, Shown, Pcs, Ended
  <2> HIDE DEF r
  <2>5. TaskOK(chan, r)
    BY <2>2, <2>4 DEF TaskOK, Recorded, Fetching
  <2> QED BY <1>2, <2>3, <2>5, OwnStep
<1> QED BY <1>1, <1>3, <1>4, <1>5

-----------------------------------------------------------------------------
(* The leader's join and then those of its followers get in line.           *)
LEMMA HandOverQueue ==
  ASSUME Rest, LeadersFetch, NEW t \in Tasks, task[t].pc \in Fetching,
         NEW ids \in Seq(Ids(chan)), Bounds(chan, ids, task[t].at), chan' = chan,
         HandOver(t, ids)
  PROVE  TasksInv' /\ QueueInv' /\ SameCommits
<1> DEFINE moved == {t} \cup Followers(t)
           next == [u \in Tasks |-> WithRecords(task[u], ids)]
<1>1. moved \in SUBSET Tasks
  BY DEF Followers
<1>2. task' = [u \in Tasks |-> IF u \in moved THEN next[u] ELSE task[u]]
  BY <1>1 DEF HandOver
<1>3. \A u \in moved : /\ task[u].pc \in Fetching \cup {"follow"}
                       /\ task[u].op = "mention" /\ task[u].at = task[t].at
  BY <1>1 DEF Followers, LeadersFetch, Rest, TasksInv, TaskOK
<1>4. task[t].at \in Ids(chan) /\ chan \in Seq(Posts)
  BY DEF Rest, TasksInv, TaskOK, RecordsOf, ChanOK
<1>5. \A u \in moved : TaskOK(chan, next[u])
  BY <1>1, <1>3, <1>4, WithRecordsOK
<1>6. TasksInv'
  <2> HIDE DEF moved, next
  <2> QED BY <1>1, <1>2, <1>5, TasksGoOn DEF Rest
<1>7. \A u \in Tasks : task[u].pc \in Waiting => u \notin moved /\ task'[u] = task[u]
  BY <1>2, <1>3 DEF Waiting, Fetching
<1>8. CASE ~Joins(ids)
  <2>1. queue' = queue
    BY <1>8 DEF HandOver
  <2> QED BY <1>6, <1>7, <2>1, QueueStays DEF Rest
<1>9. CASE Joins(ids)
  <2>1. PICK others \in SetToSeqs(Followers(t)) : queue' = queue \o <<t>> \o others
    BY <1>9 DEF HandOver
  <2>2. Line(Tasks, others) /\ \A i \in DOMAIN others : others[i] \in Followers(t)
    BY MemoryAssumption, LineOfSet DEF MemoryAssumption, Followers
  <2>3. /\ Line(Tasks, queue)
        /\ \A i \in DOMAIN queue : /\ queue[i] \in Tasks /\ queue[i] \notin moved
                                   /\ task'[queue[i]] = task[queue[i]]
    BY <1>7 DEF Rest, QueueInv, QueueWaits, Line, Waiting
  <2>4. queue \o <<t>> = Append(queue, t)
    BY <2>3 DEF Line
  <2> DEFINE q == Append(queue, t)
             n == Len(queue)
  <2>5. /\ Line(Tasks, q) /\ DOMAIN q = 1..(n + 1)
        /\ \A i \in DOMAIN queue : i \in 1..n /\ q[i] = queue[i]
        /\ q[n + 1] = t
    BY <2>3, LineAppend
  <2>6. n \in Nat /\ DOMAIN queue = 1..n
    BY <2>3 DEF Line
  <2> HIDE DEF q, n
  <2>7. \A i \in DOMAIN q : i \in DOMAIN queue \/ q[i] = t
    BY <2>5, <2>6
  <2>8. t \notin Followers(t)
    BY DEF Followers, Fetching
  <2>9. \A i \in DOMAIN q : \A j \in DOMAIN others : q[i] # others[j]
    BY <2>2, <2>3, <2>5, <2>7, <2>8
  <2>10. /\ Line(Tasks, queue')
         /\ \A i \in DOMAIN q : i \in DOMAIN queue' /\ queue'[i] = q[i]
         /\ \A i \in DOMAIN queue' :
              i \in DOMAIN q \/ \E j \in DOMAIN others : queue'[i] = others[j]
    <3>1. queue' = q \o others
      BY <2>1, <2>4 DEF q
    <3>2. /\ Line(Tasks, q \o others)
          /\ \A i \in DOMAIN q : i \in DOMAIN (q \o others) /\ (q \o others)[i] = q[i]
          /\ \A i \in DOMAIN (q \o others) :
               i \in DOMAIN q \/ \E j \in DOMAIN others : (q \o others)[i] = others[j]
      BY <2>2, <2>5, <2>9, LineConcat
    <3> QED BY <3>1, <3>2, Zenon
  <2>11. \A i \in DOMAIN queue : i \in DOMAIN queue' /\ queue'[i] = queue[i]
    BY <2>5, <2>6, <2>10
  <2>12. \A i \in DOMAIN queue' : i \in DOMAIN queue \/ queue'[i] \in moved
    BY <2>2, <2>7, <2>10
  <2>13. \A u \in moved : task'[u].pc = "join"
    <3>1. \A u \in moved : next[u].pc = "join"
      BY <1>1, <1>9 DEF WithRecords, Idle
    <3> HIDE DEF moved, next
    <3> QED BY <1>1, <1>2, <3>1
  <2> HIDE DEF moved, next
  <2>14. QueueInv'
    <3>1. \A i \in DOMAIN queue : task[queue[i]].pc \in Waiting
      BY DEF Rest, QueueInv, QueueWaits, Waiting
    <3>2. \A i \in DOMAIN queue' : task'[queue'[i]].pc \in Waiting
      BY <2>3, <2>11, <2>12, <2>13, <3>1 DEF Waiting
    <3> QED BY <2>10, <3>2 DEF QueueInv, QueueWaits, Waiting
  <2>15. ToCommit' = ToCommit
    <3>1. ASSUME NEW i \in ToCommit' PROVE i \in ToCommit
      BY <2>3, <2>11, <2>12, <2>13 DEF ToCommit
    <3>2. ASSUME NEW i \in ToCommit PROVE i \in ToCommit'
      BY <2>3, <2>11 DEF ToCommit
    <3> QED BY <3>1, <3>2
  <2> DEFINE g == [i \in ToCommit |-> i]
  <2>16. /\ \A j \in ToCommit' :
              g[j] \in ToCommit /\ task'[queue'[j]].tier = task[queue[g[j]]].tier
         /\ \A i, j \in ToCommit' : i <= j => g[i] <= g[j]
         /\ \A i \in ToCommit : \E j \in ToCommit' : g[j] = i
    BY <2>3, <2>11, <2>15 DEF ToCommit
  <2> QED BY <1>6, <2>14, <2>16 DEF SameCommits
<1> QED BY <1>8, <1>9

LEMMA FetchEndsRest ==
  ASSUME Rest, LeadersFetch, NEW t \in Tasks, task[t].pc \in Fetching,
         NEW ids \in Seq(Ids(chan)), Bounds(chan, ids, task[t].at),
         NEW kept \in BOOLEAN, FetchEnds(t, ids, kept)
  PROVE  Rest'
<1>1. Untouched /\ HandOver(t, ids)
  BY DEF FetchEnds, Untouched, discord
<1>2. TasksInv' /\ QueueInv' /\ SameCommits
  BY <1>1, HandOverQueue DEF Untouched
<1>3. task[t].at \in Ids(chan)
  BY DEF Rest, TasksInv, TaskOK, RecordsOf
<1>4. CacheInv'
  <2>1. CASE cache' = cache
    BY <1>1, <2>1, CacheStays DEF Rest, Untouched
  <2>2. CASE cache' = Put(cache, task[t].at, ids)
    <3> DEFINE b == task[t].at
    <3>1. /\ DOMAIN cache' = {b} \cup DOMAIN cache
          /\ \A c \in DOMAIN cache' : cache'[c] = IF c = b THEN ids ELSE cache[c]
      BY <2>2 DEF Put
    <3> QED BY <1>1, <1>3, <3>1 DEF Rest, CacheInv, Untouched
  <2> QED BY <2>1, <2>2 DEF FetchEnds
<1> QED BY <1>1, <1>2, <1>4, UntouchedKeeps DEF Rest

LEMMA FetchRest ==
  ASSUME Rest, LeadersFetch, NEW t \in Tasks, Fetch(t)
  PROVE  Rest'
<1>1. /\ task[t].pc \in Fetching /\ TaskOK(chan, task[t]) /\ task[t].at \in Ids(chan)
      /\ chan \in Seq(Posts) /\ kind \in ChannelKinds
  BY DEF Fetch, HistoryRead, HistoryFails, StarterRead, StarterFails, Fetching,
     Rest, TasksInv, TaskOK, RecordsOf, ChanOK
<1> DEFINE b == task[t].at
           w == Window(chan, b)
<1>2. \A found \in {{}, StartersOf(kind)} :
        /\ Records(chan, w, found, b) \in Seq(Ids(chan))
        /\ Bounds(chan, Records(chan, w, found, b), b)
  BY <1>1, RecordsBound DEF Bounds
<1>3. CASE HistoryRead(t) /\ kind = "channel"
  <2>1. FetchEnds(t, Records(chan, w, {}, b), TRUE)
    BY <1>3 DEF HistoryRead
  <2> HIDE DEF b, w
  <2>2. Rest /\ {} \in {{}, StartersOf(kind)} /\ TRUE \in BOOLEAN
    OBVIOUS
  <2> QED BY <1>1, <1>2, <2>1, <2>2, FetchEndsRest DEF b
<1>4. CASE HistoryRead(t) /\ kind # "channel"
  <2> DEFINE r == [task[t] EXCEPT !.pc = "starter", !.ids = w]
  <2>1. Begin(t, r) /\ Untouched /\ cache' = cache /\ queue' = queue
    BY <1>4 DEF HistoryRead, Untouched, discord, store
  <2>2. w \in Seq(Ids(chan))
    BY <1>1, WindowIs
  <2> HIDE DEF w
  <2>3. task[t] \in RecordsOf(chan) /\ task[t].op = "mention"
    BY <1>1 DEF TaskOK
  <2>4. /\ r \in RecordsOf(chan) /\ r.op = "mention" /\ r.pc = "starter"
        /\ r.ids = w /\ r.at = b
    BY <2>2, <2>3 DEF RecordsOf, Pcs, Fetching
  <2> HIDE DEF r
  <2>5. TaskOK(chan, r)
    BY <2>4 DEF TaskOK, Recorded, w
  <2>6. task[t].pc \notin Waiting
    BY <1>1 DEF Waiting, Fetching
  <2> QED BY <2>1, <2>5, <2>6, OwnStep
<1>5. CASE StarterRead(t)
  <2>1. task[t].ids = w
    BY <1>1, <1>5 DEF StarterRead, TaskOK
  <2>2. PICK found \in {{}, StartersOf(kind)} :
          FetchEnds(t, Records(chan, w, found, b), TRUE)
    BY <1>5, <2>1 DEF StarterRead
  <2> HIDE DEF b, w
  <2>3. Rest /\ TRUE \in BOOLEAN
    OBVIOUS
  <2> QED BY <1>1, <1>2, <2>2, <2>3, FetchEndsRest DEF b
<1>6. CASE HistoryFails(t) \/ StarterFails(t)
  <2>1. PICK kept \in BOOLEAN : FetchEnds(t, <<>>, kept)
    BY <1>6 DEF HistoryFails, StarterFails
  <2> QED BY <1>1, <2>1, EmptyHistory, FetchEndsRest
<1> QED BY <1>3, <1>4, <1>5, <1>6 DEF Fetch

-----------------------------------------------------------------------------
LEMMA CancelRest ==
  ASSUME Rest, LeadersFetch, NEW t \in Tasks, Cancel(t)
  PROVE  Rest'
<1>1. CASE CancelLeader(t)
  <2> DEFINE moved == {t} \cup Followers(t)
             next == [u \in Tasks |-> IF u = t THEN Over(task[u], "cancelled")
                                      ELSE WithRecords(task[u], <<>>)]
  <2>1. Untouched /\ cache' = cache /\ queue' = queue /\ moved \in SUBSET Tasks
    BY <1>1 DEF CancelLeader, Untouched, discord, store, Followers
  <2>2. task' = [u \in Tasks |-> IF u \in moved THEN next[u] ELSE task[u]]
    BY <1>1, <2>1 DEF CancelLeader, ServedOnCancel
  <2>3. \A u \in moved : TaskOK(chan, next[u])
    <3>1. TaskOK(chan, Over(task[t], "cancelled"))
      BY OverOK DEF Ended, Rest, TasksInv
    <3>2. ASSUME NEW u \in Followers(t)
          PROVE  TaskOK(chan, WithRecords(task[u], <<>>))
      <4>1. u \in Tasks /\ task[u].op = "mention" /\ task[u].at \in Ids(chan)
        BY DEF Followers, Rest, TasksInv, TaskOK, RecordsOf
      <4> QED BY <4>1, EmptyHistory, WithRecordsOK DEF Rest, ChanOK
    <3> QED BY <2>1, <3>1, <3>2
  <2>4. \A u \in moved : task[u].pc \in Fetching \cup {"follow"}
    BY <1>1 DEF CancelLeader, Followers
  <2> HIDE DEF moved, next
  <2>5. TasksInv'
    BY <2>1, <2>2, <2>3, TasksGoOn DEF Rest, Untouched
  <2>6. \A u \in Tasks : task[u].pc \in Waiting => task'[u] = task[u]
    BY <2>2, <2>4 DEF Waiting, Fetching
  <2>7. QueueInv' /\ SameCommits
    BY <2>1, <2>6, QueueStays DEF Rest
  <2> QED BY <2>1, <2>5, <2>7, UntouchedKeeps, CacheStays DEF Rest, Untouched
<1>2. CASE CancelFollower(t)
  <2> DEFINE l == task[t].lead
             moved == {t, l} \cup Followers(l)
             next == [u \in Tasks |->
                        IF u = t THEN Over(task[u], "cancelled")
                        ELSE IF u = l THEN [task[u] EXCEPT !.broken = TRUE]
                        ELSE Over(task[u], "unawaited")]
  <2>1. /\ l \in Tasks /\ task[l].pc \in Fetching /\ task[t].pc = "follow"
        /\ t \in Followers(l)
    BY <1>2 DEF CancelFollower, Followers, LeadersFetch
  <2> HIDE DEF l
  <2>2. Untouched /\ cache' = cache /\ queue' = queue /\ moved \in SUBSET Tasks
    BY <1>2, <2>1 DEF CancelFollower, Untouched, discord, store, Followers
  <2>3. task' = [u \in Tasks |-> IF u \in moved THEN next[u] ELSE task[u]]
    BY <1>2, <2>2 DEF CancelFollower, l
  <2>4. \A u \in moved : TaskOK(chan, next[u])
    <3>1. \A u \in Tasks : /\ TaskOK(chan, Over(task[u], "cancelled"))
                           /\ TaskOK(chan, Over(task[u], "unawaited"))
      BY OverOK DEF Ended, Rest, TasksInv
    <3>2. TaskOK(chan, [task[l] EXCEPT !.broken = TRUE])
      <4> DEFINE r == task[l]
                 s == [r EXCEPT !.broken = TRUE]
      <4>1. TaskOK(chan, r) /\ r \in RecordsOf(chan)
        BY <2>1 DEF Rest, TasksInv, TaskOK
      <4> HIDE DEF r
      <4>2. /\ s \in RecordsOf(chan) /\ s.op = r.op /\ s.pc = r.pc
            /\ s.at = r.at /\ s.ids = r.ids /\ s.out = r.out
        BY <4>1 DEF RecordsOf
      <4> HIDE DEF s
      <4>3. TaskOK(chan, s)
        BY <4>1, <4>2 DEF TaskOK, Recorded
      <4> QED BY <4>3 DEF r, s
    <3> QED BY <2>2, <3>1, <3>2
  <2>5. \A u \in moved : task[u].pc \in Fetching \cup {"follow"}
    BY <2>1 DEF Followers
  <2> HIDE DEF moved, next
  <2>6. TasksInv'
    BY <2>2, <2>3, <2>4, TasksGoOn DEF Rest, Untouched
  <2>7. \A u \in Tasks : task[u].pc \in Waiting => task'[u] = task[u]
    BY <2>3, <2>5 DEF Waiting, Fetching
  <2>8. QueueInv' /\ SameCommits
    BY <2>2, <2>7, QueueStays DEF Rest
  <2> QED BY <2>2, <2>6, <2>8, UntouchedKeeps, CacheStays DEF Rest, Untouched
<1>3. CASE CancelJoin(t)
  <2>1. PICK k \in DOMAIN queue : queue[k] = t /\ queue' = RemoveAt(queue, k)
    BY <1>3 DEF CancelJoin
  <2>2. /\ task[t].pc = "join" /\ Begin(t, Over(task[t], "cancelled"))
        /\ Untouched /\ cache' = cache
    BY <1>3 DEF CancelJoin, Untouched, discord
  <2>3. TaskOK(chan, Over(task[t], "cancelled"))
    BY OverOK DEF Ended, Rest, TasksInv
  <2>4. TasksInv' /\ \A u \in Tasks \ {t} : task'[u] = task[u]
    BY <2>2, <2>3, TaskGoesOn DEF Rest, Untouched
  <2>5. QueueInv' /\ SameCommits
    BY <2>1, <2>2, <2>4, QueueLoses DEF Rest
  <2> QED BY <2>2, <2>4, <2>5, UntouchedKeeps, CacheStays DEF Rest, Untouched
<1> QED BY <1>1, <1>2, <1>3 DEF Cancel

-----------------------------------------------------------------------------
LEMMA ReplyRest ==
  ASSUME Rest, NEW t \in Tasks, Reply(t)
  PROVE  Rest'
<1> DEFINE r == [Idle EXCEPT !.op = "reply", !.at = Len(chan'),
                   !.pc = IF enabled THEN "execute" ELSE "done"]
<1>1. /\ task[t].pc = "idle" /\ Len(chan) < MaxPosts /\ Begin(t, r)
      /\ chan' = Append(chan, "reply") /\ "reply" \in Posts
      /\ queue' = IF enabled THEN Append(queue, t) ELSE queue
      /\ UNCHANGED <<kind, enabled, table, disk, effort, faithful, cache, restarts>>
  BY DEF Reply, Posts
<1>2. chan \in Seq(Posts) /\ Len(chan') = Len(chan) + 1
  BY <1>1 DEF Rest, ChanOK
<1>3. toggles' \subseteq toggles \cup {i \in {Len(chan) + 1} : "reply" = "reply"}
  BY <1>2 DEF Reply
<1>4. ChanOK' /\ StoreOK' /\ CacheInv' /\ \A u \in Tasks : TaskOK(chan', task[u])
  BY <1>1, <1>3, PostKeeps DEF Rest, TasksInv
<1>5. TaskOK(chan', r)
  <2>1. Len(chan') \in DOMAIN chan'
    BY <1>1, <1>2, ChannelGrows
  <2> DEFINE pc == IF enabled THEN "execute" ELSE "done"
             at == Len(chan')
             c == chan'
  <2>2. pc \in {"execute", "done"} /\ at \in DOMAIN c
    BY <2>1
  <2>3. r = [Idle EXCEPT !.op = "reply", !.at = at, !.pc = pc]
    OBVIOUS
  <2> HIDE DEF pc, at, c, r
  <2>4. at \in Ids(c)
    BY <2>2 DEF Ids
  <2>5. /\ r \in RecordsOf(c) /\ r.op = "reply" /\ r.pc = pc
        /\ r.at \in DOMAIN c
    BY <2>2, <2>3, <2>4, EmptyHistory DEF Idle, RecordsOf, Shown, Pcs, Ended
  <2>6. TaskOK(c, r)
    BY <2>2, <2>5 DEF TaskOK, Recorded, Fetching
  <2> QED BY <2>6 DEF c
<1>6. enabled => r.pc = "execute"
  BY DEF Idle
<1> HIDE DEF r
<1>7. /\ task' = [u \in Tasks |-> task'[u]] /\ task'[t] = r
      /\ \A u \in Tasks \ {t} : task'[u] = task[u]
  BY <1>1, TaskGoesOn DEF Rest
<1>8. TasksInv'
  BY <1>4, <1>5, <1>7 DEF TasksInv
<1>9. QueueInv' /\ SameCommits
  <2>1. CASE enabled
    BY <1>1, <1>6, <1>7, <2>1, QueueGrows DEF Rest, Waiting
  <2>2. CASE ~enabled
    BY <1>1, <1>7, <2>2, QueueStays DEF Rest, Waiting
  <2> QED BY <2>1, <2>2
<1>10. LastCommitCounts'
  BY <1>1, <1>9, CommitsCount DEF Rest
<1> QED BY <1>4, <1>8, <1>9, <1>10 DEF Rest

(* Without a store the map is changed at once, and nothing is promised.     *)
LEMMA EffortRest ==
  ASSUME Rest, NEW t \in Tasks, NEW tier \in Tiers \cup {NoTier}, Effort(t, tier)
  PROVE  Rest'
<1> DEFINE pc == IF enabled THEN "execute" ELSE "done"
           r == [Idle EXCEPT !.op = "effort", !.tier = tier, !.pc = pc]
<1>1. /\ task[t].pc = "idle" /\ Begin(t, r)
      /\ queue' = IF enabled THEN Append(queue, t) ELSE queue
      /\ UNCHANGED <<discord, enabled, table, disk, faithful, cache, restarts>>
      /\ effort' = IF enabled THEN effort ELSE tier
  BY DEF Effort, EffortOnCommand
<1>2. pc \in {"execute", "done"} /\ (enabled => pc = "execute")
  OBVIOUS
<1> HIDE DEF pc
<1>3. r \in RecordsOf(chan) /\ r.op = "effort" /\ r.pc = pc
  BY <1>2, EmptyHistory DEF Idle, RecordsOf, Shown, Pcs, Ended, Ids, Starter
<1> HIDE DEF r
<1>4. TaskOK(chan, r)
  BY <1>2, <1>3 DEF TaskOK, Recorded, Fetching
<1>5. CASE enabled
  <2>1. Untouched /\ cache' = cache /\ queue' = Append(queue, t)
    BY <1>1, <1>5 DEF Untouched, discord
  <2> QED BY <1>1, <1>2, <1>3, <1>4, <1>5, <2>1, OwnStep DEF Waiting
<1>6. CASE ~enabled
  <2>1. ChanOK' /\ StoreOK' /\ CacheInv'
    BY <1>1, <1>6 DEF Rest, ChanOK, StoreOK, DbOK, CacheInv, discord
  <2>2. TasksInv' /\ \A u \in Tasks \ {t} : task'[u] = task[u]
    BY <1>1, <1>4, TaskGoesOn DEF Rest, discord
  <2>3. QueueInv'
    BY <1>1, <1>6, <2>2, QueueStays DEF Rest, Waiting
  <2>4. LastCommitCounts'
    BY <1>1, <1>6 DEF LastCommitCounts
  <2> QED BY <2>1, <2>2, <2>3, <2>4 DEF Rest
<1> QED BY <1>5, <1>6

-----------------------------------------------------------------------------
(* A row is put under the id of a reply, or the override changes.           *)
LEMMA ChangedOK ==
  ASSUME Rest, NEW t \in Tasks, task[t].pc = "execute"
  PROVE  /\ DbOK(chan, Changed(t))
         /\ task[t].op = "reply" => Changed(t).tier = table.tier
         /\ task[t].op # "reply" => Changed(t).tier = task[t].tier
<1>1. /\ DbOK(chan, table) /\ TaskOK(chan, task[t])
      /\ task[t].tier \in Tiers \cup {NoTier}
  BY DEF Rest, StoreOK, TasksInv, TaskOK, RecordsOf
<1>2. CASE task[t].op = "reply"
  <2> DEFINE id == task[t].at
             rows == Put(table.rows, id, "good")
  <2>1. id \in DOMAIN chan
    BY <1>1, <1>2 DEF TaskOK
  <2>2. /\ DOMAIN rows = DOMAIN table.rows \cup {id}
        /\ \A i \in DOMAIN rows : rows[i] = IF i = id THEN "good" ELSE table.rows[i]
    BY DEF Put
  <2>3. Changed(t) = [table EXCEPT !.rows = rows]
    BY <1>2 DEF Changed
  <2> HIDE DEF rows
  <2>4. /\ DOMAIN Changed(t) = {"rows", "tier"} /\ Changed(t).rows = rows
        /\ Changed(t).tier = table.tier
    BY <1>1, <2>3 DEF DbOK
  <2> QED BY <1>1, <1>2, <2>1, <2>2, <2>4 DEF DbOK, RowStates
<1>3. CASE task[t].op # "reply"
  <2>1. Changed(t) = [table EXCEPT !.tier = task[t].tier]
    BY <1>3 DEF Changed
  <2>2. /\ DOMAIN Changed(t) = {"rows", "tier"} /\ Changed(t).rows = table.rows
        /\ Changed(t).tier = task[t].tier
    BY <1>1, <2>1 DEF DbOK
  <2> QED BY <1>1, <1>3, <2>2 DEF DbOK
<1> QED BY <1>2, <1>3

(* The statement is run; the commit gets in line last.                      *)
LEMMA ExecuteRest ==
  ASSUME Rest, NEW t \in Tasks, Execute(t)
  PROVE  Rest'
<1> DEFINE r == [task[t] EXCEPT !.pc = "commit"]
           n == Len(queue)
<1>1. /\ Served(t) /\ task[t].pc = "execute" /\ Begin(t, r)
      /\ table' = Changed(t) /\ queue' = Append(Tail(queue), t)
      /\ UNCHANGED <<kind, chan, toggles, enabled, disk, effort, faithful, cache,
                     restarts>>
  BY DEF Execute, discord
<1>2. TaskOK(chan, task[t]) /\ task[t] \in RecordsOf(chan)
  BY DEF Rest, TasksInv, TaskOK
<1>3. /\ r \in RecordsOf(chan) /\ r.op = task[t].op /\ r.pc = "commit"
      /\ r.at = task[t].at /\ r.tier = task[t].tier
  BY <1>2 DEF RecordsOf, Pcs
<1> HIDE DEF r
<1>4. r.op \in {"reply", "effort"} /\ TaskOK(chan, r)
  BY <1>1, <1>2, <1>3 DEF TaskOK, Recorded, Fetching
<1>5. /\ TasksInv' /\ task'[t] = r /\ \A u \in Tasks \ {t} : task'[u] = task[u]
  BY <1>1, <1>4, TaskGoesOn DEF Rest
<1>6. /\ DbOK(chan, table')
      /\ task[t].op = "reply" => table'.tier = table.tier
      /\ task[t].op # "reply" => table'.tier = task[t].tier
  BY <1>1, ChangedOK
<1>7. ChanOK' /\ StoreOK' /\ CacheInv'
  BY <1>1, <1>6 DEF Rest, ChanOK, StoreOK, DbOK, CacheInv
<1> DEFINE tail == Tail(queue)
<1>8. /\ Line(Tasks, tail) /\ n \in Nat /\ DOMAIN queue = 1..n
      /\ t = queue[1] /\ 1 \in DOMAIN queue
      /\ Len(tail) = n - 1 /\ DOMAIN tail = 1..(n - 1)
      /\ \A i \in DOMAIN tail : /\ i + 1 \in DOMAIN queue
                                /\ tail[i] = queue[i + 1]
                                /\ tail[i] # t
      /\ \A i \in DOMAIN queue : i # 1 => i - 1 \in DOMAIN tail
  <2>1. Line(Tasks, queue) /\ queue # <<>> /\ t = Head(queue)
    BY <1>1 DEF Rest, QueueInv, Served
  <2>2. /\ Line(Tasks, tail) /\ n \in Nat /\ DOMAIN queue = 1..n
        /\ Head(queue) = queue[1] /\ 1 \in DOMAIN queue
        /\ Len(tail) = n - 1 /\ DOMAIN tail = 1..(n - 1)
        /\ \A i \in DOMAIN tail : /\ i + 1 \in DOMAIN queue
                                  /\ tail[i] = queue[i + 1]
                                  /\ tail[i] # Head(queue)
        /\ \A i \in DOMAIN queue : i # 1 => i - 1 \in DOMAIN tail
    BY <2>1, LineTail, Zenon
  <2> HIDE DEF n, tail
  <2> QED BY <2>1, <2>2
<1> HIDE DEF n, tail
<1>9. /\ Line(Tasks, queue') /\ DOMAIN queue' = 1..n
      /\ \A i \in DOMAIN tail : i \in DOMAIN queue' /\ queue'[i] = tail[i]
      /\ queue'[n] = t /\ n \in DOMAIN queue'
  <2>1. n \in 1..n /\ (n - 1) + 1 = n /\ 1..(n - 1) \subseteq 1..n
    BY <1>8
  <2>2. /\ Line(Tasks, Append(tail, t)) /\ DOMAIN Append(tail, t) = 1..(Len(tail) + 1)
        /\ \A i \in DOMAIN tail : i \in 1..Len(tail) /\ Append(tail, t)[i] = tail[i]
        /\ Append(tail, t)[Len(tail) + 1] = t
    BY <1>8, LineAppend
  <2>3. queue' = Append(tail, t)
    BY <1>1 DEF tail
  <2> QED BY <1>8, <2>1, <2>2, <2>3
<1>10. \A i \in DOMAIN queue' : i # n => /\ i \in DOMAIN tail /\ i + 1 \in DOMAIN queue
                                         /\ queue'[i] = queue[i + 1]
                                         /\ queue'[i] # t
                                         /\ task'[queue'[i]] = task[queue[i + 1]]
  <2>1. \A i \in DOMAIN queue' : i # n => i \in DOMAIN tail
    BY <1>8, <1>9
  <2>2. \A i \in DOMAIN tail : tail[i] \in Tasks
    BY <1>8 DEF Line
  <2> QED BY <1>5, <1>8, <1>9, <2>1, <2>2
<1>11. QueueInv'
  <2>1. \A i \in DOMAIN queue' : task'[queue'[i]].pc \in Waiting
    BY <1>3, <1>5, <1>9, <1>10 DEF Rest, QueueInv, QueueWaits, Waiting
  <2> QED BY <1>9, <2>1 DEF QueueInv, QueueWaits, Waiting
<1>12. LastCommitCounts'
  <2> SUFFICES ASSUME enabled, faithful
               PROVE  /\ \A i \in ToCommit' : (\A j \in ToCommit' : j <= i)
                           => task'[queue'[i]].tier = table'.tier
                      /\ ToCommit' = {} => effort = table'.tier /\ disk.tier = table'.tier
    BY <1>1 DEF LastCommitCounts
  <2>1. CASE task[t].op = "effort"
    <3>1. n \in ToCommit'
      BY <1>3, <1>5, <1>9, <2>1 DEF ToCommit
    <3>2. \A i \in ToCommit' : i \in 1..n
      BY <1>9 DEF ToCommit
    <3>3. \A i \in ToCommit' : (\A j \in ToCommit' : j <= i) => i = n
      BY <1>8, <3>1, <3>2
    <3> QED BY <1>3, <1>5, <1>6, <1>9, <2>1, <3>1, <3>3
  <2>2. CASE task[t].op # "effort"
    <3>1. task[t].op = "reply" /\ table'.tier = table.tier
      BY <1>3, <1>4, <1>6, <2>2
    <3>2. \A i \in ToCommit' : i # n /\ i + 1 \in ToCommit
      BY <1>3, <1>5, <1>9, <1>10, <2>2 DEF ToCommit
    <3>3. ASSUME NEW i \in ToCommit PROVE i # 1 /\ i - 1 \in ToCommit'
      <4>1. i # 1 /\ i - 1 \in DOMAIN tail /\ (i - 1) + 1 = i
        BY <1>1, <1>8, <3>3 DEF ToCommit
      <4>2. i - 1 # n
        BY <1>8, <4>1
      <4>3. i - 1 \in DOMAIN queue' /\ task'[queue'[i - 1]] = task[queue[i]]
        BY <1>9, <1>10, <4>1, <4>2
      <4> QED BY <4>1, <4>3 DEF ToCommit
    <3>4. ASSUME NEW i \in ToCommit', \A j \in ToCommit' : j <= i
          PROVE  task'[queue'[i]].tier = table.tier
      <4>1. i \in Int /\ ToCommit \subseteq Int
        BY <1>8, <1>9 DEF ToCommit
      <4>2. \A k \in ToCommit : k <= i + 1
        BY <3>3, <3>4, <4>1
      <4>3. i + 1 \in ToCommit /\ task'[queue'[i]] = task[queue[i + 1]]
        BY <1>10, <3>2 DEF ToCommit
      <4> QED BY <4>2, <4>3 DEF Rest, LastCommitCounts
    <3> QED BY <3>1, <3>3, <3>4 DEF Rest, LastCommitCounts
  <2> QED BY <2>1, <2>2
<1> QED BY <1>5, <1>7, <1>11, <1>12 DEF Rest

LEMMA CommitRest ==
  ASSUME Rest, NEW t \in Tasks, Commit(t)
  PROVE  Rest'
<1>1. /\ Served(t) /\ task[t].pc = "commit" /\ Begin(t, Over(task[t], "done"))
      /\ disk' = table /\ queue' = Tail(queue)
      /\ effort' = IF task[t].op = "effort" THEN task[t].tier ELSE effort
      /\ UNCHANGED <<kind, chan, toggles, enabled, table, faithful, cache, restarts>>
  BY DEF Commit, discord
<1>2. TaskOK(chan, task[t]) /\ task[t].tier \in Tiers \cup {NoTier}
  BY DEF Rest, TasksInv, TaskOK, RecordsOf
<1>3. TaskOK(chan, Over(task[t], "done"))
  BY <1>1, <1>2, OverOK DEF TaskOK, Ended
<1>4. TasksInv' /\ \A u \in Tasks \ {t} : task'[u] = task[u]
  BY <1>1, <1>3, TaskGoesOn DEF Rest
<1>5. /\ QueueInv'
      /\ \A j \in ToCommit' :
           j + 1 \in ToCommit /\ task'[queue'[j]].tier = task[queue[j + 1]].tier
      /\ \A i \in ToCommit : i # 1 => i - 1 \in ToCommit'
  BY <1>1, <1>4, QueueServes DEF Rest
<1>6. ChanOK' /\ StoreOK' /\ CacheInv'
  BY <1>1, <1>2 DEF Rest, ChanOK, StoreOK, DbOK, CacheInv
<1>7. /\ Line(Tasks, queue) /\ Len(queue) \in Nat /\ DOMAIN queue = 1..Len(queue)
      /\ t = queue[1] /\ 1 \in DOMAIN queue /\ DOMAIN queue' = 1..(Len(queue) - 1)
  BY <1>1, LineTail DEF Rest, QueueInv, Served
<1>8. ToCommit \subseteq Int /\ ToCommit' \subseteq Int /\ \A i \in ToCommit : 1 <= i
  BY <1>7 DEF ToCommit
<1>9. LastCommitCounts'
  <2> SUFFICES ASSUME enabled, faithful
               PROVE  /\ \A i \in ToCommit' : (\A j \in ToCommit' : j <= i)
                           => task'[queue'[i]].tier = table.tier
                      /\ ToCommit' = {} => effort' = table.tier
    BY <1>1 DEF LastCommitCounts
  <2>1. ASSUME NEW i \in ToCommit', \A j \in ToCommit' : j <= i
        PROVE  task'[queue'[i]].tier = table.tier
    <3>1. \A k \in ToCommit : k <= i + 1
      <4> SUFFICES ASSUME NEW k \in ToCommit, k # 1 PROVE k <= i + 1
        BY <1>5, <1>8
      <4>1. k - 1 <= i
        BY <1>5, <2>1
      <4> QED BY <1>8, <4>1
    <3> QED BY <1>5, <3>1 DEF Rest, LastCommitCounts
  <2>2. ASSUME ToCommit' = {} PROVE effort' = table.tier
    <3>1. \A i \in ToCommit : i = 1
      BY <1>5, <2>2
    <3>2. CASE task[t].op = "effort"
      <4>1. 1 \in ToCommit
        BY <1>1, <1>7, <3>2 DEF ToCommit
      <4>2. \A j \in ToCommit : j <= 1
        BY <3>1
      <4> QED BY <1>1, <1>7, <3>2, <4>1, <4>2 DEF Rest, LastCommitCounts
    <3>3. CASE task[t].op # "effort"
      <4>1. ToCommit = {}
        BY <1>7, <3>1, <3>3 DEF ToCommit
      <4> QED BY <1>1, <3>3, <4>1 DEF Rest, LastCommitCounts
    <3> QED BY <3>2, <3>3
  <2> QED BY <2>1, <2>2
<1> QED BY <1>4, <1>5, <1>6, <1>9 DEF Rest

LEMMA CommitFailsRest ==
  ASSUME Rest, NEW t \in Tasks, CommitFails(t)
  PROVE  Rest'
<1>1. /\ Served(t) /\ task[t].pc = "commit" /\ Begin(t, Over(task[t], "failed"))
      /\ table' \in {table, disk} /\ faithful' = FALSE /\ queue' = Tail(queue)
      /\ UNCHANGED <<kind, chan, toggles, enabled, disk, effort, cache, restarts>>
  BY DEF CommitFails, discord
<1>2. TaskOK(chan, Over(task[t], "failed"))
  BY OverOK DEF Rest, TasksInv, Ended
<1>3. TasksInv' /\ \A u \in Tasks \ {t} : task'[u] = task[u]
  BY <1>1, <1>2, TaskGoesOn DEF Rest
<1>4. QueueInv'
  BY <1>1, <1>3, QueueServes DEF Rest
<1>5. ChanOK' /\ StoreOK' /\ CacheInv'
  BY <1>1 DEF Rest, ChanOK, StoreOK, DbOK, CacheInv
<1>6. LastCommitCounts'
  BY <1>1 DEF LastCommitCounts
<1> QED BY <1>3, <1>4, <1>5, <1>6 DEF Rest

LEMMA JoinRest ==
  ASSUME Rest, NEW t \in Tasks, Join(t)
  PROVE  Rest'
<1> DEFINE h == ModelHistory(chan, task[t].ids, GoodRows(table))
           r == [task[t] EXCEPT !.pc = "done", !.out = h]
<1>1. /\ Served(t) /\ task[t].pc = "join" /\ Begin(t, r) /\ queue' = Tail(queue)
      /\ Untouched /\ cache' = cache
  BY DEF Join, Untouched, discord
<1>2. /\ TaskOK(chan, task[t]) /\ task[t] \in RecordsOf(chan)
      /\ task[t].ids \in Seq(Ids(chan))
  BY DEF Rest, TasksInv, TaskOK, RecordsOf
<1>3. h \in Seq(ModelEntries(chan)) /\ Fits(h)
  BY <1>2, ModelHistoryFits
<1> HIDE DEF h
<1>4. /\ r \in RecordsOf(chan) /\ r.op = task[t].op /\ r.pc = "done"
      /\ r.at = task[t].at /\ r.ids = task[t].ids /\ r.out = h
  BY <1>2, <1>3 DEF RecordsOf, Pcs, Ended
<1> HIDE DEF r
<1>5. TaskOK(chan, r)
  BY <1>1, <1>2, <1>3, <1>4 DEF TaskOK, Recorded, Fetching
<1> QED BY <1>1, <1>5, ServedStep

LEMMA AnswerOK ==
  ASSUME NEW c, NEW r, TaskOK(c, r), r.op = "click", NEW what \in Shown
  PROVE  TaskOK(c, Answer(r, what))
<1> DEFINE a == Answer(r, what)
<1>1. a \in RecordsOf(c) /\ a.op = "click" /\ a.pc = "followup"
  BY DEF TaskOK, RecordsOf, Answer, Pcs
<1> HIDE DEF a
<1>2. TaskOK(c, a)
  BY <1>1 DEF TaskOK, Recorded, Fetching
<1> QED BY <1>2 DEF a

LEMMA StatementRest ==
  ASSUME Rest, NEW t \in Tasks, Statement(t)
  PROVE  Rest'
<1>1. TaskOK(chan, task[t])
  BY DEF Rest, TasksInv
<1>2. CASE ExecuteFails(t) \/ JoinFails(t)
  <2>1. /\ Served(t) /\ task[t].pc # "commit" /\ Begin(t, Over(task[t], "failed"))
        /\ queue' = Tail(queue) /\ Untouched /\ cache' = cache
    BY <1>2 DEF ExecuteFails, JoinFails, Untouched, discord
  <2>2. TaskOK(chan, Over(task[t], "failed"))
    BY <1>1, OverOK DEF Ended
  <2> QED BY <2>1, <2>2, ServedStep
<1>3. CASE Read(t) \/ ReadFails(t)
  <2>1. PICK what \in Shown : Begin(t, Answer(task[t], what))
    BY <1>3 DEF Read, ReadFails, AfterReadError, StepsOf, Shown
  <2>2. /\ Served(t) /\ task[t].pc = "read" /\ queue' = Tail(queue)
        /\ Untouched /\ cache' = cache
    BY <1>3 DEF Read, ReadFails, Untouched, discord
  <2>3. TaskOK(chan, Answer(task[t], what))
    BY <1>1, <2>2, AnswerOK DEF TaskOK
  <2> QED BY <2>1, <2>2, <2>3, ServedStep
<1> QED BY <1>2, <1>3, ExecuteRest, CommitRest, CommitFailsRest, JoinRest
       DEF Statement

LEMMA ClickedRest ==
  ASSUME Rest, NEW t \in Tasks, Clicked(t)
  PROVE  Rest'
<1>1. TaskOK(chan, task[t]) /\ task[t] \in RecordsOf(chan)
  BY DEF Rest, TasksInv, TaskOK
<1>2. CASE \E id \in toggles : Click(t, id)
  <2>1. PICK id \in toggles : Click(t, id)
    BY <1>2
  <2> DEFINE r == [Idle EXCEPT !.op = "click", !.at = id, !.pc = "defer"]
  <2>2. id \in Ids(chan)
    BY DEF Rest, StoreOK, Ids
  <2>3. r \in RecordsOf(chan) /\ r.op = "click" /\ r.pc = "defer"
    BY <2>2, EmptyHistory DEF Idle, RecordsOf, Shown, Pcs
  <2>4. /\ Begin(t, r) /\ Untouched /\ cache' = cache /\ queue' = queue
        /\ task[t].pc \notin Waiting
    BY <2>1 DEF Click, Untouched, discord, store, Waiting
  <2> HIDE DEF r
  <2>5. TaskOK(chan, r)
    BY <2>3 DEF TaskOK, Recorded, Fetching
  <2> QED BY <2>4, <2>5, OwnStep
<1>3. CASE DeferFails(t)
  <2>1. TaskOK(chan, Over(task[t], "failed"))
    BY <1>1, OverOK DEF Ended
  <2>2. /\ Begin(t, Over(task[t], "failed")) /\ Untouched /\ cache' = cache
        /\ queue' = queue /\ task[t].pc \notin Waiting
    BY <1>3 DEF DeferFails, Untouched, discord, store, Waiting
  <2> QED BY <2>1, <2>2, OwnStep
<1>4. CASE Defer(t)
  <2>1. /\ Untouched /\ cache' = cache /\ task[t].pc = "defer"
        /\ task[t].pc \notin Waiting /\ task[t].op = "click"
    BY <1>1, <1>4 DEF Defer, Untouched, discord, Waiting, TaskOK
  <2>2. CASE enabled
    <3> DEFINE r == [task[t] EXCEPT !.pc = "read"]
    <3>1. Begin(t, r) /\ queue' = Append(queue, t)
      BY <1>4, <2>2 DEF Defer
    <3>2. r \in RecordsOf(chan) /\ r.op = "click" /\ r.pc = "read"
      BY <1>1, <2>1 DEF RecordsOf, Pcs
    <3> HIDE DEF r
    <3>3. TaskOK(chan, r)
      BY <3>2 DEF TaskOK, Recorded, Fetching
    <3> QED BY <2>1, <3>1, <3>2, <3>3, OwnStep DEF Waiting
  <2>3. CASE ~enabled
    <3>1. Begin(t, Answer(task[t], "unavailable")) /\ queue' = queue
      BY <1>4, <2>3 DEF Defer
    <3>2. TaskOK(chan, Answer(task[t], "unavailable"))
      BY <1>1, <2>1, AnswerOK DEF Shown
    <3> QED BY <2>1, <3>1, <3>2, OwnStep
  <2> QED BY <2>2, <2>3
<1>5. CASE FollowUp(t)
  <2> DEFINE r == [task[t] EXCEPT !.pc = "done"]
  <2>1. /\ Begin(t, r) /\ Untouched /\ cache' = cache /\ queue' = queue
        /\ task[t].pc = "followup" /\ task[t].pc \notin Waiting
    BY <1>5 DEF FollowUp, Untouched, discord, store, Waiting
  <2>2. r \in RecordsOf(chan) /\ r.op = "click" /\ r.pc = "done"
    BY <1>1, <2>1 DEF TaskOK, RecordsOf, Pcs, Ended
  <2> HIDE DEF r
  <2>3. TaskOK(chan, r)
    BY <2>2 DEF TaskOK, Recorded, Fetching
  <2> QED BY <2>1, <2>3, OwnStep
<1> QED BY <1>2, <1>3, <1>4, <1>5 DEF Clicked

(* Everything but Discord and what is on the disk is new.                   *)
LEMMA RestartRest ==
  ASSUME Rest, Restart
  PROVE  Rest'
<1>1. /\ task' = [t \in Tasks |-> Idle] /\ queue' = <<>> /\ cache' = <<>>
      /\ enabled' \in BOOLEAN /\ table' = disk' /\ restarts' \in 0..MaxRestarts
      /\ UNCHANGED <<kind, chan, toggles>>
  BY MemoryAssumption DEF Restart, discord, Rest, StoreOK, MemoryAssumption
<1>2. ChanOK' /\ CacheInv'
  BY <1>1 DEF Rest, ChanOK, CacheInv
<1>3. TasksInv'
  BY <1>1, IdleOK DEF TasksInv
<1>4. QueueInv' /\ ToCommit' = {}
  BY <1>1 DEF QueueInv, Line, QueueWaits, IsInjective, ToCommit
<1>5. DbOK(chan, disk) /\ disk.tier \in Tiers \cup {NoTier}
  BY DEF Rest, StoreOK, DbOK
<1>6. /\ DbOK(chan, disk') /\ effort' \in Tiers \cup {NoTier}
      /\ faithful' \in BOOLEAN /\ (enabled' /\ faithful' => effort' = disk'.tier)
  <2>1. CASE enabled'
    <3>1. PICK old \in 0..Len(chan), found \in BOOLEAN :
            /\ disk' = [disk EXCEPT !.rows = Pruned(@, old)]
            /\ effort' = Hydrated(found)
            /\ faithful' = found
      BY <2>1 DEF Restart, OpensStore
    <3> DEFINE rows == Pruned(disk.rows, old)
    <3>2. DOMAIN rows \subseteq DOMAIN disk.rows
          /\ \A i \in DOMAIN rows : rows[i] = disk.rows[i]
      BY DEF Pruned
    <3> HIDE DEF rows
    <3>3. /\ DOMAIN disk' = {"rows", "tier"} /\ disk'.rows = rows
          /\ disk'.tier = disk.tier
      <4>1. disk' = [disk EXCEPT !.rows = rows]
        BY <3>1 DEF rows
      <4> QED BY <1>5, <4>1 DEF DbOK
    <3>4. DbOK(chan, disk')
      BY <1>5, <3>2, <3>3 DEF DbOK
    <3>5. effort' = IF found THEN disk'.tier ELSE NoTier
      BY <3>1 DEF Hydrated
    <3> QED BY <1>5, <3>1, <3>3, <3>4, <3>5
  <2>2. CASE ~enabled'
    BY <1>5, <2>2 DEF Restart, GoesWithoutStore
  <2> QED BY <2>1, <2>2
<1>7. StoreOK'
  BY <1>1, <1>6 DEF Rest, StoreOK, DbOK
<1>8. LastCommitCounts'
  BY <1>1, <1>4, <1>6 DEF LastCommitCounts
<1> QED BY <1>2, <1>3, <1>4, <1>7, <1>8 DEF Rest

-----------------------------------------------------------------------------
LEMMA InitIInv == Init => IInv
<1> SUFFICES ASSUME Init PROVE IInv
  OBVIOUS
<1>1. chan \in Seq(Posts) /\ Len(chan) <= MaxOld
  <2>1. PICK n \in 0..MaxOld : chan \in [1..n -> Posts]
    BY DEF Init
  <2>2. n \in Nat /\ n <= MaxOld
    BY MemoryAssumption DEF MemoryAssumption
  <2> QED BY <2>1, <2>2, SeqDef
<1>2. ChanOK
  BY <1>1 DEF Init, ChanOK
<1>3. DbOK(chan, table) /\ disk = table /\ table.tier = NoTier
  <2>1. PICK R \in SUBSET toggles :
          \E rows \in [R -> RowStates] : table = [rows |-> rows, tier |-> NoTier]
    BY DEF Init
  <2>2. toggles \subseteq DOMAIN chan
    BY DEF Init
  <2> QED BY <2>1, <2>2 DEF DbOK, Init
<1>4. StoreOK
  BY <1>3, MemoryAssumption DEF Init, StoreOK, MemoryAssumption
<1>5. CacheInv
  BY DEF Init, CacheInv
<1>6. TasksInv /\ LeadersFetch
  BY IdleOK, IdleShaped DEF Init, TasksInv, LeadersFetch
<1>7. QueueInv /\ ToCommit = {}
  BY DEF Init, QueueInv, Line, IsInjective, QueueWaits, ToCommit
<1>8. LastCommitCounts
  BY <1>3, <1>7 DEF Init, LastCommitCounts
<1> QED BY <1>2, <1>4, <1>5, <1>6, <1>7, <1>8, Parts

LEMMA NextIInv == IInv /\ [Next]_vars => IInv'
<1> SUFFICES ASSUME IInv, [Next]_vars PROVE IInv'
  OBVIOUS
<1>1. Rest /\ LeadersFetch
  BY Parts DEF Rest
<1>2. LeadersFetch'
  BY <1>1, FlightFollows, NextFlightInv DEF Rest, FlightInv
<1>3. Rest'
  <2>1. CASE UNCHANGED vars
    <3>1. UNCHANGED <<kind, chan, toggles, enabled, table, disk, effort, faithful,
                      queue, cache, task, restarts>>
      BY <2>1 DEF vars, discord, store
    <3> QED BY <1>1, <3>1 DEF Rest, ChanOK, StoreOK, DbOK, CacheInv, TasksInv,
           QueueInv, QueueWaits, LastCommitCounts, ToCommit
  <2> QED BY <1>1, <2>1, HumanKeeps, ExpireKeeps, MentionRest, FetchRest, CancelRest,
         ReplyRest, EffortRest, StatementRest, ClickedRest, RestartRest DEF Next
<1>4. (/\ ChanOK /\ StoreOK /\ CacheInv /\ TasksInv /\ QueueInv
       /\ LeadersFetch /\ LastCommitCounts)'
  BY <1>2, <1>3 DEF Rest
<1>5. IInv' <=> (/\ ChanOK /\ StoreOK /\ CacheInv /\ TasksInv /\ QueueInv
                 /\ LeadersFetch /\ LastCommitCounts)'
  BY Parts, PTL
<1> QED BY <1>4, <1>5

(* What makes the invariants inductive holds throughout.                    *)
THEOREM Invariance == Spec => []IInv
  BY InitIInv, NextIInv, PTL DEF Spec

(* Everything stays of its type: no id that the channel has not, no row     *)
(* that is no message's, no task twice in the queue.                        *)
THEOREM TypeCorrect == Spec => []TypeOK
<1>1. IInv => TypeOK
  BY DEF IInv
<1> QED BY <1>1, Invariance, PTL

(* A follower waits on for a fetch that is under way or gets what its       *)
(* leader gets, whether that one succeeds, fails or is cancelled; nothing   *)
(* but the cancellation of a follower of the same future keeps it from      *)
(* that, for any tasks and any channel (history.py, fetch).                 *)
THEOREM LeadersServe == Spec => FollowersAreServed
<1>1. ASSUME IInv, [Next]_vars, NEW f \in Tasks, task[f].pc = "follow",
             restarts' = restarts
      PROVE  Waits(f) \/ Gets(f) \/ IsLetDown(f)
  <2>1. FlightInv
    BY <1>1, Parts, FlightFollows
  <2>2. FlightInv'
    BY <1>1, <2>1, NextFlightInv
  <2>3. ~Restart
    BY <1>1 DEF Restart, IInv, TypeOK
  <2> QED BY <1>1, <2>1, <2>2, <2>3, FollowerStep
<1>2. IInv /\ [Next]_vars =>
        [\A f \in Tasks : task[f].pc = "follow" /\ restarts' = restarts =>
           \/ task'[f] = task[f] /\ WaitsForFetch(f)'
           \/ /\ task'[f].pc \in {"join", "done"}
              /\ task'[f].ids = task'[task[f].lead].ids
           \/ \E g \in Followers(task[f].lead) : task'[g].pc = "cancelled"]_vars
  BY <1>1 DEF Waits, Gets, IsLetDown
<1> QED BY <1>2, Invariance, PTL DEF Spec, FollowersAreServed

(* No message from before a /clear comes back to an agent, from a fetch or  *)
(* from the cache, for any channel, anchor and limit (history.py,           *)
(* _do_fetch).                                                              *)
THEOREM NothingBeforeClear == Spec => []ClearBoundsHistory
<1>1. IInv => ClearBoundsHistory
  BY DEF IInv, RecordsBounded, BoundedBy, ClearBoundsHistory
<1> QED BY <1>1, Invariance, PTL

(* What is built of any records and any store starts with a request, and    *)
(* every replayed return stands between its call and the reply              *)
(* (history.py, build_message_history).                                     *)
THEOREM ReplayTaken == Spec => []ReplayFits
<1>1. IInv => ReplayFits
  BY DEF IInv
<1> QED BY <1>1, Invariance, PTL

(* With no effort command under way the map, the table and what a restart   *)
(* finds agree, however many commands overlapped and whichever statements   *)
(* failed, unless a commit or a hydration did (overrides.py).               *)
THEOREM MapIsTable == Spec => []MapMatchesTable
<1>1. IInv => MapMatchesTable
  <2> SUFFICES ASSUME IInv, enabled, faithful, Settled
               PROVE  effort = table.tier /\ effort = disk.tier
    BY DEF MapMatchesTable
  <2>1. \A i \in DOMAIN queue : queue[i] \in Tasks
    BY DEF IInv, TypeOK
  <2>2. ToCommit = {}
    BY <2>1 DEF ToCommit, Settled
  <2> QED BY <2>2 DEF IInv, LastCommitCounts
<1> QED BY <1>1, Invariance, PTL

=============================================================================
