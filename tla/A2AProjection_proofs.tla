------------------------- MODULE A2AProjection_proofs -------------------------
(***************************************************************************)
(* Proofs about A2AProjection, for any turns and any bounds: the trail of  *)
(* a turn is one thread but for strays, a guild that has the channel keeps *)
(* the one, and a consult is closed once.                                  *)
(***************************************************************************)
EXTENDS A2AProjection, FiniteSetTheorems, TLAPS

LEMMA NoneIsNoId == None \notin Ids
  BY A2AAssumption DEF Ids

LEMMA InitIInv == Init => IInv
<1> SUFFICES ASSUME Init PROVE IInv
  OBVIOUS
<1>1. Fresh({}) \subseteq {1} /\ Fresh({}) \subseteq Ids
  BY FS_EmptySet DEF Fresh, Ids
<1>2. TypeOK
  BY <1>1, A2AAssumption DEF Init, TypeOK, Resolving, Emitting, Ended
<1>3. ThreadIsKept
  BY DEF Init, ThreadIsKept, Emitting
<1>4. OneChannel
  BY <1>1 DEF Init, OneChannel
<1>5. OpenUntilClosed
  BY DEF Init, OpenUntilClosed
<1> QED BY <1>2, <1>3, <1>4, <1>5 DEF IInv

-----------------------------------------------------------------------------
(* Types, one action after the other.                                       *)

Places == Resolving \cup Emitting \cup Ended \cup {"drain"}
PcTyped == pc \in [Turns -> Places]
ChannelTyped == channel \in [Turns -> Ids \cup {None}]

LEMMA GotoTyped ==
  ASSUME TypeOK, NEW t \in Turns, NEW l \in Places, Goto(t, l)
  PROVE  PcTyped'
  BY DEF TypeOK, Goto, Places, PcTyped

LEMMA EnterTyped ==
  ASSUME TypeOK, NEW t \in Turns, NEW c \in Ids, EnterChannel(t, c)
  PROVE  PcTyped' /\ ChannelTyped'
<1>1. PcTyped'
  <2>1. PICK l \in {"rest", "anchor"} : Goto(t, l)
    BY DEF EnterChannel
  <2> QED BY <2>1, GotoTyped DEF Places, Emitting
<1> QED BY <1>1 DEF TypeOK, EnterChannel, ChannelTyped

LEMMA StartEmitTyped ==
  ASSUME TypeOK, NEW t \in Turns, StartEmit(t)
  PROVE  /\ channelId' \in Ids \cup {None} /\ ChannelTyped' /\ PcTyped'
         /\ UNCHANGED <<discord, resolver, threadOf, threads, strays, misrouted>>
<1>1. CASE channelId # None
  BY <1>1, EnterTyped DEF StartEmit, TypeOK, created
<1>2. CASE channelId = None /\ unified # None
  BY <1>2, EnterTyped DEF StartEmit, TypeOK, created
<1>3. CASE channelId = None /\ unified = None
  BY <1>3, GotoTyped DEF StartEmit, TypeOK, Places, Resolving, ChannelTyped,
     created
<1> QED BY <1>1, <1>2, <1>3 DEF StartEmit, created

LEMMA ReturnTyped ==
  ASSUME TypeOK, NEW t \in Turns, Return(t)
  PROVE  ChannelTyped' /\ PcTyped'
<1>1. PICK l \in {"failed", "drain"} : Goto(t, l)
  BY DEF Return
<1>2. PcTyped'
  BY <1>1, GotoTyped DEF Places, Ended
<1> QED BY <1>2 DEF Return, ChannelTyped, TypeOK

LEMMA CloseTyped ==
  ASSUME TypeOK, NEW t \in Turns, NEW c \in Calls, Close(t, c),
         events' \in [Turns -> 0..MaxEvents], faulted' = faulted
  PROVE  TypeOK'
<1>1. closed' \in [Turns -> [Calls -> Nat]] /\ open' \in [Turns -> SUBSET Calls]
  BY DEF Close, TypeOK, StillOpen
<1>2. StartEmit(t) /\ asked' = asked
  BY DEF Close
<1> QED BY <1>1, <1>2, StartEmitTyped DEF TypeOK, PcTyped, ChannelTyped, Places,
       discord, resolver

LEMMA UnnoticedTyped ==
  ASSUME TypeOK, NEW t \in Turns, Unnoticed(t)
  PROVE  /\ channels' \subseteq Ids /\ categories' \subseteq Ids
         /\ threads' \in [Turns -> Nat] /\ strays' \in [Turns -> Nat]
         /\ preexisting' = preexisting
<1>1. threads[t] + 1 \in Nat /\ strays[t] + 1 \in Nat
  BY DEF TypeOK
<1>2. threads' \in [Turns -> Nat] /\ strays' \in [Turns -> Nat]
  BY <1>1 DEF TypeOK, Unnoticed, created
<1>3. channels' \subseteq Ids /\ categories' \subseteq Ids
  BY DEF TypeOK, Unnoticed, Fresh
<1> QED BY <1>2, <1>3 DEF Unnoticed

LEMMA TypeKeeps ==
  ASSUME TypeOK, NEW t \in Turns, Turn(t) \/ Cancel(t)
  PROVE  TypeOK'
<1> USE DEF PcTyped, ChannelTyped, Places
<1>1. CASE Discover(t)
  <2>1. ASSUME NEW c \in channels, Resolved(t, c), UNCHANGED <<channels, categories, category>>
        PROVE  TypeOK'
    BY <2>1, EnterTyped DEF TypeOK, Resolved, dispatch, created
  <2>2. ASSUME NEW l \in {"find_category", "create"}, Goto(t, l),
               UNCHANGED <<discord, resolver, projector, dispatch, emit>>
        PROVE  TypeOK'
    <3>1. PcTyped'
      BY <2>2, GotoTyped DEF Resolving
    <3> QED BY <2>2, <3>1 DEF TypeOK, discord, resolver, projector, dispatch, emit,
           created
  <2> QED BY <1>1, <2>1, <2>2 DEF Discover
<1>2. CASE FindCategory(t) \/ MakeCategory(t)
  <2>1. PICK l \in {"make_category", "create"} : Goto(t, l)
    BY <1>2 DEF FindCategory, MakeCategory
  <2>2. PcTyped'
    BY <2>1, GotoTyped DEF Resolving
  <2> QED BY <1>2, <2>2 DEF TypeOK, FindCategory, MakeCategory, Fresh, discord,
         projector, dispatch, emit, created
<1>3. CASE CreateChannel(t)
  <2>1. PICK c \in Ids : channels' = channels \cup {c} /\ Resolved(t, c)
    BY <1>3 DEF CreateChannel, Fresh
  <2>2. PcTyped' /\ ChannelTyped'
    BY <2>1, EnterTyped DEF Resolved
  <2>3. UNCHANGED <<categories, category, threadOf, threads, strays, misrouted,
                    preexisting, events, asked, open, closed, faulted>>
    BY <1>3, <2>1 DEF CreateChannel, Resolved, dispatch, created
  <2>4. /\ channels' \subseteq Ids
        /\ unified' \in Ids \cup {None} /\ channelId' \in Ids \cup {None}
    BY <2>1 DEF TypeOK, Resolved
  <2> QED BY <2>2, <2>3, <2>4 DEF TypeOK
<1>4. CASE PostAnchor(t)
  <2>1. PcTyped'
    BY <1>4, GotoTyped DEF PostAnchor, Emitting
  <2> QED BY <1>4, <2>1 DEF TypeOK, PostAnchor, discord, resolver, projector,
         dispatch, emit, created
<1>5. CASE CreateThread(t)
  <2>1. PcTyped' /\ ChannelTyped'
    <3>1. CASE Return(t)
      BY <3>1, ReturnTyped
    <3>2. CASE Goto(t, "rest") /\ UNCHANGED channel
      BY <3>2, GotoTyped DEF TypeOK, Emitting
    <3> QED BY <1>5, <3>1, <3>2 DEF CreateThread
  <2>2. channel[t] \in Ids \cup {None} /\ threads[t] + 1 \in Nat
    BY DEF TypeOK
  <2>3. threadOf' \in [Turns -> Ids \cup {None}] /\ threads' \in [Turns -> Nat]
    BY <1>5, <2>2 DEF TypeOK, CreateThread, RememberThread
  <2>4. UNCHANGED <<channels, categories, preexisting, unified, category, channelId,
                    events, asked, open, closed, faulted, strays, misrouted>>
    BY <1>5 DEF CreateThread, discord, resolver, dispatch
  <2> QED BY <2>1, <2>3, <2>4 DEF TypeOK
<1>6. CASE PostRest(t)
  BY <1>6, ReturnTyped DEF TypeOK, PostRest, discord, resolver, projector, dispatch,
     created
<1>7. CASE Lose(t)
  BY <1>7, ReturnTyped, UnnoticedTyped DEF TypeOK, Lose, resolver, projector, dispatch
<1>8. ASSUME NEW c \in Calls, Request(t, c)
      PROVE  TypeOK'
  <2>1. StartEmit(t) /\ closed' = closed /\ faulted' = faulted
        /\ events' \in [Turns -> 0..MaxEvents]
    BY <1>8, A2AAssumption DEF TypeOK, Request, Draining, CountEvent
  <2>2. asked' \in [Turns -> SUBSET Calls] /\ open' \in [Turns -> SUBSET Calls]
    BY <1>8 DEF TypeOK, Request
  <2> QED BY <2>1, <2>2, StartEmitTyped DEF TypeOK, discord, resolver
<1>9. ASSUME NEW c \in Calls, Answer(t, c)
      PROVE  TypeOK'
  BY <1>9, CloseTyped, A2AAssumption DEF Answer, Draining, CountEvent, TypeOK
<1>10. CASE FaultNote(t)
  <2>1. PICK c \in open[t] : Close(t, c)
    BY <1>10 DEF FaultNote
  <2> QED BY <1>10, <2>1, CloseTyped DEF FaultNote, TypeOK
<1>11. CASE Handoff(t)
  <2>1. StartEmit(t) /\ UNCHANGED <<asked, open, closed, faulted>>
        /\ events' \in [Turns -> 0..MaxEvents]
    BY <1>11, A2AAssumption DEF TypeOK, Handoff, Draining, CountEvent
  <2> QED BY <2>1, StartEmitTyped DEF TypeOK, discord, resolver
<1>12. CASE Complete(t) \/ Fault(t)
  <2>1. PICK l \in {"completed", "failed", "drain"} : Goto(t, l)
    BY <1>12 DEF Complete, Fault
  <2>2. PcTyped'
    BY <2>1, GotoTyped DEF Ended
  <2> QED BY <1>12, <2>2 DEF TypeOK, Complete, Fault, discord, resolver, projector,
         dispatch, emit, created
<1>13. CASE Cancel(t)
  <2>1. PcTyped'
    BY <1>13, GotoTyped DEF Cancel, Ended
  <2>2. ChannelTyped'
    BY <1>13 DEF Cancel, TypeOK
  <2> QED BY <1>13, <2>1, <2>2, UnnoticedTyped DEF TypeOK, Cancel, resolver, projector,
         dispatch
<1> QED BY <1>1, <1>2, <1>3, <1>4, <1>5, <1>6, <1>7, <1>8, <1>9, <1>10, <1>11,
       <1>12, <1>13 DEF Turn, Resolve, Post, Classify

-----------------------------------------------------------------------------
(* What a step of one turn leaves alone of another.                         *)
OfTurn(u) == <<pc[u], channel[u], threadOf[u], threads[u], strays[u],
               misrouted[u], events[u], asked[u], open[u], closed[u],
               faulted[u]>>

LEMMA OthersKeep ==
  ASSUME TypeOK, NEW t \in Turns, Turn(t) \/ Cancel(t), NEW u \in Turns \ {t}
  PROVE  UNCHANGED OfTurn(u)
<1> USE DEF TypeOK, Goto
<1>1. CASE Resolve(t)
  BY <1>1 DEF OfTurn, Resolve, Discover, FindCategory, MakeCategory, CreateChannel,
     Resolved, EnterChannel, projector, dispatch, emit, created
<1>2. CASE Post(t) \/ Lose(t) \/ Complete(t) \/ Cancel(t)
  BY <1>2 DEF OfTurn, Post, PostAnchor, CreateThread, RememberThread, PostRest, Lose,
     Complete, Cancel, Return, Unnoticed, projector, dispatch, emit, created
<1>3. CASE Fault(t)
  BY <1>3 DEF OfTurn, Fault, projector, emit, created
<1>4. CASE Classify(t) \/ FaultNote(t)
  <2>1. StartEmit(t)
    BY <1>4 DEF Classify, FaultNote, Request, Answer, Handoff, Close
  <2>2. UNCHANGED <<pc[u], channel[u], threadOf[u], threads[u], strays[u],
                    misrouted[u]>>
    BY <2>1 DEF StartEmit, EnterChannel, created
  <2>3. UNCHANGED <<events[u], asked[u], open[u], closed[u], faulted[u]>>
    BY <1>4 DEF Classify, FaultNote, Request, Answer, Handoff, Close, CountEvent,
       StillOpen
  <2> QED BY <2>2, <2>3 DEF OfTurn
<1> QED BY <1>1, <1>2, <1>3, <1>4 DEF Turn

-----------------------------------------------------------------------------
(* A turn's thread.                                                         *)

(* ThreadIsKept of one turn.                                                *)
HasItsThread(t) ==
    /\ threads[t] = strays[t] + (IF threadOf[t] = None THEN 0 ELSE 1)
    /\ pc[t] \in {"anchor", "thread"} => threadOf[t] = None
    /\ pc[t] \in Emitting => channel[t] # None

(* The turn enters a channel, or leaves the projection: its thread is as it *)
(* was.                                                                     *)
LEMMA EnterKeepsThread ==
  ASSUME TypeOK, NEW t \in Turns, HasItsThread(t), NEW c \in Ids,
         EnterChannel(t, c), UNCHANGED <<threadOf, threads, strays>>
  PROVE  HasItsThread(t)'
  BY NoneIsNoId DEF TypeOK, HasItsThread, EnterChannel, Anchored, Goto, Emitting

LEMMA LeaveKeepsThread ==
  ASSUME TypeOK, NEW t \in Turns, HasItsThread(t),
         NEW l \in Resolving \cup Ended \cup {"drain"}, Goto(t, l),
         UNCHANGED <<threadOf, threads, strays>>
  PROVE  HasItsThread(t)'
  BY DEF TypeOK, HasItsThread, Goto, Emitting, Resolving, Ended

LEMMA StartKeepsThread ==
  ASSUME TypeOK, NEW t \in Turns, HasItsThread(t), StartEmit(t)
  PROVE  HasItsThread(t)'
<1>1. UNCHANGED <<threadOf, threads, strays>>
  BY DEF StartEmit, created
<1>2. CASE \E c \in Ids : EnterChannel(t, c)
  BY <1>1, <1>2, EnterKeepsThread
<1>3. CASE Goto(t, "discover")
  BY <1>1, <1>3, LeaveKeepsThread DEF Resolving
<1> QED BY <1>2, <1>3 DEF StartEmit, TypeOK

LEMMA ThreadKeeps ==
  ASSUME IInv, NEW t \in Turns, Turn(t) \/ Cancel(t)
  PROVE  ThreadIsKept'
<1>1. TypeOK /\ \A u \in Turns : HasItsThread(u)
  BY DEF IInv, ThreadIsKept, HasItsThread
<1>2. HasItsThread(t)'
  <2>1. CASE Discover(t)
    <3>1. CASE \E c \in channels : Resolved(t, c)
      BY <1>1, <3>1, EnterKeepsThread DEF Resolved, TypeOK, created
    <3>2. CASE \E l \in {"find_category", "create"} :
                 Goto(t, l) /\ UNCHANGED <<threadOf, threads, strays>>
      BY <1>1, <3>2, LeaveKeepsThread DEF Resolving
    <3> QED BY <2>1, <3>1, <3>2 DEF Discover, projector, emit, created
  <2>2. CASE FindCategory(t) \/ MakeCategory(t)
    <3>1. \E l \in {"make_category", "create"} :
            Goto(t, l) /\ UNCHANGED <<threadOf, threads, strays>>
      BY <2>2 DEF FindCategory, MakeCategory, projector, emit, created
    <3> QED BY <1>1, <3>1, LeaveKeepsThread DEF Resolving
  <2>3. CASE CreateChannel(t)
    BY <1>1, <2>3, EnterKeepsThread DEF CreateChannel, Resolved, Fresh, created
  <2>4. CASE PostAnchor(t)
    BY <1>1, <2>4 DEF PostAnchor, HasItsThread, Goto, TypeOK, projector, emit,
       created, Emitting
  <2>5. CASE CreateThread(t)
    <3>1. /\ pc[t] = "thread" /\ channel[t] # None /\ threads[t] = strays[t]
          /\ threadOf'[t] = channel[t] /\ threads'[t] = threads[t] + 1
          /\ strays' = strays /\ strays[t] \in Nat
      BY <1>1, <2>5 DEF CreateThread, RememberThread, HasItsThread, TypeOK, Emitting
    <3>2. CASE Goto(t, "rest") /\ UNCHANGED channel
      BY <1>1, <3>1, <3>2 DEF Goto, HasItsThread, TypeOK
    <3>3. CASE Return(t)
      <4>1. pc'[t] \in {"failed", "drain"}
        BY <1>1, <3>3 DEF Return, Goto, TypeOK
      <4> QED BY <3>1, <4>1 DEF HasItsThread, Emitting
    <3> QED BY <2>5, <3>2, <3>3 DEF CreateThread
  <2>6. CASE PostRest(t) \/ Complete(t) \/ Fault(t)
    <3>1. \E l \in Ended \cup {"drain"} : Goto(t, l)
      BY <2>6 DEF PostRest, Complete, Fault, Return, Ended
    <3>2. UNCHANGED <<threadOf, threads, strays>>
      BY <2>6 DEF PostRest, Complete, Fault, projector, emit, created
    <3> QED BY <1>1, <3>1, <3>2, LeaveKeepsThread
  <2>7. CASE Lose(t) \/ Cancel(t)
    <3>1. PICK l \in Ended \cup {"drain"} : Goto(t, l)
      BY <2>7 DEF Lose, Cancel, Return, Ended
    <3>2. Unnoticed(t) /\ threadOf' = threadOf
      BY <2>7 DEF Lose, Cancel, projector
    <3>3. CASE UNCHANGED <<threads, strays>>
      BY <1>1, <3>1, <3>2, <3>3, LeaveKeepsThread
    <3>4. CASE threads' = [threads EXCEPT ![t] = @ + 1]
               /\ strays' = [strays EXCEPT ![t] = @ + 1]
      <4>1. threads'[t] = threads[t] + 1 /\ strays'[t] = strays[t] + 1
            /\ threads[t] \in Nat /\ strays[t] \in Nat
        BY <1>1, <3>4 DEF TypeOK
      <4>2. pc'[t] \notin Emitting /\ pc'[t] \notin {"anchor", "thread"}
        BY <1>1, <3>1 DEF TypeOK, Goto, Emitting, Ended
      <4> QED BY <1>1, <3>2, <4>1, <4>2 DEF HasItsThread
    <3> QED BY <3>2, <3>3, <3>4 DEF Unnoticed, created
  <2>8. CASE Classify(t) \/ FaultNote(t)
    <3>1. StartEmit(t)
      BY <2>8 DEF Classify, FaultNote, Request, Answer, Handoff, Close
    <3> QED BY <1>1, <3>1, StartKeepsThread
  <2> QED BY <2>1, <2>2, <2>3, <2>4, <2>5, <2>6, <2>7, <2>8 DEF Turn, Resolve,
         Post
<1>3. \A u \in Turns \ {t} :
        UNCHANGED <<pc[u], channel[u], threadOf[u], threads[u], strays[u]>>
  BY <1>1, OthersKeep DEF OfTurn
<1> QED BY <1>1, <1>2, <1>3 DEF ThreadIsKept, HasItsThread

-----------------------------------------------------------------------------
(* The guild's one channel.                                                 *)

(* OneChannel of the shared state, and of one turn.                         *)
KnowsTheOne ==
    channels = {1} /\ unified \in {None, 1} /\ channelId \in {None, 1}
StaysInTheOne(t) ==
    /\ pc[t] \notin {"find_category", "make_category", "create"}
    /\ threadOf[t] \in {None, 1} /\ channel[t] \in {None, 1}
    /\ ~misrouted[t]

LEMMA EnterTheOne ==
  ASSUME TypeOK, NEW t \in Turns, StaysInTheOne(t), EnterChannel(t, 1),
         UNCHANGED <<threadOf, misrouted>>
  PROVE  StaysInTheOne(t)'
  BY DEF TypeOK, StaysInTheOne, EnterChannel, Goto

LEMMA LeaveTheOne ==
  ASSUME TypeOK, NEW t \in Turns, StaysInTheOne(t), Return(t),
         UNCHANGED <<threadOf, misrouted>>
  PROVE  StaysInTheOne(t)'
  BY DEF TypeOK, StaysInTheOne, Return, Goto

LEMMA StartInTheOne ==
  ASSUME TypeOK, NEW t \in Turns, KnowsTheOne, StaysInTheOne(t), StartEmit(t)
  PROVE  KnowsTheOne' /\ StaysInTheOne(t)'
<1>1. UNCHANGED <<threadOf, misrouted, channels, unified>>
  BY DEF StartEmit, discord, resolver
<1>2. CASE EnterChannel(t, 1) /\ channelId' = 1
  BY <1>1, <1>2, EnterTheOne DEF KnowsTheOne
<1>3. CASE Goto(t, "discover") /\ UNCHANGED <<channelId, channel>>
  BY <1>1, <1>3 DEF TypeOK, StaysInTheOne, KnowsTheOne, Goto
<1> QED BY <1>2, <1>3 DEF StartEmit, KnowsTheOne

LEMMA ChannelKeeps ==
  ASSUME IInv, NEW t \in Turns, Turn(t) \/ Cancel(t)
  PROVE  OneChannel'
<1>1. preexisting' = preexisting
  <2>1. CASE Resolve(t)
    BY <2>1 DEF Resolve, Discover, FindCategory, MakeCategory, CreateChannel,
       Resolved, discord
  <2>2. CASE Post(t) \/ Lose(t) \/ Complete(t) \/ Fault(t) \/ Cancel(t)
    BY <2>2 DEF Post, PostAnchor, CreateThread, PostRest, Lose, Complete, Fault,
       Cancel, Unnoticed, discord
  <2>3. CASE Classify(t) \/ FaultNote(t)
    BY <2>3 DEF Classify, FaultNote, Request, Answer, Handoff, Close, StartEmit, discord
  <2> QED BY <2>1, <2>2, <2>3 DEF Turn
<1> SUFFICES ASSUME preexisting
             PROVE  KnowsTheOne' /\ \A u \in Turns : StaysInTheOne(u)'
  BY <1>1 DEF OneChannel, KnowsTheOne, StaysInTheOne
<1>2. TypeOK /\ KnowsTheOne /\ \A u \in Turns : StaysInTheOne(u)
  BY DEF IInv, OneChannel, KnowsTheOne, StaysInTheOne
<1>3. KnowsTheOne' /\ StaysInTheOne(t)'
  <2>1. CASE Discover(t)
    <3>1. Resolved(t, 1) /\ channels' = channels
      BY <1>2, <2>1 DEF Discover, KnowsTheOne
    <3> QED BY <1>2, <3>1, EnterTheOne DEF Resolved, KnowsTheOne
  <2>2. CASE FindCategory(t) \/ MakeCategory(t) \/ CreateChannel(t)
    BY <1>2, <2>2 DEF FindCategory, MakeCategory, CreateChannel, StaysInTheOne
  <2>3. CASE PostAnchor(t) \/ Complete(t) \/ Fault(t)
    BY <1>2, <2>3 DEF PostAnchor, Complete, Fault, discord, resolver,
       projector, emit, created, Goto, TypeOK, KnowsTheOne, StaysInTheOne
  <2>4. CASE CreateThread(t)
    <3>1. KnowsTheOne'
      BY <1>2, <2>4 DEF CreateThread, KnowsTheOne, discord, resolver
    <3>2. threadOf'[t] \in {None, 1} /\ misrouted' = misrouted
      BY <1>2, <2>4 DEF CreateThread, RememberThread, TypeOK, StaysInTheOne
    <3>3. pc'[t] \in {"failed", "drain", "rest"} /\ channel'[t] \in {None, 1}
      BY <1>2, <2>4 DEF CreateThread, Return, Goto, TypeOK, StaysInTheOne
    <3> QED BY <1>2, <3>1, <3>2, <3>3 DEF StaysInTheOne
  <2>5. CASE PostRest(t)
    <3>1. channel[t] = 1
      BY <1>2, <2>5 DEF PostRest, StaysInTheOne, IInv, ThreadIsKept, Emitting
    <3>2. misrouted' = misrouted
      BY <1>2, <2>5, <3>1 DEF PostRest, StaysInTheOne, TypeOK
    <3> QED BY <1>2, <2>5, <3>2, LeaveTheOne DEF PostRest, KnowsTheOne, discord,
           resolver, projector
  <2>6. CASE Lose(t) \/ Cancel(t)
    <3>1. channels' = channels
      BY <1>2, <2>6 DEF Lose, Cancel, Unnoticed, StaysInTheOne
    <3>2. KnowsTheOne'
      BY <1>2, <2>6, <3>1 DEF Lose, Cancel, KnowsTheOne, resolver, projector
    <3>3. UNCHANGED <<threadOf, misrouted>>
      BY <2>6 DEF Lose, Cancel, projector
    <3>4. CASE Lose(t)
      BY <1>2, <3>2, <3>3, <3>4, LeaveTheOne DEF Lose
    <3>5. CASE Cancel(t)
      BY <1>2, <3>2, <3>3, <3>5 DEF Cancel, Goto, TypeOK, StaysInTheOne
    <3> QED BY <2>6, <3>4, <3>5
  <2>7. CASE Classify(t) \/ FaultNote(t)
    <3>1. StartEmit(t)
      BY <2>7 DEF Classify, FaultNote, Request, Answer, Handoff, Close
    <3> QED BY <1>2, <3>1, StartInTheOne
  <2> QED BY <2>1, <2>2, <2>3, <2>4, <2>5, <2>6, <2>7 DEF Turn, Resolve, Post
<1>4. ASSUME NEW u \in Turns \ {t}
      PROVE  StaysInTheOne(u)'
  BY <1>2, <1>4, OthersKeep DEF OfTurn, StaysInTheOne
<1> QED BY <1>3, <1>4

-----------------------------------------------------------------------------
(* The consults of a turn.                                                  *)

(* OpenUntilClosed of one turn.                                             *)
AccountsFor(t) ==
    /\ asked[t] \subseteq 1..events[t] /\ open[t] \subseteq asked[t]
    /\ \A c \in Calls : closed[t][c] = IF c \in asked[t] \ open[t] THEN 1 ELSE 0
    /\ pc[t] = "failed" => open[t] = {}

LEMMA StartIsNoEnd ==
  ASSUME TypeOK, NEW t \in Turns, StartEmit(t)
  PROVE  pc'[t] # "failed"
  BY DEF TypeOK, StartEmit, EnterChannel, Goto

LEMMA ReturnEndsEmpty ==
  ASSUME TypeOK, NEW t \in Turns, AccountsFor(t), Return(t), UNCHANGED dispatch
  PROVE  AccountsFor(t)'
  BY DEF TypeOK, AccountsFor, Return, NotesOver, Goto, dispatch

LEMMA CloseAccounts ==
  ASSUME TypeOK, NEW t \in Turns, AccountsFor(t), NEW c \in open[t], Close(t, c),
         events'[t] \in {events[t], events[t] + 1}
  PROVE  AccountsFor(t)'
<1>1. /\ open'[t] = open[t] \ {c} /\ asked'[t] = asked[t]
      /\ closed'[t] = [closed[t] EXCEPT ![c] = @ + 1]
  BY DEF TypeOK, Close, StillOpen
<1>2. pc'[t] # "failed"
  BY StartIsNoEnd DEF Close
<1>3. c \in asked[t] /\ c \in Calls /\ closed[t] \in [Calls -> Nat]
      /\ events[t] \in Nat
  BY DEF TypeOK, AccountsFor
<1>4. asked'[t] \subseteq 1..events'[t]
  BY <1>1, <1>3 DEF AccountsFor
<1>5. ASSUME NEW d \in Calls
      PROVE  closed'[t][d] = IF d \in asked'[t] \ open'[t] THEN 1 ELSE 0
  BY <1>1, <1>3 DEF AccountsFor
<1> QED BY <1>1, <1>2, <1>4, <1>5 DEF AccountsFor

LEMMA ConsultsKeep ==
  ASSUME IInv, NEW t \in Turns, Turn(t) \/ Cancel(t)
  PROVE  OpenUntilClosed'
<1>1. TypeOK /\ \A u \in Turns : AccountsFor(u)
  BY DEF IInv, OpenUntilClosed, AccountsFor
<1>2. AccountsFor(t)'
  <2>1. CASE Resolve(t)
    <3>1. pc'[t] # "failed"
      BY <1>1, <2>1 DEF TypeOK, Resolve, Discover, FindCategory, MakeCategory,
         CreateChannel, Resolved, EnterChannel, Goto
    <3>2. UNCHANGED dispatch
      BY <2>1 DEF Resolve, Discover, FindCategory, MakeCategory, CreateChannel, Resolved
    <3> QED BY <1>1, <3>1, <3>2 DEF AccountsFor, dispatch
  <2>2. CASE PostAnchor(t) \/ Complete(t) \/ Cancel(t)
    BY <1>1, <2>2 DEF PostAnchor, Complete, Cancel, Goto, TypeOK, AccountsFor, dispatch
  <2>3. CASE CreateThread(t)
    <3>1. CASE Return(t)
      BY <1>1, <2>3, <3>1, ReturnEndsEmpty DEF CreateThread
    <3>2. CASE Goto(t, "rest")
      BY <1>1, <2>3, <3>2 DEF CreateThread, Goto, TypeOK, AccountsFor, dispatch
    <3> QED BY <2>3, <3>1, <3>2 DEF CreateThread
  <2>4. CASE PostRest(t) \/ Lose(t)
    BY <1>1, <2>4, ReturnEndsEmpty DEF PostRest, Lose
  <2>5. CASE Fault(t)
    BY <1>1, <2>5 DEF Fault, Goto, TypeOK, AccountsFor
  <2>6. ASSUME NEW c \in Calls, Request(t, c)
        PROVE  AccountsFor(t)'
    <3>1. /\ c = events[t] + 1 /\ events'[t] = c /\ events[t] \in Nat
          /\ asked'[t] = asked[t] \cup {c} /\ open'[t] = open[t] \cup {c}
          /\ closed' = closed
      BY <1>1, <2>6, A2AAssumption DEF TypeOK, Request, CountEvent
    <3>2. c \notin asked[t]
      BY <1>1, <3>1 DEF AccountsFor
    <3>3. asked'[t] \subseteq 1..events'[t]
      BY <1>1, <3>1 DEF AccountsFor
    <3>4. asked'[t] \ open'[t] = asked[t] \ open[t]
      BY <3>1, <3>2
    <3>5. pc'[t] # "failed"
      BY <1>1, <2>6, StartIsNoEnd DEF Request
    <3> QED BY <1>1, <3>1, <3>3, <3>4, <3>5 DEF AccountsFor
  <2>7. ASSUME NEW c \in Calls, Answer(t, c)
        PROVE  AccountsFor(t)'
    BY <1>1, <2>7, CloseAccounts DEF Answer, CountEvent, TypeOK
  <2>8. CASE FaultNote(t)
    BY <1>1, <2>8, CloseAccounts DEF FaultNote
  <2>9. CASE Handoff(t)
    <3>1. events'[t] = events[t] + 1 /\ events[t] \in Nat
          /\ UNCHANGED <<asked, open, closed>>
      BY <1>1, <2>9, A2AAssumption DEF TypeOK, Handoff, CountEvent
    <3>2. pc'[t] # "failed"
      BY <1>1, <2>9, StartIsNoEnd DEF Handoff
    <3>3. asked'[t] \subseteq 1..events'[t]
      BY <1>1, <3>1 DEF AccountsFor
    <3> QED BY <1>1, <3>1, <3>2, <3>3 DEF AccountsFor
  <2> QED BY <2>1, <2>2, <2>3, <2>4, <2>5, <2>6, <2>7, <2>8, <2>9
          DEF Turn, Post, Classify
<1>3. ASSUME NEW u \in Turns \ {t}
      PROVE  AccountsFor(u)'
  BY <1>1, <1>3, OthersKeep DEF OfTurn, AccountsFor
<1> QED BY <1>2, <1>3 DEF OpenUntilClosed, AccountsFor

-----------------------------------------------------------------------------
LEMMA NextIInv == IInv /\ [Next]_vars => IInv'
<1> SUFFICES ASSUME IInv, [Next]_vars PROVE IInv'
  OBVIOUS
<1>1. ASSUME NEW t \in Turns, Turn(t) \/ Cancel(t) PROVE IInv'
  BY <1>1, TypeKeeps, ThreadKeeps, ChannelKeeps, ConsultsKeep DEF IInv
<1>2. CASE UNCHANGED vars
  BY <1>2 DEF IInv, TypeOK, ThreadIsKept, OneChannel, OpenUntilClosed, vars, discord,
     resolver, projector, dispatch, emit, created
<1> QED BY <1>1, <1>2 DEF Next

(* The strengthening holds in every state of the trail: every action keeps  *)
(* it, whichever turns are under way (a2a_dispatch.py, a2a_project.py,      *)
(* egress.py).                                                              *)
THEOREM Invariance == Spec => []IInv
  BY InitIInv, NextIInv, PTL DEF Spec

(* Channels, threads and open consults keep their types, and the program    *)
(* counters their places, for any turns (a2a_dispatch.py, a2a_project.py,   *)
(* egress.py).                                                              *)
THEOREM TypeCorrect == Spec => []TypeOK
<1>1. IInv => TypeOK
  BY DEF IInv
<1> QED BY <1>1, Invariance, PTL

(* The trail of a turn is one thread, beside at most the threads the bridge *)
(* was not told it had created, and a guild that has the channel keeps the  *)
(* one with no post astray: for any number of concurrent turns, whatever    *)
(* call is lost or cancelled, with or without its effect (a2a_project.py,   *)
(* _emit; egress.py, resolve_unified_channel).                              *)
THEOREM TrailIsOne == Spec => []OneTrail
<1>1. ASSUME IInv, NEW t \in Turns
      PROVE  threads[t] <= 1 + strays[t]
  BY <1>1 DEF IInv, TypeOK, ThreadIsKept
<1>2. IInv => OneTrail
  BY <1>1, FS_Singleton DEF IInv, OneChannel, OneTrail
<1> QED BY <1>2, Invariance, PTL

(* A consult is closed at most once, and exactly once in a turn that ended  *)
(* in a fault, for any number of events in any order (a2a_dispatch.py,      *)
(* classify and dangling).                                                  *)
THEOREM ConsultClosedOnce == Spec => []ClosedOnce
<1>1. ASSUME IInv, NEW t \in Turns, NEW c \in asked[t]
      PROVE  closed[t][c] <= 1 /\ (pc[t] = "failed" => closed[t][c] = 1)
  BY <1>1 DEF IInv, TypeOK, OpenUntilClosed
<1>2. IInv => ClosedOnce
  BY <1>1 DEF ClosedOnce
<1> QED BY <1>2, Invariance, PTL

=============================================================================
