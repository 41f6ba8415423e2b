--------------------------- MODULE A2AProjection ---------------------------
(***************************************************************************)
(* The agent-to-agent audit trail: A2ADispatcher sorts the consults out of *)
(* each turn's stream, A2AProjector posts them into one thread per turn,   *)
(* and A2AChannelResolver finds or creates the channel the threads live in.*)
(*                                                                         *)
(* Turns run concurrently as tasks of one event loop; within a turn the    *)
(* projections are sequential.  Projector and resolver are shared by all   *)
(* turns and hold no lock, so an action is what runs between two awaits.   *)
(* A Discord call that fails or is cancelled may have taken effect; every  *)
(* exception is swallowed and leaves a gap in the trail.                   *)
(***************************************************************************)
EXTENDS Naturals, FiniteSets

CONSTANTS
    Turns,        \* the concurrent turns (correlation ids)
    None,         \* the Python None
    MaxEvents,    \* bound: A2A events per turn
    MaxIds,       \* bound: channels, and categories, of the same name
    WithCategory  \* CALFKIT_A2A_CHANNEL_CATEGORY is set

ASSUME A2AAssumption ==
    /\ MaxEvents \in Nat
    /\ MaxIds \in Nat
    /\ None \notin 1..MaxIds
    /\ WithCategory \in BOOLEAN

VARIABLES
    \* Discord
    channels,   \* text channels with the configured name
    categories, \* categories with the configured name
    preexisting,\* the channel was there when the bridge started
    \* A2AChannelResolver
    unified,    \* _unified_channel_id
    category,   \* _category
    \* A2AProjector
    channelId,  \* _channel_id
    threadOf,   \* _threads: the turn's thread, as the channel it lives in
    \* the turns
    pc,         \* the await the turn is suspended in
    events,     \* events drained
    asked,      \* consults requested
    open,       \* A2ADispatcher._open
    closed,     \* history: entries of the trail that closed a consult
    faulted,    \* the run ended in a fault and its notes are being posted
    channel,    \* _emit's channel_id (None outside _emit)
    threads,    \* history: threads created for the turn
    strays,     \* history: those of them the bridge was not told of
    misrouted   \* history: a post named a thread of another channel

discord == <<channels, categories, preexisting>>
resolver == <<unified, category>>
projector == <<channelId, threadOf>>
dispatch == <<events, asked, open, closed, faulted>>
created == <<threads, strays>>
emit == <<channel, created, misrouted>>
vars == <<discord, resolver, projector, pc, dispatch, emit>>

(* Discord's ids for channels and categories, handed out in order; a        *)
(* message_agent call is known by the event that made it.                   *)
Ids == 1..MaxIds
Fresh(known) == { i \in Ids : i = Cardinality(known) + 1 }
Calls == 1..MaxEvents

Resolving == {"discover", "find_category", "make_category", "create"}
Emitting == {"anchor", "thread", "rest"}
Ended == {"completed", "failed", "cancelled"}

TypeOK ==
    /\ channels \subseteq Ids /\ categories \subseteq Ids
    /\ preexisting \in BOOLEAN
    /\ unified \in Ids \cup {None} /\ category \in Ids \cup {None}
    /\ channelId \in Ids \cup {None}
    /\ threadOf \in [Turns -> Ids \cup {None}]
    /\ pc \in [Turns -> Resolving \cup Emitting \cup Ended \cup {"drain"}]
    /\ events \in [Turns -> 0..MaxEvents]
    /\ asked \in [Turns -> SUBSET Calls] /\ open \in [Turns -> SUBSET Calls]
    /\ closed \in [Turns -> [Calls -> Nat]]
    /\ faulted \in [Turns -> BOOLEAN]
    /\ channel \in [Turns -> Ids \cup {None}]
    /\ threads \in [Turns -> Nat] /\ strays \in [Turns -> Nat]
    /\ misrouted \in [Turns -> BOOLEAN]

(* A fresh bridge, in a guild that may know the channel and the category.   *)
Init ==
    /\ channels \in {{}, Fresh({})}
    /\ categories \in {{}, Fresh({})}
    /\ preexisting = (channels # {})
    /\ unified = None /\ category = None
    /\ channelId = None /\ threadOf = [t \in Turns |-> None]
    /\ pc = [t \in Turns |-> "drain"]
    /\ events = [t \in Turns |-> 0]
    /\ asked = [t \in Turns |-> {}] /\ open = [t \in Turns |-> {}]
    /\ closed = [t \in Turns |-> [c \in Calls |-> 0]]
    /\ faulted = [t \in Turns |-> FALSE]
    /\ channel = [t \in Turns |-> None]
    /\ threads = [t \in Turns |-> 0] /\ strays = [t \in Turns |-> 0]
    /\ misrouted = [t \in Turns |-> FALSE]

Goto(t, l) == pc' = [pc EXCEPT ![t] = l]

-----------------------------------------------------------------------------
(* _emit, from its first await on.                                          *)

(* With the channel in hand: anchor a new thread, or post into the turn's.  *)
Anchored(t) == threadOf[t] # None

EnterChannel(t, c) ==
    /\ channel' = [channel EXCEPT ![t] = c]
    /\ Goto(t, IF Anchored(t) THEN "rest" ELSE "anchor")

(* project / project_fault up to the first await: the projector's channel,  *)
(* else the resolver's, else a search of the guild.                         *)
StartEmit(t) ==
    /\ \/ /\ channelId # None
          /\ EnterChannel(t, channelId) /\ UNCHANGED channelId
       \/ /\ channelId = None /\ unified # None
          /\ channelId' = unified /\ EnterChannel(t, unified)
       \/ /\ channelId = None /\ unified = None
          /\ Goto(t, "discover") /\ UNCHANGED <<channelId, channel>>
    /\ UNCHANGED <<discord, resolver, threadOf, created, misrouted>>

(* _await_terminal: the last dangling consult has been noted.               *)
NotesOver(t) == faulted[t] /\ open[t] = {}

(* project returns: to the drain, to the next note of a fault, or the turn  *)
(* is through.                                                              *)
Return(t) ==
    /\ Goto(t, IF NotesOver(t) THEN "failed" ELSE "drain")
    /\ channel' = [channel EXCEPT ![t] = None]

(* What a creation that failed, or was cancelled, leaves on Discord: nothing, *)
(* or what was asked for, and the bridge does not know of it.               *)
Unnoticed(t) ==
    /\ UNCHANGED preexisting
    /\ \/ UNCHANGED <<channels, categories, created>>
       \/ /\ pc[t] = "create"
          /\ \E c \in Fresh(channels) : channels' = channels \cup {c}
          /\ UNCHANGED <<categories, created>>
       \/ /\ pc[t] = "make_category"
          /\ \E c \in Fresh(categories) : categories' = categories \cup {c}
          /\ UNCHANGED <<channels, created>>
       \/ /\ pc[t] = "thread"
          /\ threads' = [threads EXCEPT ![t] = @ + 1]
          /\ strays' = [strays EXCEPT ![t] = @ + 1]
          /\ UNCHANGED <<channels, categories>>

(* The exception of a failed call is swallowed by project, and the trail    *)
(* has a gap.                                                               *)
Lose(t) ==
    /\ pc[t] \in Resolving \cup Emitting
    /\ Return(t)
    /\ Unnoticed(t)
    /\ UNCHANGED <<resolver, projector, dispatch, misrouted>>

(* resolve_unified_channel's last lines, and _channel's.                    *)
Resolved(t, c) ==
    /\ unified' = c /\ channelId' = c
    /\ EnterChannel(t, c)
    /\ UNCHANGED <<dispatch, threadOf, created, misrouted,
                   preexisting>>

(* _discover: the guild's channels as they are when Discord answers.        *)
Discover(t) ==
    /\ pc[t] = "discover"
    /\ \/ \E c \in channels :
            Resolved(t, c) /\ UNCHANGED <<channels, categories, category>>
       \/ /\ channels = {}
          /\ Goto(t, IF WithCategory /\ category = None THEN "find_category"
                                                        ELSE "create")
          /\ UNCHANGED <<discord, resolver, projector, dispatch, emit>>

(* _resolve_category: the search, and the creation on a miss.               *)
FindCategory(t) ==
    /\ pc[t] = "find_category"
    /\ \/ \E c \in categories : category' = c /\ Goto(t, "create")
       \/ categories = {} /\ Goto(t, "make_category") /\ UNCHANGED category
    /\ UNCHANGED <<discord, unified, projector, dispatch, emit>>

MakeCategory(t) ==
    /\ pc[t] = "make_category"
    /\ \E c \in Fresh(categories) :
        categories' = categories \cup {c} /\ category' = c
    /\ Goto(t, "create")
    /\ UNCHANGED <<channels, preexisting, unified, projector, dispatch, emit>>

(* _create's create_text_channel.                                           *)
CreateChannel(t) ==
    /\ pc[t] = "create"
    /\ \E c \in Fresh(channels) :
        channels' = channels \cup {c} /\ Resolved(t, c)
    /\ UNCHANGED <<categories, category>>

(* The first chunk, posted as the anchor of the turn's thread.              *)
PostAnchor(t) ==
    /\ pc[t] = "anchor"
    /\ Goto(t, "thread")
    /\ UNCHANGED <<discord, resolver, projector, dispatch, emit>>

(* Mutated form: the new thread is not remembered.                          *)
RememberThreadNot(t) == threadOf

(* Mutated form: the turn is stored in place of its thread.                 *)
RememberThreadByTurn(t) == [threadOf EXCEPT ![t] = t]

RememberThread(t) == [threadOf EXCEPT ![t] = channel[t]]

(* create_anchored_thread, and the rest of the chunks if there are any.     *)
CreateThread(t) ==
    /\ pc[t] = "thread"
    /\ threadOf' = RememberThread(t)
    /\ threads' = [threads EXCEPT ![t] = @ + 1]
    /\ \/ Return(t)
       \/ Goto(t, "rest") /\ UNCHANGED channel
    /\ UNCHANGED <<discord, resolver, channelId, dispatch, strays, misrouted>>

(* The chunks that go into the turn's thread; Discord refuses a thread that *)
(* is not of the channel the webhook lives in, and the projection is lost.  *)
PostRest(t) ==
    /\ pc[t] = "rest"
    /\ Return(t)
    /\ misrouted' = [misrouted EXCEPT
                       ![t] = @ \/ threadOf[t] \notin {None, channel[t]}]
    /\ UNCHANGED <<discord, resolver, projector, dispatch, created>>

-----------------------------------------------------------------------------
(* A2ADispatcher.classify on the turn's events.                            *)

Draining(t) == pc[t] = "drain" /\ ~faulted[t] /\ events[t] < MaxEvents

CountEvent(t) == events' = [events EXCEPT ![t] = @ + 1]

(* A message_agent tool call: the consult is open, its request projected.   *)
Request(t, c) ==
    /\ Draining(t) /\ c = events[t] + 1
    /\ CountEvent(t)
    /\ asked' = [asked EXCEPT ![t] = @ \cup {c}]
    /\ open' = [open EXCEPT ![t] = @ \cup {c}]
    /\ StartEmit(t)
    /\ UNCHANGED <<closed, faulted>>

(* Mutated form: a result leaves its consult open.                          *)
StillOpenKept(t, c) == open[t]

StillOpen(t, c) == open[t] \ {c}

(* The entry that closes a consult: a reply, a rejection or a fault note.   *)
Close(t, c) ==
    /\ open' = [open EXCEPT ![t] = StillOpen(t, c)]
    /\ closed' = [closed EXCEPT ![t][c] = @ + 1]
    /\ StartEmit(t)
    /\ UNCHANGED asked

(* The tool result of an open consult: the peer's reply, or a rejection.    *)
Answer(t, c) ==
    /\ Draining(t) /\ c \in open[t]
    /\ CountEvent(t)
    /\ Close(t, c)
    /\ UNCHANGED faulted

(* A handoff is a note of its own.                                          *)
Handoff(t) ==
    /\ Draining(t)
    /\ CountEvent(t)
    /\ StartEmit(t)
    /\ UNCHANGED <<asked, open, closed, faulted>>

(* The stream is over: a completed run leaves its open consults alone, a    *)
(* faulted one notes them one by one (dangling, project_fault).             *)
Complete(t) ==
    /\ pc[t] = "drain" /\ ~faulted[t]
    /\ Goto(t, "completed")
    /\ UNCHANGED <<discord, resolver, projector, dispatch, emit>>

Fault(t) ==
    /\ pc[t] = "drain" /\ ~faulted[t]
    /\ faulted' = [faulted EXCEPT ![t] = TRUE]
    /\ Goto(t, IF open[t] = {} THEN "failed" ELSE "drain")
    /\ UNCHANGED <<discord, resolver, projector, emit, events, asked, open,
                   closed>>

(* The list dangling returned, walked: open is what is left of it.          *)
FaultNote(t) ==
    /\ pc[t] = "drain" /\ faulted[t]
    /\ \E c \in open[t] : Close(t, c)
    /\ UNCHANGED <<events, faulted>>

(* drain_inflight cancels the turn at whatever it awaits; nothing is noted. *)
Cancel(t) ==
    /\ pc[t] \notin Ended
    /\ Goto(t, "cancelled")
    /\ channel' = [channel EXCEPT ![t] = None]
    /\ Unnoticed(t)
    /\ UNCHANGED <<resolver, projector, dispatch, misrouted>>

-----------------------------------------------------------------------------
Resolve(t) == Discover(t) \/ FindCategory(t) \/ MakeCategory(t)
              \/ CreateChannel(t)
Post(t) == PostAnchor(t) \/ CreateThread(t) \/ PostRest(t)
Classify(t) ==
    \/ \E c \in Calls : Request(t, c) \/ Answer(t, c)
    \/ Handoff(t)
Turn(t) == Resolve(t) \/ Post(t) \/ Lose(t) \/ Classify(t) \/ Complete(t)
           \/ Fault(t) \/ FaultNote(t)

Next == \E t \in Turns : Turn(t) \/ Cancel(t)

Spec == Init /\ [][Next]_vars

-----------------------------------------------------------------------------
(* The trail stays together: content of a turn goes into one thread, and    *)
(* Discord has no other of the turn but those whose creation the bridge was *)
(* never told of, however often anchor or thread had to be tried again; and *)
(* a guild that already has the channel keeps the one, so that no post goes *)
(* astray between two, however the turns interleave (a2a_project.py, _emit; *)
(* egress.py, resolve_unified_channel and _discover).                       *)
OneTrail ==
    /\ \A t \in Turns : threads[t] <= 1 + strays[t]
    /\ preexisting =>
         /\ Cardinality(channels) = 1
         /\ \A t \in Turns : ~misrouted[t]

(* What docs/a2a-threads.md says: one thread per human turn.  It is not so  *)
(* when the creation of a thread takes effect but fails (a2a_project.py,    *)
(* _emit): the next projection anchors another.                             *)
OneThreadPerTurn == \A t \in Turns : threads[t] <= 1

(* A consult that was requested is closed at most once, as a reply, a       *)
(* rejection or a fault note, and exactly once when the run has faulted and *)
(* the turn is over; also when Discord lost some of the entries             *)
(* (a2a_dispatch.py, classify and dangling; mention_handler.py,             *)
(* _await_terminal).                                                        *)
ClosedOnce ==
    \A t \in Turns : \A c \in asked[t] :
        /\ closed[t][c] <= 1
        /\ pc[t] = "failed" => closed[t][c] = 1

-----------------------------------------------------------------------------
(* What makes the two inductive.                                            *)

(* A turn that remembers no thread has none in Discord but strays, and makes *)
(* one only then, in the channel it has in hand.                            *)
ThreadIsKept ==
    \A t \in Turns :
      /\ threads[t] = strays[t] + (IF threadOf[t] = None THEN 0 ELSE 1)
      /\ pc[t] \in {"anchor", "thread"} => threadOf[t] = None
      /\ pc[t] \in Emitting => channel[t] # None

(* In a guild that has the channel nobody sets out to create one, and all   *)
(* that is remembered is that channel.                                      *)
OneChannel ==
    preexisting =>
      /\ channels = {1}
      /\ unified \in {None, 1} /\ channelId \in {None, 1}
      /\ \A t \in Turns :
           /\ pc[t] \notin {"find_category", "make_category", "create"}
           /\ threadOf[t] \in {None, 1} /\ channel[t] \in {None, 1}
           /\ ~misrouted[t]

(* A consult is open until it is closed, and a call is asked once.          *)
OpenUntilClosed ==
    \A t \in Turns :
      /\ asked[t] \subseteq 1..events[t] /\ open[t] \subseteq asked[t]
      /\ \A c \in Calls : closed[t][c] = IF c \in asked[t] \ open[t] THEN 1 ELSE 0
      /\ pc[t] = "failed" => open[t] = {}

IInv == TypeOK /\ ThreadIsKept /\ OneChannel /\ OpenUntilClosed

=============================================================================
