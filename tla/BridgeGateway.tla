--------------------------- MODULE BridgeGateway ---------------------------
(***************************************************************************)
(* The bridge process around its turns: DiscordIngressGateway, which gives *)
(* each @mention a handler task and drops redelivered messages, and        *)
(* main(), which takes the process down in an order.  A handler task is    *)
(* what MentionTurn models; here it is a unit that runs, may show a typing *)
(* indicator, and ends.                                                    *)
(*                                                                         *)
(* Names that every module has bear the component's, so that one module of *)
(* proofs can extend this one and others.                                  *)
(***************************************************************************)
EXTENDS Naturals, FiniteSets, Sequences, SequencesExt

CONSTANTS
    Messages,   \* Discord messages
    Mentions,   \* those that mention somebody
    Capacity,   \* _SEEN_MESSAGE_IDS_CAPACITY
    MaxRuns     \* bound: handler tasks per message

ASSUME GatewayAssumption ==
    /\ Mentions \subseteq Messages
    /\ Capacity \in Nat \ {0}
    /\ MaxRuns \in Nat

VARIABLES
    ready,      \* _message_normalizer is set
    seen,       \* _seen_message_ids, the oldest first
    sighted,    \* history: messages sighted since a message was last sighted
    runs,       \* handler tasks spawned for a message
    inflight,   \* _inflight
    cancelled,  \* handler tasks drain_inflight has cancelled and waits for
    swallowed,  \* of these, the handlers that have swallowed the cancellation
    typing,     \* typing tasks, by the handler that fired them
    phase       \* what main() awaits

ingress == <<ready, seen, sighted>>
tasks == <<runs, inflight, cancelled, swallowed, typing>>
gatewayVars == <<ingress, tasks, phase>>

Handlers == Mentions \X (1..MaxRuns)
Releasing == {"store", "client", "sender"}
Phases == {"up", "closing", "draining", "typing", "exited"} \cup Releasing

GatewayTypeOK ==
    /\ ready \in BOOLEAN
    /\ seen \in Seq(Messages) /\ Len(seen) <= Capacity /\ IsInjective(seen)
    /\ sighted \in [Messages -> SUBSET Messages]
    /\ runs \in [Mentions -> 0..MaxRuns]
    /\ inflight \subseteq Handlers
    /\ cancelled \subseteq Handlers
    /\ swallowed \subseteq inflight \cap cancelled
    /\ typing \subseteq Handlers
    /\ phase \in Phases

GatewayInit ==
    /\ ready = FALSE
    /\ seen = <<>>
    /\ sighted = [m \in Messages |-> {}]
    /\ runs = [m \in Mentions |-> 0]
    /\ inflight = {} /\ cancelled = {} /\ swallowed = {} /\ typing = {}
    /\ phase = "up"

-----------------------------------------------------------------------------
(* _on_ready; messages that came before it are dropped.                     *)
OnReady ==
    /\ phase = "up" /\ ~ready
    /\ ready' = TRUE
    /\ UNCHANGED <<seen, sighted, tasks, phase>>

(* Mutated form: nothing is evicted.                                        *)
EvictedNever(s) == s

Evicted(s) == IF Len(s) > Capacity THEN Tail(s) ELSE s

(* Mutated form: a sighting does not renew an id.                           *)
MovedToEndNot(s, m) == s

MovedToEnd(s, m) ==
    Append(RemoveAt(s, CHOOSE i \in DOMAIN s : s[i] = m), m)

(* _already_seen.                                                           *)
AlreadySeen(m) == Contains(seen, m)

Remember(m) ==
    /\ seen' = IF AlreadySeen(m) THEN MovedToEnd(seen, m)
                                 ELSE Evicted(Append(seen, m))
    /\ sighted' = [n \in Messages |->
                     IF n = m THEN {} ELSE sighted[n] \cup {m}]

(* _spawn_handle.                                                           *)
Spawn(m) ==
    /\ runs[m] < MaxRuns
    /\ runs' = [runs EXCEPT ![m] = @ + 1]
    /\ inflight' = inflight \cup {<<m, runs'[m]>>}
    /\ UNCHANGED <<cancelled, swallowed, typing>>

(* Mutated form: the gateway is closed after the handlers are drained.      *)
ListeningWhileDraining == phase \in {"up", "closing", "draining"}

(* The gateway hands out events until gateway.close() has returned.         *)
Listening == phase \in {"up", "closing"}

(* _on_message: Discord delivers a message, for the first time or again.    *)
(* An id is remembered before ambient messages, and those that cannot be    *)
(* normalised, are dropped.                                                 *)
OnMessage(m) ==
    /\ Listening /\ ready
    /\ Remember(m)
    /\ \/ ~AlreadySeen(m) /\ m \in Mentions /\ Spawn(m)
       \/ UNCHANGED tasks /\ (AlreadySeen(m) \/ m \notin Mentions)
    /\ UNCHANGED <<ready, phase>>

Unnormalizable(m) ==
    /\ Listening /\ ready /\ m \in Mentions /\ ~AlreadySeen(m)
    /\ Remember(m)
    /\ UNCHANGED <<ready, tasks, phase>>

-----------------------------------------------------------------------------
(* The handler tasks and the typing tasks they fire and forget.             *)

(* Cancelled while it awaits the debounce task it has cancelled itself, a   *)
(* handler suppresses its own cancellation as well and goes on; the drain   *)
(* cancels nobody a second time (MentionTurn, Cancel).                      *)
Swallows(h) ==
    /\ h \in (inflight \cap cancelled) \ swallowed
    /\ swallowed' = swallowed \cup {h}
    /\ UNCHANGED <<ingress, runs, inflight, cancelled, typing, phase>>

HandlerEnds(h) ==
    /\ h \in inflight
    /\ inflight' = inflight \ {h}
    /\ swallowed' = swallowed \ {h}
    /\ UNCHANGED <<ingress, runs, cancelled, typing, phase>>

FireTyping(h) ==
    /\ h \in inflight \ typing
    /\ typing' = typing \cup {h}
    /\ UNCHANGED <<ingress, runs, inflight, cancelled, swallowed, phase>>

TypingEnds(h) ==
    /\ h \in typing
    /\ typing' = typing \ {h}
    /\ UNCHANGED <<ingress, runs, inflight, cancelled, swallowed, phase>>

-----------------------------------------------------------------------------
(* main(): a signal or the end of the gateway task; then gateway.close(),   *)
(* drain_inflight and TypingNotifier.aclose, and then the contexts are left *)
(* inside out: transcript store, calfkit client, persona sender.            *)
Stop ==
    /\ phase = "up"
    /\ phase' = "closing"
    /\ UNCHANGED <<ingress, tasks>>

Closed ==
    /\ phase = "closing"
    /\ cancelled' = inflight
    /\ phase' = "draining"
    /\ UNCHANGED <<ingress, runs, inflight, swallowed, typing>>

(* drain_inflight's gather has all the tasks it listed.                     *)
Drained ==
    /\ phase = "draining" /\ inflight \cap cancelled = {}
    /\ phase' = "typing"
    /\ UNCHANGED <<ingress, tasks>>

(* Mutated form: aclose cancels the typing tasks without awaiting them.     *)
TypingIsOverAtOnce == TRUE

TypingIsOver == typing = {}

TypingClosed ==
    /\ phase = "typing" /\ TypingIsOver
    /\ phase' = "store"
    /\ UNCHANGED <<ingress, tasks>>

Release ==
    /\ phase \in Releasing
    /\ phase' = CASE phase = "store" -> "client"
                  [] phase = "client" -> "sender"
                  [] phase = "sender" -> "exited"
    /\ UNCHANGED <<ingress, tasks>>

-----------------------------------------------------------------------------
Main == Closed \/ Drained \/ TypingClosed \/ Release
Background ==
    \E h \in Handlers :
        Swallows(h) \/ HandlerEnds(h) \/ FireTyping(h) \/ TypingEnds(h)

GatewayNext ==
    \/ OnReady \/ Stop \/ Main \/ Background
    \/ \E m \in Messages : OnMessage(m) \/ Unnormalizable(m)

(* Mutated form: the drain awaits the handlers without cancelling them.     *)
ReachedNever(h) == FALSE

(* The drain's cancellation reaches the handler.                            *)
Reached(h) == h \in cancelled \ swallowed

(* What main() awaits returns, a handler that a cancellation reaches ends, a *)
(* typing call returns.  A handler that nobody cancelled, or that swallowed *)
(* its cancellation, may wait for an agent's run for ever.                  *)
GatewaySpec ==
    /\ GatewayInit /\ [][GatewayNext]_gatewayVars
    /\ WF_gatewayVars(Main)
    /\ \A h \in Handlers :
        /\ WF_gatewayVars(Reached(h) /\ HandlerEnds(h))
        /\ WF_gatewayVars(TypingEnds(h))

-----------------------------------------------------------------------------
(* A message is handled a second time only if Capacity other messages were  *)
(* sighted since it was last sighted itself: ambient messages, redeliveries *)
(* and evictions do not shorten the memory (gateway.py, _already_seen).     *)
HandledOnceWhileRemembered ==
    [][\A m \in Mentions :
        runs'[m] > runs[m] /\ runs[m] > 0 =>
            Cardinality(sighted[m]) >= Capacity]_gatewayVars

(* Nothing a handler or a typing task uses is released while one of them is *)
(* left, and none is started afterwards (gateway.py, _run's finally).       *)
ResourcesOutliveTasks ==
    /\ phase = "typing" => inflight = {}
    /\ phase \in Releasing \cup {"exited"} => inflight = {} /\ typing = {}

(* A shutdown ends, whatever the handlers it cancels were waiting for,      *)
(* unless one that swallowed its cancellation goes on for ever: gather has  *)
(* no timeout (gateway.py, drain_inflight and main; progress.py,            *)
(* _cancel_debounce).                                                       *)
ShutdownEnds ==
    []<>(swallowed = {}) => (phase = "closing" ~> phase = "exited")

-----------------------------------------------------------------------------
(* An id is forgotten after those before it, and what follows it was        *)
(* sighted since; so a message that was handled and is forgotten has seen   *)
(* Capacity others go by.                                                   *)
ForgottenLate ==
    /\ \A m \in Messages : IsFiniteSet(sighted[m])
    /\ \A i, j \in DOMAIN seen : i < j => seen[j] \in sighted[seen[i]]
    /\ \A m \in Mentions : runs[m] > 0 /\ ~AlreadySeen(m) =>
         Cardinality(sighted[m]) >= Capacity

(* The drain waits for all there is.                                        *)
DrainWaitsForAll == phase = "draining" => inflight \subseteq cancelled

(* The inductive invariant.                                                 *)
GatewayIInv == /\ GatewayTypeOK /\ ForgottenLate
               /\ DrainWaitsForAll /\ ResourcesOutliveTasks

=============================================================================
