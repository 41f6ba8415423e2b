-------------------------- MODULE PersonaWebhooks --------------------------
(***************************************************************************)
(* DiscordPersonaSender: every reply, notice, progress message and audit   *)
(* post goes through a webhook the bot owns, one per channel, found or     *)
(* created on first use under one lock for the whole sender and cached for *)
(* the life of the process.                                                *)
(*                                                                         *)
(* The tasks of the bridge call send, edit_message or delete_message; an   *)
(* action is what a task does between two awaits.  Any awaited Discord     *)
(* call may fail or be cancelled, and a creation that fails or is          *)
(* cancelled, or that is in flight when the process dies, may have taken   *)
(* effect.  An operator may delete a webhook; nobody but this sender       *)
(* creates webhooks of its name and owner.                                 *)
(***************************************************************************)
CONSTANTS
    Tasks,      \* tasks of the bridge that post
    Channels,   \* text channels of the guild
    HookIds,    \* bound: webhook ids Discord hands out
    None        \* the Python None

ASSUME WebhookAssumption ==
    /\ None \notin Tasks
    /\ None \notin Channels
    /\ None \notin HookIds

VARIABLES
    hooks,      \* the sender's own webhooks that exist on Discord
    issued,     \* ids Discord has handed out; none is used twice
    cache,      \* _webhooks
    lock,       \* holder of _discovery_lock
    pc,         \* the await a task is suspended in
    channel,    \* its channel_id
    hook        \* the webhook it calls

discord == <<hooks, issued>>
sender == <<cache, lock>>
task == <<pc, channel, hook>>
vars == <<discord, sender, task>>

Discovering == {"fetch", "list", "create"}
Awaits == Discovering \cup {"lock", "call"}

TypeOK ==
    /\ hooks \in [Channels -> SUBSET HookIds]
    /\ issued \in SUBSET HookIds
    /\ cache \in [Channels -> HookIds \cup {None}]
    /\ lock \in Tasks \cup {None}
    /\ pc \in [Tasks -> Awaits \cup {"idle"}]
    /\ channel \in [Tasks -> Channels \cup {None}]
    /\ hook \in [Tasks -> HookIds \cup {None}]
    /\ \A t \in Tasks : pc[t] = "call" => hook[t] \in HookIds

(* The webhooks an earlier process created are still there.                 *)
Init ==
    /\ hooks \in [Channels -> SUBSET HookIds]
    /\ \A c \in Channels : \A h, g \in hooks[c] : h = g
    /\ \A c, d \in Channels : hooks[c] \cap hooks[d] # {} => c = d
    /\ issued = UNION { hooks[c] : c \in Channels }
    /\ cache = [c \in Channels |-> None]
    /\ lock = None
    /\ pc = [t \in Tasks |-> "idle"]
    /\ channel = [t \in Tasks |-> None]
    /\ hook = [t \in Tasks |-> None]

-----------------------------------------------------------------------------
(* The call is over: returned, raised or cancelled.                         *)
Return(t) ==
    /\ pc' = [pc EXCEPT ![t] = "idle"]
    /\ channel' = [channel EXCEPT ![t] = None]
    /\ hook' = [hook EXCEPT ![t] = None]

(* The webhook is known: call it.                                           *)
Call(t, h) ==
    /\ pc' = [pc EXCEPT ![t] = "call"]
    /\ hook' = [hook EXCEPT ![t] = h]

(* Mutated form: the discovery of one channel is not serialised.            *)
LockFreeAlways == TRUE

LockFree == lock = None

(* asyncio.Lock serves in order: nobody overtakes a task that is waiting.   *)
NobodyWaits == \A t \in Tasks : pc[t] # "lock"

(* send, edit_message or delete_message on a channel, up to its first await.*)
Begin(t, c) ==
    /\ pc[t] = "idle"
    /\ channel' = [channel EXCEPT ![t] = c]
    /\ \/ /\ cache[c] # None
          /\ Call(t, cache[c])
          /\ UNCHANGED lock
       \/ /\ cache[c] = None
          /\ LockFree /\ NobodyWaits
          /\ lock' = t
          /\ pc' = [pc EXCEPT ![t] = "fetch"]
          /\ UNCHANGED hook
       \/ /\ cache[c] = None
          /\ ~(LockFree /\ NobodyWaits)
          /\ pc' = [pc EXCEPT ![t] = "lock"]
          /\ UNCHANGED <<lock, hook>>
    /\ UNCHANGED <<discord, cache>>

(* The second look at the cache.                                            *)
UnderLock(c) == cache[c]

Acquire(t) ==
    /\ pc[t] = "lock" /\ LockFree
    /\ \/ /\ UnderLock(channel[t]) # None
          /\ Call(t, UnderLock(channel[t]))
          /\ UNCHANGED lock
       \/ /\ UnderLock(channel[t]) = None
          /\ lock' = t
          /\ pc' = [pc EXCEPT ![t] = "fetch"]
          /\ UNCHANGED hook
    /\ UNCHANGED <<discord, cache, channel>>

(* _fetch_text_channel.                                                     *)
Fetch(t) ==
    /\ pc[t] = "fetch"
    /\ pc' = [pc EXCEPT ![t] = "list"]
    /\ UNCHANGED <<discord, sender, channel, hook>>

(* The hook is cached, the lock released and the hook called, all at once.  *)
Found(t, h) ==
    /\ cache' = [cache EXCEPT ![channel[t]] = h]
    /\ lock' = None
    /\ Call(t, h)
    /\ UNCHANGED channel

(* Mutated form: a search without a result is taken for a webhook.          *)
OwnHooksOrNone(c) == IF hooks[c] = {} THEN {None} ELSE hooks[c]

(* The channel's webhooks of our name and owner.                            *)
OwnHooks(c) == hooks[c]

List(t) ==
    /\ pc[t] = "list"
    /\ \/ \E h \in OwnHooks(channel[t]) : Found(t, h)
       \/ /\ OwnHooks(channel[t]) = {}
          /\ pc' = [pc EXCEPT ![t] = "create"]
          /\ UNCHANGED <<sender, channel, hook>>
    /\ UNCHANGED discord

(* Discord creates webhook h in channel c.                                  *)
NewHook(c, h) ==
    /\ h \notin issued
    /\ issued' = issued \cup {h}
    /\ hooks' = [hooks EXCEPT ![c] = @ \cup {h}]

(* The creation took effect, though nobody was told of it.                  *)
Unnoticed(t) ==
    \/ UNCHANGED discord
    \/ pc[t] = "create" /\ \E h \in HookIds : NewHook(channel[t], h)

Create(t) ==
    /\ pc[t] = "create"
    /\ \E h \in HookIds : NewHook(channel[t], h) /\ Found(t, h)

(* Mutated form: only the orderly paths release the lock.                   *)
LockAfterRaiseKept(t) == lock

(* Leaving "async with" by an exception or a cancellation releases the lock.*)
LockAfterRaise(t) == IF lock = t THEN None ELSE lock

(* The awaited call raises, or the task is cancelled at any await.          *)
Raise(t) ==
    /\ pc[t] # "idle"
    /\ Return(t)
    /\ lock' = LockAfterRaise(t)
    /\ Unnoticed(t)
    /\ UNCHANGED cache

(* The webhook call returns: Discord knows the webhook.                     *)
Posted(t) ==
    /\ pc[t] = "call" /\ hook[t] \in hooks[channel[t]]
    /\ Return(t)
    /\ UNCHANGED <<discord, sender>>

(* An operator deletes a webhook of ours.                                   *)
DeleteHook(c) ==
    /\ \E h \in hooks[c] : hooks' = [hooks EXCEPT ![c] = @ \ {h}]
    /\ UNCHANGED <<issued, sender, task>>

(* The process dies, or closes its sender, and starts again.                *)
Restart ==
    /\ cache' = [c \in Channels |-> None]
    /\ lock' = None
    /\ pc' = [t \in Tasks |-> "idle"]
    /\ channel' = [t \in Tasks |-> None]
    /\ hook' = [t \in Tasks |-> None]
    /\ \E t \in Tasks : Unnoticed(t)

-----------------------------------------------------------------------------
Step(t) == Fetch(t) \/ List(t) \/ Create(t) \/ Posted(t) \/ Raise(t)

Next ==
    \/ \E t \in Tasks, c \in Channels : Begin(t, c)
    \/ \E t \in Tasks : Acquire(t) \/ Step(t)
    \/ \E c \in Channels : DeleteHook(c)
    \/ Restart

(* Every awaited call of Discord returns or raises; asyncio.Lock wakes its  *)
(* waiters in order, so a waiter that can have the lock again and again     *)
(* gets it.  Nobody has to cancel a task that waits for the lock.           *)
Spec ==
    /\ Init /\ [][Next]_vars
    /\ \A t \in Tasks :
        /\ WF_vars(pc[t] # "lock" /\ Step(t))
        /\ SF_vars(Acquire(t))

-----------------------------------------------------------------------------
(* A channel never has two persona webhooks, though every task may find the *)
(* cache empty, a creation may take effect and be reported as failed, and   *)
(* the process may die at any point (persona.py, _get_or_create_webhook).   *)
OneWebhookPerChannel == \A c \in Channels : \A h, g \in hooks[c] : h = g

(* The lock is held exactly while its holder is discovering, so no          *)
(* exception or cancellation leaves it behind (persona.py, the async with   *)
(* in _get_or_create_webhook).                                              *)
LockMatchesHolder ==
    \A t \in Tasks : lock = t <=> pc[t] \in Discovering

(* The webhook a task is calling is the one owns_webhook recognises for the *)
(* channel, so that the history fetcher will read the post as an agent's    *)
(* (persona.py, owns_webhook and the second look under the lock).           *)
PostsAreRecognised ==
    \A t \in Tasks : pc[t] = "call" => hook[t] = cache[channel[t]]

(* No call is held up for good: neither by the discovery of another channel *)
(* nor by one that failed or was cancelled.                                 *)
CallsReturn == \A t \in Tasks : pc[t] # "idle" ~> pc[t] = "idle"

-----------------------------------------------------------------------------
(* A task at work has a channel; one about to create a webhook holds the    *)
(* lock on a channel that has none.                                         *)
CreatesOnlyIfNone ==
    \A t \in Tasks :
        /\ pc[t] # "idle" => channel[t] \in Channels
        /\ pc[t] \in Discovering => cache[channel[t]] = None
        /\ pc[t] = "create" => hooks[channel[t]] = {}

(* The inductive invariant.                                                 *)
IInv ==
    /\ TypeOK
    /\ LockMatchesHolder
    /\ CreatesOnlyIfNone
    /\ OneWebhookPerChannel
    /\ PostsAreRecognised

=============================================================================
