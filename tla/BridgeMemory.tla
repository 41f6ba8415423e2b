----------------------------- MODULE BridgeMemory -----------------------------
(***************************************************************************)
(* What the bridge remembers, and the tasks of its event loop that read    *)
(* and write it: mention handlers fetch a channel's history (single        *)
(* flight, cached) and join it with stored transcripts; replies are posted *)
(* and their transcripts stored; operators set and clear an agent's effort *)
(* and clear a channel; users ask for the steps of a reply.                *)
(*                                                                         *)
(* The transcript store is one SQLite connection whose statements a thread *)
(* runs in the order they come.  A statement that changes a table is seen  *)
(* by later reads and reaches the disk with the next commit of anybody.    *)
(* The process may die and is started again.                               *)
(***************************************************************************)
EXTENDS ChannelHistory, SequencesExt

CONSTANTS
    Tasks,        \* tasks of the event loop
    Tiers,        \* effort tiers
    NoTier,       \* no override
    NoTask,
    MaxOld,       \* bound: messages of the channel at the start
    MaxPosts,     \* bound: messages up to which more are posted
    MaxRestarts   \* bound

ASSUME MemoryAssumption ==
    /\ IsFiniteSet(Tasks)
    /\ NoTier \notin Tiers
    /\ NoTask \notin Tasks
    /\ MaxOld \in Nat
    /\ MaxPosts \in Nat
    /\ MaxRestarts \in Nat

VARIABLES
    kind,     \* the kind of the channel
    chan,     \* its messages
    toggles,  \* replies that carry the button for their steps
    enabled,  \* the transcript store could be opened
    table,    \* what a statement sees: transcript rows and the override
    disk,     \* what a restart finds
    effort,   \* EffortOverrides._map, of one agent
    faithful, \* no hydration and no commit of this process has failed
    queue,    \* tasks whose statement waits, the first to run first
    cache,    \* histories kept for a while, by anchor
    task,     \* the tasks
    restarts

discord == <<kind, chan, toggles>>
store == <<enabled, table, disk, effort, faithful, queue>>
vars == <<discord, store, cache, task, restarts>>

(* A mapping with one more entry, or a new value for an old key.            *)
Put(f, key, value) ==
    [k \in DOMAIN f \cup {key} |-> IF k = key THEN value ELSE f[k]]

(* A row is there and can be read, or it is corrupt.                        *)
RowStates == {"good", "corrupt"}
GoodRows(db) == {id \in DOMAIN db.rows : db.rows[id] = "good"}

Idle == [op |-> "none", pc |-> "idle", at |-> 0, lead |-> NoTask,
         broken |-> FALSE, ids |-> <<>>, out |-> <<>>, tier |-> NoTier,
         shown |-> "nothing"]

Fetching == {"history", "starter"}
Ended == {"done", "failed", "cancelled", "unawaited"}
Pcs == {"idle", "follow", "join", "execute", "commit", "defer", "read",
        "followup"} \cup Fetching \cup Ended

Shown == {"nothing", "steps", "unavailable", "unloaded", "unrendered"}

TaskRecords ==
    [op: {"none", "mention", "reply", "effort", "click"}, pc: Pcs,
     at: Ids(chan), lead: Tasks \cup {NoTask}, broken: BOOLEAN,
     ids: Seq(Ids(chan)), out: Seq(ModelEntries(chan)),
     tier: Tiers \cup {NoTier}, shown: Shown]

TypeOK ==
    /\ kind \in ChannelKinds
    /\ chan \in Seq(Posts) /\ (Len(chan) <= MaxOld \/ Len(chan) <= MaxPosts)
    /\ toggles \subseteq {id \in DOMAIN chan : chan[id] = "reply"}
    /\ enabled \in BOOLEAN /\ faithful \in BOOLEAN
    /\ \A db \in {table, disk} :
         /\ DOMAIN db = {"rows", "tier"}
         /\ DOMAIN db.rows \subseteq DOMAIN chan
         /\ \A id \in DOMAIN db.rows : db.rows[id] \in RowStates
         /\ db.tier \in Tiers \cup {NoTier}
    /\ effort \in Tiers \cup {NoTier}
    /\ queue \in Seq(Tasks) /\ IsInjective(queue)
    /\ DOMAIN cache \subseteq Ids(chan)
    /\ \A b \in DOMAIN cache : cache[b] \in Seq(Ids(chan))
    /\ task \in [Tasks -> TaskRecords]
    /\ restarts \in 0..MaxRestarts

(* Any channel, and of the replies in it some that have a transcript.       *)
Init ==
    /\ kind \in ChannelKinds
    /\ chan \in UNION {[1..n -> Posts] : n \in 0..MaxOld}
    /\ toggles = {id \in DOMAIN chan : chan[id] = "reply"}
    /\ enabled \in BOOLEAN
    /\ \E rows \in UNION {[R -> RowStates] : R \in SUBSET toggles} :
         table = [rows |-> rows, tier |-> NoTier]
    /\ disk = table
    /\ effort = NoTier /\ faithful = TRUE
    /\ queue = <<>>
    /\ cache = <<>>
    /\ task = [t \in Tasks |-> Idle]
    /\ restarts = 0

-----------------------------------------------------------------------------
(* Discord: a human posts; the owner's /clear posts the marker, or fails    *)
(* with or without having posted it.                                        *)
HumanPosts(p) ==
    /\ Len(chan) < MaxPosts
    /\ p \in {"words", "blank", "spoof"}
    /\ chan' = Append(chan, p)
    /\ UNCHANGED <<kind, toggles, store, cache, task, restarts>>

Clear ==
    /\ Len(chan) < MaxPosts
    /\ chan' = Append(chan, "marker")
    /\ UNCHANGED <<kind, toggles, store, cache, task, restarts>>

-----------------------------------------------------------------------------
(* A mention: ChannelHistoryFetcher.fetch, then the join with the store.    *)

Begin(t, r) == task' = [task EXCEPT ![t] = r]

(* A task that is over, with nothing to show for it.                        *)
Over(r, how) == [Idle EXCEPT !.op = r.op, !.pc = how]

(* A task with its records: the join is skipped when there is no reply      *)
(* among them, and costs no await when the store is the null one.           *)
Joins(ids) == enabled /\ AgentIds(chan, ids) # {}

WithRecords(r, ids) ==
    IF Joins(ids)
    THEN [Idle EXCEPT !.op = r.op, !.at = r.at, !.pc = "join", !.ids = ids]
    ELSE [Idle EXCEPT !.op = r.op, !.at = r.at, !.pc = "done", !.ids = ids,
                      !.out = ModelHistory(chan, ids, {})]

Followers(t) == {f \in Tasks : task[f].pc = "follow" /\ task[f].lead = t}

(* The leader and its followers have the records now.  The leader's join    *)
(* comes first.                                                             *)
HandOver(t, ids) ==
    /\ task' = [u \in Tasks |-> IF u \in {t} \cup Followers(t)
                                THEN WithRecords(task[u], ids) ELSE task[u]]
    /\ \E others \in SetToSeqs(Followers(t)) :
         queue' = IF Joins(ids) THEN queue \o <<t>> \o others ELSE queue

(* A handler asks for the history before the message it answers; the same   *)
(* message may be handled twice.  A follower of a broken future is          *)
(* cancelled on the spot.                                                   *)
Triggers == {id \in DOMAIN chan : chan[id] \in {"words", "spoof"}}
              \cup (IF kind = "task" THEN {Starter} ELSE {})

Leaders(b) == {l \in Tasks : /\ task[l].op = "mention" /\ task[l].at = b
                             /\ task[l].pc \in Fetching}

MentionHit(t, b) ==
    /\ task[t].pc = "idle" /\ b \in Triggers \cap DOMAIN cache
    /\ LET r == WithRecords([Idle EXCEPT !.op = "mention", !.at = b], cache[b])
       IN  /\ Begin(t, r)
           /\ queue' = IF r.pc = "join" THEN Append(queue, t) ELSE queue
    /\ UNCHANGED <<discord, enabled, table, disk, effort, faithful, cache,
                   restarts>>

MentionFollows(t, b) ==
    /\ task[t].pc = "idle" /\ b \in Triggers \ DOMAIN cache
    /\ \E l \in Leaders(b) :
         Begin(t, [Idle EXCEPT !.op = "mention", !.at = b, !.lead = l,
                     !.pc = IF task[l].broken THEN "unawaited" ELSE "follow"])
    /\ UNCHANGED <<discord, store, cache, restarts>>

MentionLeads(t, b) ==
    /\ task[t].pc = "idle" /\ b \in Triggers \ DOMAIN cache
    /\ Leaders(b) = {}
    /\ Begin(t, [Idle EXCEPT !.op = "mention", !.at = b, !.pc = "history"])
    /\ UNCHANGED <<discord, store, cache, restarts>>

(* The fetch ends with these records.  They are kept unless it raised.      *)
FetchEnds(t, ids, kept) ==
    /\ cache' = IF kept THEN Put(cache, task[t].at, ids) ELSE cache
    /\ HandOver(t, ids)
    /\ UNCHANGED <<discord, enabled, table, disk, effort, faithful, restarts>>

(* _do_fetch: the channel and its messages are read; in a thread the        *)
(* starter is looked for next.                                              *)
HistoryRead(t) ==
    /\ task[t].pc = "history"
    /\ LET ids == Window(chan, task[t].at)
       IN  IF kind = "channel"
           THEN FetchEnds(t, Records(chan, ids, {}, task[t].at), TRUE)
           ELSE /\ Begin(t, [task[t] EXCEPT !.pc = "starter", !.ids = ids])
                /\ UNCHANGED <<discord, store, cache, restarts>>

(* Discord refuses (an empty history, kept), or the transport fails.        *)
HistoryFails(t) ==
    /\ task[t].pc = "history"
    /\ \E kept \in BOOLEAN : FetchEnds(t, <<>>, kept)

(* The starter is found, or it is gone, unreachable or forbidden.           *)
StarterRead(t) ==
    /\ task[t].pc = "starter"
    /\ \E found \in {{}, StartersOf(kind)} :
         FetchEnds(t, Records(chan, task[t].ids, found, task[t].at), TRUE)

(* An error of the transport loses the whole history.                       *)
StarterFails(t) ==
    /\ task[t].pc = "starter"
    /\ FetchEnds(t, <<>>, TRUE)

(* Mutated form: a cancelled leader leaves the future as it is.             *)
ServedOnCancelNobody(t) == {}

(* Those a cancelled leader hands an empty history.                         *)
ServedOnCancel(t) == Followers(t)

(* The task is cancelled at its await.  A follower awaits the shared future *)
(* itself, and its cancellation is that of the future.                      *)
CancelLeader(t) ==
    /\ task[t].pc \in Fetching
    /\ task' = [u \in Tasks |->
                  IF u = t THEN Over(task[u], "cancelled")
                  ELSE IF u \in ServedOnCancel(t) THEN WithRecords(task[u], <<>>)
                  ELSE task[u]]
    /\ UNCHANGED <<discord, store, cache, restarts>>

CancelFollower(t) ==
    /\ task[t].pc = "follow"
    /\ LET l == task[t].lead
       IN  task' = [u \in Tasks |->
                      IF u = t THEN Over(task[u], "cancelled")
                      ELSE IF u = l THEN [task[u] EXCEPT !.broken = TRUE]
                      ELSE IF u \in Followers(l)
                           THEN Over(task[u], "unawaited")
                      ELSE task[u]]
    /\ UNCHANGED <<discord, store, cache, restarts>>

CancelJoin(t) ==
    /\ task[t].pc = "join"
    /\ Begin(t, Over(task[t], "cancelled"))
    /\ \E i \in DOMAIN queue : queue[i] = t /\ queue' = RemoveAt(queue, i)
    /\ UNCHANGED <<discord, enabled, table, disk, effort, faithful, cache,
                   restarts>>

(* The time to live of a kept history is over, or it is evicted.            *)
Expire(b) ==
    /\ b \in DOMAIN cache
    /\ cache' = [c \in DOMAIN cache \ {b} |-> cache[c]]
    /\ UNCHANGED <<discord, store, task, restarts>>

-----------------------------------------------------------------------------
(* The tasks that write.                                                    *)

(* A reply with steps is posted, with a button only if the store is there.  *)
Reply(t) ==
    /\ task[t].pc = "idle" /\ Len(chan) < MaxPosts
    /\ chan' = Append(chan, "reply")
    /\ toggles' = IF enabled THEN toggles \cup {Len(chan')} ELSE toggles
    /\ Begin(t, [Idle EXCEPT !.op = "reply", !.at = Len(chan'),
                   !.pc = IF enabled THEN "execute" ELSE "done"])
    /\ queue' = IF enabled THEN Append(queue, t) ELSE queue
    /\ UNCHANGED <<kind, enabled, table, disk, effort, faithful, cache,
                   restarts>>

(* Mutated form: the map is changed before the table.                       *)
EffortOnCommandFirst(tier) == tier

(* The map while the command waits for the store.                           *)
EffortOnCommand(tier) == effort

(* /thinking-effort by the owner; tier none clears.  The null store takes   *)
(* nothing and the map is changed at once.                                  *)
Effort(t, tier) ==
    /\ task[t].pc = "idle"
    /\ Begin(t, [Idle EXCEPT !.op = "effort", !.tier = tier,
                   !.pc = IF enabled THEN "execute" ELSE "done"])
    /\ queue' = IF enabled THEN Append(queue, t) ELSE queue
    /\ effort' = IF enabled THEN EffortOnCommand(tier) ELSE tier
    /\ UNCHANGED <<discord, enabled, table, disk, faithful, cache, restarts>>

(* The statement at the head of the queue is run, and its task goes on:     *)
(* after the change of a table the task commits.                            *)
Served(t) == queue # <<>> /\ t = Head(queue)

(* Mutated form: the row is filed under the id that comes next.             *)
ChangedNext(t) ==
    IF task[t].op = "reply"
    THEN [table EXCEPT !.rows = Put(@, task[t].at + 1, "good")]
    ELSE [table EXCEPT !.tier = task[t].tier]

(* A row is filed under the id of its reply.                                *)
Changed(t) ==
    IF task[t].op = "reply"
    THEN [table EXCEPT !.rows = Put(@, task[t].at, "good")]
    ELSE [table EXCEPT !.tier = task[t].tier]

Execute(t) ==
    /\ Served(t) /\ task[t].pc = "execute"
    /\ table' = Changed(t)
    /\ Begin(t, [task[t] EXCEPT !.pc = "commit"])
    /\ queue' = Append(Tail(queue), t)
    /\ UNCHANGED <<discord, enabled, disk, effort, faithful, cache, restarts>>

ExecuteFails(t) ==
    /\ Served(t) /\ task[t].pc = "execute"
    /\ Begin(t, Over(task[t], "failed"))
    /\ queue' = Tail(queue)
    /\ UNCHANGED <<discord, enabled, table, disk, effort, faithful, cache,
                   restarts>>

Commit(t) ==
    /\ Served(t) /\ task[t].pc = "commit"
    /\ disk' = table
    /\ effort' = IF task[t].op = "effort" THEN task[t].tier ELSE effort
    /\ Begin(t, Over(task[t], "done"))
    /\ queue' = Tail(queue)
    /\ UNCHANGED <<discord, enabled, table, faithful, cache, restarts>>

(* A commit that fails leaves the transaction open, for the next commit, or *)
(* SQLite has rolled it back.                                               *)
CommitFails(t) ==
    /\ Served(t) /\ task[t].pc = "commit"
    /\ table' \in {table, disk}
    /\ faithful' = FALSE
    /\ Begin(t, Over(task[t], "failed"))
    /\ queue' = Tail(queue)
    /\ UNCHANGED <<discord, enabled, disk, effort, cache, restarts>>

(* The join of a mention: rows that cannot be read are passed over.         *)
Join(t) ==
    /\ Served(t) /\ task[t].pc = "join"
    /\ Begin(t, [task[t] EXCEPT !.pc = "done",
                   !.out = ModelHistory(chan, task[t].ids, GoodRows(table))])
    /\ queue' = Tail(queue)
    /\ UNCHANGED <<discord, enabled, table, disk, effort, faithful, cache,
                   restarts>>

JoinFails(t) ==
    /\ Served(t) /\ task[t].pc = "join"
    /\ Begin(t, Over(task[t], "failed"))
    /\ queue' = Tail(queue)
    /\ UNCHANGED <<discord, enabled, table, disk, effort, faithful, cache,
                   restarts>>

-----------------------------------------------------------------------------
(* A click on a reply's button.  The defer comes first; if it fails, Discord *)
(* shows nothing that waits.                                                *)
Click(t, id) ==
    /\ task[t].pc = "idle" /\ id \in toggles
    /\ Begin(t, [Idle EXCEPT !.op = "click", !.at = id, !.pc = "defer"])
    /\ UNCHANGED <<discord, store, cache, restarts>>

DeferFails(t) ==
    /\ task[t].pc = "defer"
    /\ Begin(t, Over(task[t], "failed"))
    /\ UNCHANGED <<discord, store, cache, restarts>>

Answer(r, what) == [r EXCEPT !.pc = "followup", !.shown = what]

Defer(t) ==
    /\ task[t].pc = "defer"
    /\ Begin(t, IF enabled THEN [task[t] EXCEPT !.pc = "read"]
                           ELSE Answer(task[t], "unavailable"))
    /\ queue' = IF enabled THEN Append(queue, t) ELSE queue
    /\ UNCHANGED <<discord, enabled, table, disk, effort, faithful, cache,
                   restarts>>

StepsOf(id) == IF id \notin DOMAIN table.rows THEN "unavailable"
               ELSE IF table.rows[id] = "good" THEN "steps" ELSE "unrendered"

Read(t) ==
    /\ Served(t) /\ task[t].pc = "read"
    /\ Begin(t, Answer(task[t], StepsOf(task[t].at)))
    /\ queue' = Tail(queue)
    /\ UNCHANGED <<discord, enabled, table, disk, effort, faithful, cache,
                   restarts>>

AfterReadError(r) == Answer(r, "unloaded")

ReadFails(t) ==
    /\ Served(t) /\ task[t].pc = "read"
    /\ Begin(t, AfterReadError(task[t]))
    /\ queue' = Tail(queue)
    /\ UNCHANGED <<discord, enabled, table, disk, effort, faithful, cache,
                   restarts>>

(* The followup is sent; that it may fail is swallowed.                     *)
FollowUp(t) ==
    /\ task[t].pc = "followup"
    /\ Begin(t, [task[t] EXCEPT !.pc = "done"])
    /\ UNCHANGED <<discord, store, cache, restarts>>

-----------------------------------------------------------------------------
(* The process dies and starts again: it opens the store or does without,   *)
(* prunes the oldest rows and hydrates the map, all if it can.              *)
Pruned(rows, old) == [id \in {i \in DOMAIN rows : i > old} |-> rows[id]]

Hydrated(found) == IF found THEN disk'.tier ELSE NoTier

OpensStore ==
    \E old \in 0..Len(chan), found \in BOOLEAN :
      /\ disk' = [disk EXCEPT !.rows = Pruned(@, old)]
      /\ effort' = Hydrated(found)
      /\ faithful' = found

(* The null store has no rows, takes none and knows no tier.                *)
GoesWithoutStore == UNCHANGED disk /\ effort' = NoTier /\ faithful' = TRUE

Restart ==
    /\ restarts < MaxRestarts
    /\ restarts' = restarts + 1
    /\ task' = [t \in Tasks |-> Idle]
    /\ queue' = <<>> /\ cache' = <<>>
    /\ enabled' \in BOOLEAN
    /\ IF enabled' THEN OpensStore ELSE GoesWithoutStore
    /\ table' = disk'
    /\ UNCHANGED discord

-----------------------------------------------------------------------------
Mention(t) == \E b \in Ids(chan) :
                MentionHit(t, b) \/ MentionFollows(t, b) \/ MentionLeads(t, b)

Fetch(t) == HistoryRead(t) \/ HistoryFails(t) \/ StarterRead(t)
            \/ StarterFails(t)

Cancel(t) == CancelLeader(t) \/ CancelFollower(t) \/ CancelJoin(t)

Statement(t) == Execute(t) \/ ExecuteFails(t) \/ Commit(t) \/ CommitFails(t)
                \/ Join(t) \/ JoinFails(t) \/ Read(t) \/ ReadFails(t)

Clicked(t) == (\E id \in toggles : Click(t, id))
              \/ Defer(t) \/ DeferFails(t) \/ FollowUp(t)

Next ==
    \/ \E p \in Posts : HumanPosts(p)
    \/ Clear
    \/ \E b \in DOMAIN cache : Expire(b)
    \/ \E t \in Tasks : \/ Mention(t) \/ Fetch(t) \/ Cancel(t) \/ Reply(t)
                        \/ \E tier \in Tiers \cup {NoTier} : Effort(t, tier)
                        \/ Statement(t) \/ Clicked(t)
    \/ Restart

Spec == Init /\ [][Next]_vars

-----------------------------------------------------------------------------
HasRecords(t) == task[t].op = "mention" /\ task[t].pc \in {"join", "done"}

(* No message from before a /clear comes back: an agent's records start     *)
(* after the last marker of the messages Discord returned, the starter of   *)
(* the thread included (history.py, _do_fetch).                             *)
ClearBoundsHistory ==
    \A t \in Tasks : HasRecords(t) =>
      \A m \in Elements(Window(chan, task[t].at)) :
        IsClearMarker(chan, m) => \A id \in Elements(task[t].ids) : id > m

(* A provider takes what is built: it starts with something a human said,   *)
(* and a replayed return follows its call and precedes its reply            *)
(* (history.py, build_message_history).                                     *)
ReplayFits ==
    \A t \in Tasks : HasRecords(t) =>
      /\ task[t].out # <<>> => task[t].out[1].kind = "request"
      /\ ReturnsAreFramed(task[t].out)

(* The fetch a follower waits for is under way, and its future is whole.    *)
WaitsForFetch(f) ==
    /\ task[f].pc = "follow"
    /\ task[task[f].lead].pc \in Fetching
    /\ task[task[f].lead].at = task[f].at
    /\ ~task[task[f].lead].broken

(* A follower waits on for a fetch that is under way, or it gets what its   *)
(* leader gets, also when its leader fails or is cancelled.  Nothing else   *)
(* happens to it but that a follower of the same future, itself or a        *)
(* fellow, is cancelled, or that the process dies (history.py, fetch).      *)
FollowersAreServed ==
    [][\A f \in Tasks : task[f].pc = "follow" /\ restarts' = restarts =>
         \/ task'[f] = task[f] /\ WaitsForFetch(f)'
         \/ /\ task'[f].pc \in {"join", "done"}
            /\ task'[f].ids = task'[task[f].lead].ids
         \/ \E g \in Followers(task[f].lead) : task'[g].pc = "cancelled"]_vars

(* What the comments in history.py say of it: one fetch serves all its      *)
(* callers, and nobody sees a cancellation that is another's.  It is not so *)
(* when a follower is cancelled, whose await is of the shared future itself.*)
OneFetchServesAll == \A t \in Tasks : task[t].pc # "unawaited"

(* The map agrees with the table and with what a restart finds, whatever    *)
(* commands overlapped and whichever statements failed; but a commit or a   *)
(* hydration that fails is never made up for (overrides.py).                *)
Settled == \A t \in Tasks : task[t].op = "effort" =>
             task[t].pc \notin {"execute", "commit"}

MapMatchesTable ==
    enabled /\ faithful /\ Settled => effort = table.tier /\ effort = disk.tier

-----------------------------------------------------------------------------
(* What makes the invariants inductive.                                     *)

(* A task is at the awaits of what it does.                                 *)
KeepsToItsOp ==
    \A t \in Tasks :
      /\ task[t].pc \in Fetching \cup {"follow", "join"} => task[t].op = "mention"
      /\ task[t].pc \in {"execute", "commit"} => task[t].op \in {"reply", "effort"}
      /\ task[t].pc \in {"execute", "commit"} /\ task[t].op = "reply"
           => task[t].at \in DOMAIN chan
      /\ task[t].pc \in {"defer", "read", "followup"} => task[t].op = "click"

(* The statement of every task in the queue waits.                          *)
QueueWaits ==
    \A i \in DOMAIN queue :
      task[queue[i]].pc \in {"join", "execute", "commit", "read"}

(* Followers have their leader's anchor, who answers them.                  *)
LeadersFetch ==
    \A f \in Tasks : task[f].pc = "follow" =>
      /\ task[f].lead \in Tasks
      /\ task[task[f].lead].pc \in Fetching
      /\ task[task[f].lead].at = task[f].at
      /\ ~task[task[f].lead].broken

(* Nothing in ids is from before a marker that Discord returned.            *)
BoundedBy(ids, before) ==
    \A m \in Elements(Window(chan, before)) :
      IsClearMarker(chan, m) => \A id \in Elements(ids) : id > m

(* Every set of records is bounded by its own anchor, a kept one too; while *)
(* the starter is looked for, the window is at hand.                        *)
RecordsBounded ==
    /\ \A t \in Tasks : HasRecords(t) => BoundedBy(task[t].ids, task[t].at)
    /\ \A b \in DOMAIN cache : BoundedBy(cache[b], b)
    /\ \A t \in Tasks :
         task[t].pc = "starter" => task[t].ids = Window(chan, task[t].at)

(* Effort commands that wait for their commit, by their place in the queue: *)
(* the last one's tier is the table's.  With none, map, table and disk      *)
(* agree.                                                                   *)
ToCommit == {i \in DOMAIN queue : /\ task[queue[i]].op = "effort"
                                 /\ task[queue[i]].pc = "commit"}

LastCommitCounts ==
    enabled /\ faithful =>
      /\ \A i \in ToCommit : (\A j \in ToCommit : j <= i)
                                => task[queue[i]].tier = table.tier
      /\ ToCommit = {} => effort = table.tier /\ disk.tier = table.tier

IInv == TypeOK /\ KeepsToItsOp /\ QueueWaits /\ LeadersFetch /\ RecordsBounded
        /\ ReplayFits /\ LastCommitCounts

=============================================================================
