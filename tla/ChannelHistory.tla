--------------------------- MODULE ChannelHistory ---------------------------
(***************************************************************************)
(* What an agent gets to see of a channel: the window of messages Discord  *)
(* returns, the starter of a thread, the cut at the last /clear marker,    *)
(* and the model history built from the rest, with stored tool calls       *)
(* spliced in.  Operators only; BridgeMemory calls them step by step.      *)
(*                                                                         *)
(* A channel is a sequence of messages and a message's place in it its id, *)
(* so ids grow with time as Discord's do.  The starter of a thread that    *)
(* was started from a message lives in the parent channel; its id is 0.    *)
(***************************************************************************)
EXTENDS Naturals, Sequences, FiniteSets

CONSTANT Limit  \* records asked of Discord, _DISCORD_HISTORY_MAX_LIMIT

ASSUME LimitAssumption == Limit \in Nat \ {0}

(* Human posts, one of them with the text of a marker; an agent's reply,    *)
(* through a persona webhook; and the marker, the bot's own post.           *)
Posts == {"words", "blank", "spoof", "reply", "marker"}

(* An ordinary channel; a thread started from a message of its parent; a    *)
(* forum post, whose first message is its starter.                          *)
ChannelKinds == {"channel", "task", "forum"}

Starter == 0
Ids(chan) == {Starter} \cup DOMAIN chan

Post(chan, id) == IF id = Starter THEN "words" ELSE chan[id]

-----------------------------------------------------------------------------
(* The last Limit messages before an id, the oldest first.                  *)
Window(chan, before) ==
    LET older == IF before = Starter THEN 0 ELSE before - 1
        n == IF older < Limit THEN older ELSE Limit
    IN  [i \in 1..n |-> older - n + i]

Elements(s) == {s[i] : i \in DOMAIN s}

(* The starter as _thread_starter_message finds it, or nothing.             *)
StartersOf(kind) == CASE kind = "channel" -> {}
                      [] kind = "task"    -> {Starter}
                      [] kind = "forum"   -> {1}

(* A starter goes in front, if it is before the anchor and not there.       *)
WithStarter(ids, found, before) ==
    LET new == {s \in found : s < before /\ s \notin Elements(ids)}
    IN  IF new = {} THEN ids ELSE <<CHOOSE s \in new : TRUE>> \o ids

(* Only the bot's own post is a marker, whoever else writes its text.       *)
IsClearMarker(chan, id) == Post(chan, id) = "marker"

(* What follows the last marker.                                            *)
AfterMarker(chan, ids) ==
    LET marks == {i \in DOMAIN ids : IsClearMarker(chan, ids[i])}
        cut == IF marks = {} THEN 0
               ELSE CHOOSE i \in marks : \A j \in marks : j <= i
    IN  SubSeq(ids, cut + 1, Len(ids))

(* Mutated form: the starter is put in front of what the cut has left.      *)
RecordsCutFirst(chan, ids, found, before) ==
    WithStarter(AfterMarker(chan, ids), found, before)

(* The records a fetch returns.                                             *)
Records(chan, ids, found, before) ==
    AfterMarker(chan, WithStarter(ids, found, before))

-----------------------------------------------------------------------------
IsAgent(chan, id) == Post(chan, id) = "reply"

AgentIds(chan, ids) == {id \in Elements(ids) : IsAgent(chan, id)}

(* An entry of the model's history: a human's request, an agent's final     *)
(* response, and of a replayed turn its tool call and the tool's return.    *)
(* To the model a call is a response and a return is a request.             *)
EntryKinds == {"request", "response", "call", "return"}
Entry(kind, id) == [kind |-> kind, of |-> id]
ModelEntries(chan) == [kind: EntryKinds, of: Ids(chan)]
IsResponse(e) == e.kind \in {"response", "call"}

(* What is spliced in before a reply whose transcript is at hand.           *)
Delta(id) == <<Entry("call", id), Entry("return", id)>>

(* Mutated form: a reply's tool calls are spliced in wherever it stands.    *)
ReplaysAlways(seenRequest) == TRUE

(* A reply before the first request is going to be dropped, and a return    *)
(* without its call would be left.                                          *)
Replays(seenRequest) == seenRequest

(* The entries of one record, after the records before it.                  *)
Entries(chan, id, rows, seenRequest) ==
    CASE Post(chan, id) = "blank" -> <<>>
      [] IsAgent(chan, id) ->
            (IF id \in rows /\ Replays(seenRequest) THEN Delta(id) ELSE <<>>)
            \o <<Entry("response", id)>>
      [] OTHER -> <<Entry("request", id)>>

(* build_message_history over the first k records: what it has so far, and  *)
(* whether a request is among it.                                           *)
Built(chan, ids, rows) ==
    LET upTo[k \in 0..Len(ids)] ==
            IF k = 0 THEN [out |-> <<>>, seen |-> FALSE]
            ELSE LET new == Entries(chan, ids[k], rows, upTo[k-1].seen)
                 IN  [out  |-> upTo[k-1].out \o new,
                      seen |-> \/ upTo[k-1].seen
                               \/ /\ new # <<>>
                                  /\ new[Len(new)].kind = "request"]
    IN  upTo[Len(ids)].out

(* Leading responses are dropped: no provider takes them.                   *)
WithoutLeadingResponses(out) ==
    LET kept == {i \in DOMAIN out : ~IsResponse(out[i])}
        first == IF kept = {} THEN Len(out) + 1
                 ELSE CHOOSE i \in kept : \A j \in kept : i <= j
    IN  SubSeq(out, first, Len(out))

ModelHistory(chan, ids, rows) ==
    WithoutLeadingResponses(Built(chan, ids, rows))

(* A tool's return stands between its call and the reply of its turn.       *)
ReturnsAreFramed(out) ==
    \A i \in DOMAIN out : out[i].kind = "return" =>
      /\ i > 1 /\ out[i-1] = Entry("call", out[i].of)
      /\ i < Len(out) /\ out[i+1] = Entry("response", out[i].of)

=============================================================================
