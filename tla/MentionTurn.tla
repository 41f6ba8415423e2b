---------------------------- MODULE MentionTurn ----------------------------
(***************************************************************************)
(* One @mention turn in the bridge: MentionHandler.handle and _deliver     *)
(* with the collaborators they await (ProgressRenderer and its debounced   *)
(* edit task, ReplyPoster) and the gateway's _run_handler around them.     *)
(*                                                                         *)
(* pc names the await the handler task is suspended in, so every action is *)
(* "what that await returned, and everything the handler does up to the    *)
(* next await".  The other actors are the debounce tasks the progress      *)
(* renderer spawned and the shutdown (drain_inflight), which may cancel    *)
(* the handler task once, at any await.                                    *)
(*                                                                         *)
(* A call to Discord ends in one of                                        *)
(*   ok         the call took effect and was acknowledged                  *)
(*   refused    a 4xx: no effect, and the agent could fix its reply        *)
(*   blocked    auth, permission, rate limit, sender not usable: no effect *)
(*   outage     a 5xx: it may or may not have taken effect                 *)
(*   transport  an error that is not a DiscordException (the connection    *)
(*              failed): it may or may not have taken effect               *)
(* and a cancelled call may or may not have taken effect.                  *)
(***************************************************************************)
EXTENDS Naturals, FiniteSets

CONSTANTS
    MaxSteps,   \* bound: run events before the stream ends
    MaxRetry,   \* MAX_REPLY_RETRY_ATTEMPTS
    MaxChunks   \* bound: chunks the fallback splits a reply into

ASSUME TurnAssumption ==
    /\ MaxSteps \in Nat
    /\ MaxRetry \in Nat
    /\ MaxChunks \in Nat \ {0}

VARIABLES
    pc,          \* the await the handler is suspended in, or how it ended
    unwinding,   \* what is propagating through handle()'s finally
    cancel,      \* what became of the shutdown's task.cancel()
    steps,       \* run events drained
    lines,       \* ProgressEntry.rendered_lines, as their number
    posted,      \* ProgressEntry.progress_message_id is set
    shown,       \* lines the progress message displays
    strays,      \* progress messages on Discord that nothing will delete
    task,        \* the debounce tasks, by the step that spawned them
    snapshot,    \* lines the edit call in flight carries
    tracked,     \* ProgressEntry.debounce_task (0 for None)
    attempts,    \* _deliver's retry counter
    runs,        \* agent runs started for this turn
    attemptHist, \* messages attempt_history adds to the turn's history
    base,        \* the same of the history the result in hand was run with
    empty,       \* the result in hand has no text
    acked,       \* reply messages Discord acknowledged
    chunk,       \* chunks tried by the fallback
    failures,    \* chunks that failed
    row,         \* the transcript row is written
    notice       \* the last notice tried (best effort): "none", "expected",
                 \* or "crash"

handler == <<pc, unwinding>>
display == <<lines, posted, shown, strays>>
debounce == <<task, snapshot, tracked>>
retry == <<attempts, runs, attemptHist, base, empty>>
reply == <<acked, chunk, failures, row, notice>>
vars == <<handler, cancel, steps, display, debounce, retry, reply>>

Tasks == 1..MaxSteps
LiveStates == {"sleeping", "editing", "cancelling"}
Ended == {"done", "crashed", "cancelled"}
Draining == {"drain", "project", "post"}
Finishing == {"await_debounce", "delete"}
Before == {"refresh", "history", "start"}
Posting == {"send", "backoff", "resend", "transcript", "chunk", "chunk_row"}
Delivering == Posting \cup {"result", "fault_notes", "retry"}
Telling == {"notice", "crash_notice"}

TypeOK ==
    /\ pc \in Before \cup Draining \cup Finishing \cup Delivering
              \cup Telling \cup Ended
    /\ unwinding \in {"none", "cancelled", "stream_error", "progress_error"}
    /\ cancel \in {"no", "raised", "swallowed"}
    /\ steps \in 0..MaxSteps
    /\ lines \in Nat /\ shown \in Nat /\ strays \in Nat
    /\ posted \in BOOLEAN
    /\ task \in [Tasks -> LiveStates \cup {"none", "done"}]
    /\ snapshot \in [Tasks -> Nat]
    /\ tracked \in 0..MaxSteps
    /\ attempts \in 0..MaxRetry
    /\ runs \in Nat /\ attemptHist \in Nat /\ base \in Nat
    /\ empty \in BOOLEAN
    /\ acked \in Nat /\ chunk \in 0..MaxChunks /\ failures \in 0..MaxChunks
    /\ row \in BOOLEAN
    /\ notice \in {"none", "expected", "crash"}

Init ==
    /\ pc = "refresh" /\ unwinding = "none" /\ cancel = "no"
    /\ steps = 0
    /\ lines = 0 /\ posted = FALSE /\ shown = 0 /\ strays = 0
    /\ task = [t \in Tasks |-> "none"]
    /\ snapshot = [t \in Tasks |-> 0]
    /\ tracked = 0
    /\ attempts = 0 /\ runs = 0 /\ attemptHist = 0 /\ base = 0 /\ empty = FALSE
    /\ acked = 0 /\ chunk = 0 /\ failures = 0 /\ row = FALSE
    /\ notice = "none"

Goto(l) == pc' = l /\ UNCHANGED unwinding

-----------------------------------------------------------------------------
(* Routing: handle() up to the start of the run.                           *)

(* The mesh refresh, then the synchronous read of the snapshot: unknown     *)
(* roster or nobody mentioned online is told, otherwise there is a target.  *)
(* (The gateway spawns a handler only for a message that mentions someone.) *)
Refresh ==
    /\ pc = "refresh"
    /\ \/ Goto("history")
       \/ Goto("notice")
       \/ Goto("crash_notice")
    /\ UNCHANGED <<cancel, steps, display, debounce, retry, reply>>

(* The history provider degrades to [] by itself.                           *)
History ==
    /\ pc = "history"
    /\ Goto("start")
    /\ UNCHANGED <<cancel, steps, display, debounce, retry, reply>>

(* client.agent(target).start(): not guarded, an exception is a crash.      *)
Start ==
    /\ pc = "start"
    /\ \/ Goto("drain") /\ runs' = runs + 1
       \/ Goto("crash_notice") /\ UNCHANGED runs
    /\ UNCHANGED <<cancel, steps, display, debounce, attempts, attemptHist,
                   base, empty, reply>>

-----------------------------------------------------------------------------
(* The progress message.                                                   *)

(* Mutated form: an edit already on the wire no longer counts as live.      *)
LiveDebounceForgetsEdit == tracked # 0 /\ task[tracked] = "sleeping"

LiveDebounce == tracked # 0 /\ task[tracked] \in LiveStates

(* on_step for a step with a line, once the message is posted: reuse the    *)
(* live debounce task or spawn one.                                         *)
ScheduleEdit(t) ==
    IF LiveDebounce
    THEN UNCHANGED debounce
    ELSE /\ task' = [task EXCEPT ![t] = "sleeping"]
         /\ tracked' = t
         /\ UNCHANGED snapshot

(* One event of the stream.  It is dropped (unrenderable, or it renders to  *)
(* nothing), is A2A activity and is projected, or adds a line to the trace  *)
(* and posts it or schedules its edit.                                      *)
Event ==
    /\ pc = "drain" /\ steps < MaxSteps
    /\ steps' = steps + 1
    /\ \/ Goto("drain") /\ UNCHANGED <<lines, debounce>>
       \/ Goto("project") /\ UNCHANGED <<lines, debounce>>
       \/ /\ ~posted
          /\ Goto("post") /\ lines' = lines + 1 /\ UNCHANGED debounce
       \/ /\ posted
          /\ Goto("drain") /\ lines' = lines + 1 /\ ScheduleEdit(steps')
    /\ UNCHANGED <<cancel, posted, shown, strays, retry, reply>>

(* A2AProjector.project swallows every exception.                           *)
Project ==
    /\ pc = "project"
    /\ Goto("drain")
    /\ UNCHANGED <<cancel, steps, display, debounce, retry, reply>>

(* The first post of the progress message.  Any failure leaves the id None, *)
(* for the next step to retry, and strays when it took effect all the same. *)
Post ==
    /\ pc = "post"
    /\ Goto("drain")
    /\ \E outcome \in {"ok", "blocked", "outage", "transport"},
         effect \in BOOLEAN :
        /\ outcome = "ok" => effect
        /\ outcome = "blocked" => ~effect
        /\ posted' = (outcome = "ok")
        /\ shown' = IF outcome = "ok" THEN lines ELSE shown
        /\ strays' = IF outcome # "ok" /\ effect THEN strays + 1 ELSE strays
    /\ UNCHANGED <<cancel, steps, lines, debounce, retry, reply>>

(* The debounce task wakes and renders the lines of that moment.            *)
Wake(t) ==
    /\ task[t] = "sleeping"
    /\ task' = [task EXCEPT ![t] = "editing"]
    /\ snapshot' = [snapshot EXCEPT ![t] = lines]
    /\ UNCHANGED <<handler, cancel, steps, display, tracked, retry, reply>>

(* Its edit call returns; a failure is logged or dies with the task.        *)
Edited(t) ==
    /\ task[t] = "editing"
    /\ task' = [task EXCEPT ![t] = "done"]
    /\ shown' \in {shown, snapshot[t]}
    /\ UNCHANGED <<handler, cancel, steps, lines, posted, strays, snapshot,
                   tracked, retry, reply>>

(* Where handle() goes once finish() is through.                            *)
AfterFinish(u) ==
    CASE u = "none" -> "result"
      [] u = "cancelled" -> "cancelled"
      [] u \in {"stream_error", "progress_error"} -> "crash_notice"

(* Mutated form: finish() is skipped when the stream was left by a raise.   *)
AfterDebounceOnSuccessOnly(u) ==
    IF posted /\ u = "none" THEN "delete" ELSE AfterFinish(u)

AfterDebounce(u) == IF posted THEN "delete" ELSE AfterFinish(u)

(* handle()'s finally: finish() pops the entry, cancels a live debounce     *)
(* task and awaits it, and otherwise goes straight to the delete.           *)
Finish(u) ==
    /\ unwinding' = u
    /\ tracked' = 0
    /\ UNCHANGED snapshot
    /\ \/ /\ LiveDebounce
          /\ task' = [task EXCEPT ![tracked] = "cancelling"]
          /\ pc' = "await_debounce"
       \/ /\ ~LiveDebounce
          /\ pc' = AfterDebounce(u)
          /\ UNCHANGED task

(* The stream is exhausted, or raises.                                      *)
StreamEnds ==
    /\ pc = "drain"
    /\ \E u \in {"none", "stream_error"} : Finish(u)
    /\ UNCHANGED <<cancel, steps, display, retry, reply>>

(* The cancelled debounce task is through, and _cancel_debounce resumes.    *)
DebounceCancelled ==
    /\ pc = "await_debounce"
    /\ task' = [t \in Tasks |->
                  IF task[t] = "cancelling" THEN "done" ELSE task[t]]
    /\ pc' = AfterDebounce(unwinding)
    /\ UNCHANGED <<unwinding, cancel, steps, display, snapshot, tracked,
                   retry, reply>>

(* The delete: a DiscordException is swallowed, anything else propagates    *)
(* out of finish(), whatever was propagating before.                        *)
Delete ==
    /\ pc = "delete"
    /\ \/ /\ posted' = FALSE
          /\ pc' = AfterFinish(unwinding)
          /\ UNCHANGED <<unwinding, strays>>
       \/ /\ strays' = strays + 1 /\ posted' = FALSE
          /\ pc' = AfterFinish(unwinding)
          /\ UNCHANGED unwinding
       \/ /\ strays' \in {strays, strays + 1} /\ posted' = FALSE
          /\ unwinding' = "progress_error"
          /\ pc' = AfterFinish("progress_error")
    /\ UNCHANGED <<cancel, steps, lines, shown, debounce, retry, reply>>

-----------------------------------------------------------------------------
(* Delivery: _deliver and the reply poster.                                *)

(* post_reply with a result in hand: an empty one is a success without a    *)
(* call.                                                                    *)
PostResult(noText) ==
    /\ empty' = noText
    /\ Goto(IF noText THEN "done" ELSE "send")

(* handle.result(): completed, faulted (with consults to note, or none), or *)
(* an exception that is no NodeFaultError.                                  *)
Result ==
    /\ pc = "result"
    /\ \/ \E noText \in BOOLEAN : PostResult(noText)
       \/ Goto("fault_notes") /\ UNCHANGED empty
       \/ Goto("notice") /\ UNCHANGED empty
       \/ Goto("crash_notice") /\ UNCHANGED empty
    /\ UNCHANGED <<cancel, steps, display, debounce, attempts, runs,
                   attemptHist, base, reply>>

(* project_fault for every dangling consult, then the fault notice.         *)
FaultNotes ==
    /\ pc = "fault_notes"
    /\ Goto("notice")
    /\ UNCHANGED <<cancel, steps, display, debounce, retry, reply>>

(* Mutated form: one retry more than the budget.                            *)
RetriesSpentLate == attempts > MaxRetry

RetriesSpent == attempts >= MaxRetry

(* A reply the agent could fix: run it again, or split the reply.           *)
Refused ==
    \/ /\ RetriesSpent
       /\ Goto("chunk") /\ UNCHANGED attempts
    \/ /\ ~RetriesSpent
       /\ Goto("retry") /\ attempts' = attempts + 1

(* _send_with_one_retry_on_outage: only the first attempt is repeated.      *)
AfterOutage == IF pc = "send" THEN "backoff" ELSE "notice"

(* The acknowledged reply's transcript is written when steps were rendered  *)
(* and the store is enabled.                                                *)
Send ==
    /\ pc \in {"send", "resend"}
    /\ \/ /\ \E l \in {"transcript", "done"} : Goto(l)
          /\ acked' = acked + 1 /\ UNCHANGED attempts
       \/ Goto(AfterOutage) /\ UNCHANGED <<acked, attempts>>
       \/ Refused /\ UNCHANGED acked
       \/ Goto("notice") /\ UNCHANGED <<acked, attempts>>
       \/ Goto("crash_notice") /\ UNCHANGED <<acked, attempts>>
    /\ UNCHANGED <<cancel, steps, display, debounce, runs, attemptHist, base,
                   empty, chunk, failures, row, notice>>

Backoff ==
    /\ pc = "backoff"
    /\ Goto("resend")
    /\ UNCHANGED <<cancel, steps, display, debounce, retry, reply>>

(* Mutated form: a store failure escapes _write_transcript.                 *)
AfterTranscriptUnguarded(written) == IF written THEN "done" ELSE "crash_notice"

AfterTranscript(written) == "done"

Transcript ==
    /\ pc = "transcript"
    /\ row' \in BOOLEAN
    /\ Goto(AfterTranscript(row'))
    /\ UNCHANGED <<cancel, steps, display, debounce, retry, acked, chunk,
                   failures, notice>>

(* build_retry_history: the prompt and the rejected attempt are appended.   *)
RetryHistory == attemptHist + 2

(* Mutated form: the loop keeps the history it started with.                *)
NextAttemptHistoryStale == attemptHist

(* attempt_history once the retry has returned.                             *)
NextAttemptHistory == RetryHistory

(* The quiet re-invocation: start() and result(), awaited in one go.        *)
Retry ==
    /\ pc = "retry"
    /\ \/ /\ \E noText \in BOOLEAN : PostResult(noText)
          /\ base' = RetryHistory
          /\ attemptHist' = NextAttemptHistory
          /\ runs' = runs + 1
       \/ /\ \/ Goto("notice") /\ runs' = runs + 1
             \/ Goto("crash_notice") /\ runs' \in {runs, runs + 1}
          /\ UNCHANGED <<attemptHist, base, empty>>
    /\ UNCHANGED <<cancel, steps, display, debounce, attempts, reply>>

(* Mutated form: one lost chunk counts as a lost reply.                     *)
WhollyLostOnAnyFailure(lost, tried) == lost > 0

WhollyLost(lost, tried) == lost = tried

(* After a chunk: another one, or the end of the split reply.               *)
NextChunk(lost, tried) ==
    \/ tried < MaxChunks /\ Goto("chunk")
    \/ Goto(IF WhollyLost(lost, tried) THEN "notice" ELSE "done")

Chunk ==
    /\ pc = "chunk" /\ chunk < MaxChunks
    /\ chunk' = chunk + 1
    /\ \/ /\ acked' = acked + 1 /\ UNCHANGED failures
          /\ \/ NextChunk(failures, chunk')
             \/ chunk = 0 /\ Goto("chunk_row")
       \/ /\ failures' = failures + 1 /\ UNCHANGED acked
          /\ NextChunk(failures', chunk')
       \/ Goto("crash_notice") /\ UNCHANGED <<acked, failures>>
    /\ UNCHANGED <<cancel, steps, display, debounce, retry, row, notice>>

(* The first chunk's transcript row.                                        *)
ChunkRow ==
    /\ pc = "chunk_row"
    /\ row' \in BOOLEAN
    /\ NextChunk(failures, chunk)
    /\ UNCHANGED <<cancel, steps, display, debounce, retry, acked, chunk,
                   failures, notice>>

-----------------------------------------------------------------------------
(* Notices, the crash notice of _run_handler, and the shutdown.            *)

(* post_notice swallows a DiscordException only.                            *)
Notice ==
    /\ pc = "notice"
    /\ \/ Goto("done") /\ notice' = "expected"
       \/ Goto("crash_notice") /\ UNCHANGED notice
    /\ UNCHANGED <<cancel, steps, display, debounce, retry, acked, chunk,
                   failures, row>>

CrashNotice ==
    /\ pc = "crash_notice"
    /\ Goto("crashed") /\ notice' = "crash"
    /\ UNCHANGED <<cancel, steps, display, debounce, retry, acked, chunk,
                   failures, row>>

(* drain_inflight cancels the handler task.  While events are drained the   *)
(* finally still runs; the await of a cancelled debounce task suppresses    *)
(* the handler's own CancelledError as well; anywhere else it ends the task.*)
Cancel ==
    /\ cancel = "no" /\ pc \notin Ended
    /\ \/ /\ pc = "await_debounce"
          /\ cancel' = "swallowed"
          /\ UNCHANGED <<handler, display, debounce, row>>
       \/ /\ pc \in Draining
          /\ cancel' = "raised"
          /\ Finish("cancelled")
          /\ strays' \in IF pc = "post" THEN {strays, strays + 1} ELSE {strays}
          /\ UNCHANGED <<lines, posted, shown, row>>
       \/ /\ pc = "delete"
          /\ cancel' = "raised"
          /\ pc' = "cancelled" /\ unwinding' = "cancelled"
          /\ posted' = FALSE /\ strays' \in {strays, strays + 1}
          /\ UNCHANGED <<lines, shown, debounce, row>>
       \/ /\ pc \notin Draining \cup Finishing
          /\ cancel' = "raised"
          /\ Goto("cancelled")
          /\ row' \in IF pc \in {"transcript", "chunk_row"}
                      THEN {row, TRUE} ELSE {row}
          /\ UNCHANGED <<display, debounce>>
    /\ UNCHANGED <<steps, retry, acked, chunk, failures, notice>>

-----------------------------------------------------------------------------
Routing == Refresh \/ History \/ Start
Drain == Event \/ Project \/ Post \/ StreamEnds \/ DebounceCancelled \/ Delete
Deliver == Result \/ FaultNotes \/ Send \/ Backoff \/ Transcript \/ Retry
           \/ Chunk \/ ChunkRow
Tell == Notice \/ CrashNotice
Handler == Routing \/ Drain \/ Deliver \/ Tell
DebounceTask == \E t \in Tasks : Wake(t) \/ Edited(t)

Next == Handler \/ DebounceTask \/ Cancel

(* The event loop runs every ready task, and every awaited call returns or  *)
(* raises; MaxSteps says that the agent's run ends.  Nothing forces the     *)
(* bridge to shut down.                                                     *)
Spec == Init /\ [][Next]_vars /\ WF_vars(Handler) /\ WF_vars(DebounceTask)

-----------------------------------------------------------------------------
LiveTask(t) == task[t] \in LiveStates

(* Once the progress message is being deleted, no debounce task is left     *)
(* that could edit it: finish() cancelled and awaited the only live one     *)
(* (progress.py, _cancel_debounce and _schedule_debounced_edit).            *)
NoEditRacesDelete ==
    pc \notin Before \cup Draining \cup {"await_debounce"} =>
        \A t \in Tasks : ~LiveTask(t)

(* A progress message whose id is known is gone, or its one delete was      *)
(* tried, before the turn goes on to its reply, tells of a failure or ends, *)
(* whatever made the drain end (mention_handler.py, the finally in handle). *)
ProgressRetired ==
    pc \notin Draining \cup Finishing => ~posted

(* A whole reply that Discord acknowledged is the end of it: the agent is   *)
(* not run again, nothing more is posted, no notice follows (_deliver).     *)
WholeReplyIsFinal ==
    acked > 0 /\ chunk = 0 => pc \in {"transcript", "done", "cancelled"}

(* The agent is run at most once more than the retry budget, and a reply is *)
(* split only when that budget is spent (_deliver).                         *)
RetryBudget ==
    /\ runs <= 1 + MaxRetry
    /\ chunk > 0 => runs = 1 + MaxRetry

(* What drain_inflight says of the turns it cancels: the wait for an        *)
(* agent's result is cancelled.  It is not so for a turn that has           *)
(* swallowed the cancellation (progress.py, _cancel_debounce): refused, its *)
(* reply has the agent run again, and nothing cancels that wait.            *)
DrainedTurnRunsNoAgent == cancel # "no" => pc # "retry"

(* Whatever attempt is being posted, attempt_history is the history that    *)
(* run was started with, so the transcript holds exactly what the run added *)
(* (_deliver, initial_len=len(attempt_history)).                            *)
DeltaMatchesRun == pc \in Posting => attemptHist = base

(* The outcome of the turn as its user sees it.                             *)
Outcome == INSTANCE TurnOutcome WITH
    answered <- acked > 0,
    apology <- notice,
    excused <- empty \/ cancel # "no",
    over <- pc \in Ended

(* The handler keeps the promise made to the user (handle, _deliver,        *)
(* post_reply, post_chunked, _run_handler): an answer, an apology when no   *)
(* answer was acknowledged, or an excuse, and an end.                       *)
KeepsPromise == Outcome!Spec

=============================================================================
