------------------------- MODULE MentionTurn_proofs -------------------------
(***************************************************************************)
(* Proofs about MentionTurn, for every length of the run, retry budget and *)
(* number of chunks: it is typed, no debounced edit races the delete of    *)
(* the progress message, the retry budget and the transcript's delta are   *)
(* right, and every step keeps the promise of TurnOutcome.                 *)
(***************************************************************************)
EXTENDS MentionTurn, TLAPS

NotYetDelivering ==
    Before \cup Draining \cup Finishing \cup {"result", "fault_notes"}
Sending == {"send", "backoff", "resend"}
Splitting == {"chunk", "chunk_row"}

(* The debounce task that may edit the progress message is the tracked one, *)
(* and only while the stream is drained; finish() awaits the one it cancels.*)
TasksTracked ==
    \A t \in Tasks :
        /\ task[t] \in {"sleeping", "editing"} => pc \in Draining /\ t = tracked
        /\ task[t] = "cancelling" => pc = "await_debounce"

(* The runs started for the turn, against the attempts counted.             *)
RunsCounted ==
    /\ runs <= attempts + 1
    /\ pc \in Before => runs = 0
    /\ pc \in NotYetDelivering => attempts = 0
    /\ pc = "retry" => runs = attempts
    /\ pc \in NotYetDelivering \ Before => runs = 1
    /\ pc \in Sending => runs = attempts + 1
    /\ pc \in Splitting => runs = MaxRetry + 1
    /\ chunk > 0 =>
          /\ runs = MaxRetry + 1
          /\ pc \in Splitting \cup Telling \cup Ended

(* The history the result in hand was run with.                             *)
HistoryCounted ==
    /\ pc \in NotYetDelivering => attemptHist = 0 /\ base = 0
    /\ DeltaMatchesRun

(* The reply messages acknowledged, against the chunks tried and lost.      *)
AnswersCounted ==
    /\ pc \in NotYetDelivering \cup Sending \cup {"retry", "notice"} =>
          acked = 0
    /\ pc \in Splitting => acked + failures = chunk
    /\ failures <= chunk
    /\ pc = "transcript" => acked > 0
    /\ WholeReplyIsFinal

(* Why a turn may be over, and that it is told of nothing before.           *)
Served ==
    /\ pc \in Ended =>
          acked > 0 \/ notice # "none" \/ empty \/ cancel # "no"
    /\ unwinding = "cancelled" => cancel # "no"
    /\ empty => pc = "done"
    /\ notice # "none" => pc \in {"done", "crashed"}

(* The inductive invariant.                                                 *)
IInv ==
    /\ TypeOK
    /\ TasksTracked
    /\ ProgressRetired
    /\ RunsCounted
    /\ HistoryCounted
    /\ AnswersCounted
    /\ Served

USE DEF Before, Draining, Finishing, Posting, Delivering, Telling, Ended,
        LiveStates, NotYetDelivering, Sending, Splitting

Unwindings == {"none", "cancelled", "stream_error", "progress_error"}

(* The initial state satisfies the inductive invariant.                     *)
LEMMA InitIInv == Init => IInv
<1> SUFFICES ASSUME Init PROVE IInv
  OBVIOUS
<1> USE TurnAssumption DEF Init
<1>1. TypeOK
  <2>1. /\ task \in [Tasks -> LiveStates \cup {"none", "done"}]
        /\ snapshot \in [Tasks -> Nat]
    OBVIOUS
  <2>2. /\ 0 \in 0..MaxSteps /\ 0 \in 0..MaxRetry /\ 0 \in 0..MaxChunks
    OBVIOUS
  <2> QED BY <2>1, <2>2 DEF TypeOK
<1>2. TasksTracked /\ ProgressRetired
  BY DEF Tasks, TasksTracked, ProgressRetired
<1>3. RunsCounted /\ HistoryCounted
  BY DEF RunsCounted, HistoryCounted, DeltaMatchesRun
<1>4. AnswersCounted /\ Served
  BY DEF AnswersCounted, WholeReplyIsFinal, Served
<1> QED BY <1>1, <1>2, <1>3, <1>4 DEF IInv

(* Where the finally of handle() leads.                                     *)
LEMMA AfterFinishGoes ==
  ASSUME NEW u \in Unwindings
  PROVE  /\ AfterFinish(u) \in {"result", "cancelled", "crash_notice"}
         /\ AfterFinish(u) = "cancelled" <=> u = "cancelled"
  BY DEF AfterFinish, Unwindings

(* finish() cancels the only task that could edit.                          *)
LEMMA FinishCancels ==
  ASSUME TypeOK, TasksTracked, pc \in Draining,
         NEW u \in Unwindings, Finish(u)
  PROVE  /\ task' \in [Tasks -> LiveStates \cup {"none", "done"}]
         /\ pc' \in Finishing \cup {"result", "cancelled", "crash_notice"}
         /\ pc' = "cancelled" => u = "cancelled"
         /\ TasksTracked'
<1>1. CASE LiveDebounce
  BY <1>1 DEF Finish, LiveDebounce, TypeOK, TasksTracked, Tasks
<1>2. CASE ~LiveDebounce
  <2>1. /\ pc' = AfterDebounce(u)
        /\ task' = task /\ tracked' = 0
    BY <1>2 DEF Finish
  <2>2. pc' = "delete" \/ pc' = AfterFinish(u)
    BY <2>1 DEF AfterDebounce
  <2>3. \A t \in Tasks : task[t] \notin LiveStates
    BY <1>2 DEF LiveDebounce, TasksTracked, Tasks
  <2>4. TasksTracked'
    BY <2>1, <2>3 DEF TasksTracked
  <2> QED BY <2>1, <2>2, <2>4, AfterFinishGoes DEF TypeOK
<1> QED BY <1>1, <1>2

(* Every action preserves the inductive invariant.                          *)

LEMMA NextIInv == IInv /\ [Next]_vars => IInv'
<1> SUFFICES ASSUME IInv, [Next]_vars PROVE IInv'
  OBVIOUS
<1> USE TurnAssumption DEF IInv, Goto, display, debounce, retry, reply, handler
<1>1. CASE Refresh
  BY <1>1 DEF Refresh, TypeOK, Tasks, TasksTracked,
     ProgressRetired, RunsCounted,
     HistoryCounted, DeltaMatchesRun, AnswersCounted, WholeReplyIsFinal, Served
<1>2. CASE History
  BY <1>2 DEF History, TypeOK, Tasks, TasksTracked,
     ProgressRetired, RunsCounted,
     HistoryCounted, DeltaMatchesRun, AnswersCounted, WholeReplyIsFinal, Served
<1>3. CASE Start
  BY <1>3 DEF Start, TypeOK, Tasks, TasksTracked,
     ProgressRetired, RunsCounted,
     HistoryCounted, DeltaMatchesRun, AnswersCounted, WholeReplyIsFinal, Served
<1>4. CASE Event
  <2> USE <1>4 DEF Event, ScheduleEdit, LiveDebounce
  <2>1. TypeOK'
    BY DEF TypeOK, Tasks
  <2>2. TasksTracked'
    BY DEF TypeOK, Tasks, TasksTracked
  <2>3. ProgressRetired'
    BY DEF TypeOK, Tasks, ProgressRetired
  <2>4. RunsCounted'
    BY DEF TypeOK, Tasks, RunsCounted
  <2>5. HistoryCounted'
    BY DEF TypeOK, Tasks, HistoryCounted, DeltaMatchesRun
  <2>6. AnswersCounted'
    BY DEF TypeOK, Tasks, AnswersCounted, WholeReplyIsFinal
  <2>7. Served'
    BY DEF TypeOK, Tasks, Served
  <2> QED BY <2>1, <2>2, <2>3, <2>4, <2>5, <2>6, <2>7
<1>5. CASE Project
  BY <1>5 DEF Project, TypeOK, Tasks, TasksTracked,
     ProgressRetired, RunsCounted,
     HistoryCounted, DeltaMatchesRun, AnswersCounted, WholeReplyIsFinal, Served
<1>6. CASE Post
  BY <1>6 DEF Post, TypeOK, Tasks, TasksTracked,
     ProgressRetired, RunsCounted,
     HistoryCounted, DeltaMatchesRun, AnswersCounted, WholeReplyIsFinal, Served
<1>7. CASE StreamEnds
  <2>0. PICK u \in {"none", "stream_error"} : Finish(u)
    BY <1>7 DEF StreamEnds
  <2> USE <1>7 DEF StreamEnds, Finish, LiveDebounce, AfterDebounce, AfterFinish
  <2>1. TypeOK'
    BY <2>0, FinishCancels DEF TypeOK, Unwindings, Finish
  <2>2. TasksTracked'
    BY <2>0, FinishCancels DEF Unwindings
  <2>3. ProgressRetired'
    BY DEF TypeOK, Tasks, ProgressRetired
  <2>4. RunsCounted'
    BY DEF TypeOK, Tasks, RunsCounted
  <2>5. HistoryCounted'
    BY DEF TypeOK, Tasks, HistoryCounted, DeltaMatchesRun
  <2>6. AnswersCounted'
    BY DEF TypeOK, Tasks, AnswersCounted, WholeReplyIsFinal
  <2>7. Served'
    BY DEF TypeOK, Tasks, Served
  <2> QED BY <2>1, <2>2, <2>3, <2>4, <2>5, <2>6, <2>7
<1>8. CASE DebounceCancelled
  <2> USE <1>8 DEF DebounceCancelled, AfterDebounce, AfterFinish
  <2>1. TypeOK'
    BY DEF TypeOK, Tasks
  <2>2. TasksTracked'
    BY DEF TypeOK, Tasks, TasksTracked
  <2>3. ProgressRetired'
    BY DEF TypeOK, Tasks, ProgressRetired
  <2>4. RunsCounted'
    BY DEF TypeOK, Tasks, RunsCounted
  <2>5. HistoryCounted'
    BY DEF TypeOK, Tasks, HistoryCounted, DeltaMatchesRun
  <2>6. AnswersCounted'
    BY DEF TypeOK, Tasks, AnswersCounted, WholeReplyIsFinal
  <2>7. Served'
    BY DEF TypeOK, Tasks, Served
  <2> QED BY <2>1, <2>2, <2>3, <2>4, <2>5, <2>6, <2>7
<1>9. CASE Delete
  <2>1. /\ strays' \in {strays, strays + 1}
        /\ posted' = FALSE
        /\ unwinding' \in Unwindings
        /\ unwinding' \in {unwinding, "progress_error"}
        /\ pc' = AfterFinish(unwinding')
    BY <1>9 DEF Delete, TypeOK, Unwindings
  <2>2. /\ pc' \in {"result", "cancelled", "crash_notice"}
        /\ pc' = "cancelled" => unwinding' = "cancelled"
    BY <2>1, AfterFinishGoes
  <2>3. /\ pc = "delete"
        /\ UNCHANGED <<cancel, steps, lines, shown, debounce, retry, reply>>
    BY <1>9 DEF Delete
  <2> HIDE <1>9
  <2>4. TypeOK'
    <3>1. strays' \in Nat
      BY <2>1 DEF TypeOK
    <3> QED BY <2>1, <2>2, <2>3, <3>1 DEF TypeOK, Unwindings
  <2>5. TasksTracked' /\ ProgressRetired' /\ HistoryCounted'
    BY <2>1, <2>2, <2>3 DEF TypeOK, TasksTracked, ProgressRetired,
       HistoryCounted, DeltaMatchesRun
  <2>6. RunsCounted' /\ AnswersCounted'
    BY <2>2, <2>3 DEF TypeOK, RunsCounted, AnswersCounted, WholeReplyIsFinal
  <2>7. Served'
    BY <2>1, <2>2, <2>3 DEF TypeOK, Served
  <2> QED BY <2>4, <2>5, <2>6, <2>7
<1>10. CASE Result
  <2> USE <1>10 DEF Result, PostResult
  <2>1. TypeOK'
    BY DEF TypeOK, Tasks
  <2>2. TasksTracked'
    BY DEF TypeOK, Tasks, TasksTracked
  <2>3. ProgressRetired'
    BY DEF TypeOK, Tasks, ProgressRetired
  <2>4. RunsCounted'
    BY DEF TypeOK, Tasks, RunsCounted
  <2>5. HistoryCounted'
    BY DEF TypeOK, Tasks, HistoryCounted, DeltaMatchesRun
  <2>6. AnswersCounted'
    BY DEF TypeOK, Tasks, AnswersCounted, WholeReplyIsFinal
  <2>7. Served'
    BY DEF TypeOK, Tasks, Served
  <2> QED BY <2>1, <2>2, <2>3, <2>4, <2>5, <2>6, <2>7
<1>11. CASE FaultNotes
  BY <1>11 DEF FaultNotes, TypeOK, Tasks, TasksTracked,
     ProgressRetired, RunsCounted,
     HistoryCounted, DeltaMatchesRun, AnswersCounted, WholeReplyIsFinal, Served
<1>12. CASE Send
  <2> USE <1>12 DEF Send, AfterOutage, Refused, RetriesSpent
  <2>1. TypeOK'
    BY DEF TypeOK, Tasks
  <2>2. TasksTracked'
    BY DEF TypeOK, Tasks, TasksTracked
  <2>3. ProgressRetired'
    BY DEF TypeOK, Tasks, ProgressRetired
  <2>4. RunsCounted'
    BY DEF TypeOK, Tasks, RunsCounted
  <2>5. HistoryCounted'
    BY DEF TypeOK, Tasks, HistoryCounted, DeltaMatchesRun
  <2>6. AnswersCounted'
    <3>1. acked = 0 /\ chunk = 0
      BY DEF AnswersCounted, RunsCounted, TypeOK
    <3>2. \/ /\ pc' \in {"transcript", "done"}
             /\ acked' = 1
          \/ /\ pc' \in {"backoff", "notice", "chunk", "retry",
                        "crash_notice"}
             /\ acked' = 0
      BY <3>1
    <3> QED BY <3>1, <3>2 DEF AnswersCounted, WholeReplyIsFinal, TypeOK
  <2>7. Served'
    BY DEF TypeOK, Tasks, Served
  <2> QED BY <2>1, <2>2, <2>3, <2>4, <2>5, <2>6, <2>7
<1>13. CASE Backoff
  BY <1>13 DEF Backoff, TypeOK, Tasks, TasksTracked,
     ProgressRetired, RunsCounted,
     HistoryCounted, DeltaMatchesRun, AnswersCounted, WholeReplyIsFinal, Served
<1>14. CASE Transcript
  <2> USE <1>14 DEF Transcript, AfterTranscript
  <2>1. TypeOK'
    BY DEF TypeOK, Tasks
  <2>2. TasksTracked'
    BY DEF TypeOK, Tasks, TasksTracked
  <2>3. ProgressRetired'
    BY DEF TypeOK, Tasks, ProgressRetired
  <2>4. RunsCounted'
    BY DEF TypeOK, Tasks, RunsCounted
  <2>5. HistoryCounted'
    BY DEF TypeOK, Tasks, HistoryCounted, DeltaMatchesRun
  <2>6. AnswersCounted'
    BY DEF TypeOK, Tasks, AnswersCounted, WholeReplyIsFinal
  <2>7. Served'
    BY DEF TypeOK, AnswersCounted, Served
  <2> QED BY <2>1, <2>2, <2>3, <2>4, <2>5, <2>6, <2>7
<1>15. CASE Retry
  <2> USE <1>15 DEF Retry, PostResult, RetryHistory, NextAttemptHistory
  <2>1. TypeOK'
    BY DEF TypeOK, Tasks
  <2>2. TasksTracked'
    BY DEF TypeOK, Tasks, TasksTracked
  <2>3. ProgressRetired'
    BY DEF TypeOK, Tasks, ProgressRetired
  <2>4. RunsCounted'
    BY DEF TypeOK, RunsCounted
  <2>5. HistoryCounted'
    BY DEF TypeOK, Tasks, HistoryCounted, DeltaMatchesRun
  <2>6. AnswersCounted'
    BY DEF TypeOK, Tasks, AnswersCounted, WholeReplyIsFinal
  <2>7. Served'
    BY DEF TypeOK, Tasks, Served
  <2> QED BY <2>1, <2>2, <2>3, <2>4, <2>5, <2>6, <2>7
<1>16. CASE Chunk
  <2> USE <1>16 DEF Chunk, NextChunk, WhollyLost
  <2>1. TypeOK'
    BY DEF TypeOK, AnswersCounted
  <2>2. TasksTracked'
    BY DEF TypeOK, Tasks, TasksTracked
  <2>3. ProgressRetired'
    BY DEF TypeOK, Tasks, ProgressRetired
  <2>4. RunsCounted'
    BY DEF TypeOK, Tasks, RunsCounted
  <2>5. HistoryCounted'
    BY DEF TypeOK, Tasks, HistoryCounted, DeltaMatchesRun
  <2>6. AnswersCounted'
    BY DEF TypeOK, Tasks, AnswersCounted, WholeReplyIsFinal
  <2>7. Served'
    BY DEF TypeOK, AnswersCounted, Served
  <2> QED BY <2>1, <2>2, <2>3, <2>4, <2>5, <2>6, <2>7
<1>17. CASE ChunkRow
  <2> USE <1>17 DEF ChunkRow, NextChunk, WhollyLost
  <2>1. TypeOK'
    BY DEF TypeOK, Tasks
  <2>2. TasksTracked'
    BY DEF TypeOK, Tasks, TasksTracked
  <2>3. ProgressRetired'
    BY DEF TypeOK, Tasks, ProgressRetired
  <2>4. RunsCounted'
    BY DEF TypeOK, Tasks, RunsCounted
  <2>5. HistoryCounted'
    BY DEF TypeOK, Tasks, HistoryCounted, DeltaMatchesRun
  <2>6. AnswersCounted'
    BY DEF TypeOK, Tasks, AnswersCounted, WholeReplyIsFinal
  <2>7. Served'
    BY DEF TypeOK, AnswersCounted, Served
  <2> QED BY <2>1, <2>2, <2>3, <2>4, <2>5, <2>6, <2>7
<1>18. CASE Notice
  BY <1>18 DEF Notice, TypeOK, Tasks, TasksTracked,
     ProgressRetired, RunsCounted,
     HistoryCounted, DeltaMatchesRun, AnswersCounted, WholeReplyIsFinal, Served
<1>19. CASE CrashNotice
  BY <1>19 DEF CrashNotice, TypeOK, Tasks, TasksTracked,
     ProgressRetired, RunsCounted,
     HistoryCounted, DeltaMatchesRun, AnswersCounted, WholeReplyIsFinal, Served
<1>20. CASE Cancel
  <2>1. CASE pc = "await_debounce"
    <3>1. cancel' = "swallowed" /\ UNCHANGED <<handler, display, debounce, row>>
      BY <1>20, <2>1 DEF Cancel
    <3>2. UNCHANGED <<steps, retry, acked, chunk, failures, notice>>
      BY <1>20 DEF Cancel
    <3> QED
      BY <3>1, <3>2 DEF TypeOK, Tasks, TasksTracked, ProgressRetired,
         RunsCounted, HistoryCounted, DeltaMatchesRun, AnswersCounted,
         WholeReplyIsFinal, Served
  <2>2. CASE pc \in Draining
    <3>1. /\ Finish("cancelled") /\ cancel' = "raised"
          /\ strays' \in {strays, strays + 1}
          /\ UNCHANGED <<lines, posted, shown, row>>
      BY <1>20, <2>2 DEF Cancel
    <3>2. UNCHANGED <<steps, retry, acked, chunk, failures, notice>>
      BY <1>20 DEF Cancel
    <3>3. /\ task' \in [Tasks -> LiveStates \cup {"none", "done"}]
          /\ TasksTracked'
      BY <2>2, <3>1, FinishCancels DEF Unwindings
    <3>4. /\ pc' \in Finishing \cup {"cancelled"}
          /\ posted => pc' \in Finishing
      BY <2>2, <3>1 DEF Finish, AfterDebounce, AfterFinish
    <3>5. unwinding' = "cancelled" /\ tracked' = 0 /\ snapshot' = snapshot
      BY <3>1 DEF Finish
    <3>6. TypeOK'
      BY <3>1, <3>2, <3>3, <3>4, <3>5 DEF TypeOK
    <3>7. ProgressRetired' /\ HistoryCounted'
      BY <2>2, <3>1, <3>2, <3>4 DEF ProgressRetired, HistoryCounted,
         DeltaMatchesRun
    <3>8. RunsCounted'
      BY <2>2, <3>2, <3>4 DEF TypeOK, RunsCounted
    <3>9. AnswersCounted'
      BY <2>2, <3>2, <3>4 DEF TypeOK, AnswersCounted, WholeReplyIsFinal
    <3>10. Served'
      BY <2>2, <3>1, <3>2, <3>4 DEF TypeOK, Served
    <3> QED BY <3>3, <3>6, <3>7, <3>8, <3>9, <3>10
  <2>3. CASE pc \notin Draining \cup {"await_debounce"}
    <3>1. /\ pc' = "cancelled" /\ cancel' = "raised"
          /\ unwinding' \in {unwinding, "cancelled"}
          /\ strays' \in {strays, strays + 1}
          /\ posted' \in {posted, FALSE} /\ (pc = "delete" => ~posted')
          /\ row' \in {row, TRUE}
          /\ UNCHANGED <<lines, shown, debounce>>
      BY <1>20, <2>3 DEF Cancel, TypeOK
    <3>2. /\ pc \notin Ended
          /\ UNCHANGED <<steps, retry, acked, chunk, failures, notice>>
      BY <1>20 DEF Cancel
    <3>3. TypeOK'
      <4>1. strays' \in Nat
        BY <3>1 DEF TypeOK
      <4>2. posted' \in BOOLEAN /\ row' \in BOOLEAN
        BY <3>1 DEF TypeOK
      <4> QED BY <3>1, <3>2, <4>1, <4>2 DEF TypeOK
    <3>4. TasksTracked' /\ HistoryCounted'
      BY <2>3, <3>1, <3>2 DEF TypeOK, TasksTracked, HistoryCounted,
         DeltaMatchesRun
    <3>7. ProgressRetired'
      <4>1. pc # "delete" => ~posted
        BY <2>3, <3>2 DEF ProgressRetired
      <4> QED BY <3>1, <4>1 DEF TypeOK, ProgressRetired
    <3>5. RunsCounted' /\ AnswersCounted'
      BY <3>1, <3>2 DEF TypeOK, RunsCounted, AnswersCounted, WholeReplyIsFinal
    <3>6. Served'
      BY <3>1, <3>2 DEF Served
    <3> QED BY <3>3, <3>4, <3>5, <3>6, <3>7
  <2> QED BY <2>1, <2>2, <2>3
<1>21. ASSUME NEW t \in Tasks, Wake(t) \/ Edited(t) PROVE IInv'
  <2>1. /\ pc \in Draining
        /\ UNCHANGED <<handler, cancel, steps, posted, strays, tracked, retry,
                       reply>>
    BY <1>21 DEF Wake, Edited, TasksTracked
  <2>2. TypeOK' /\ TasksTracked'
    BY <1>21 DEF Wake, Edited, TypeOK, TasksTracked
  <2> QED
    BY <2>1, <2>2 DEF TypeOK, ProgressRetired, RunsCounted, HistoryCounted,
       DeltaMatchesRun, AnswersCounted, WholeReplyIsFinal, Served
<1>22. CASE UNCHANGED vars
  BY <1>22 DEF vars, TypeOK, Tasks, TasksTracked, ProgressRetired, RunsCounted,
     HistoryCounted, DeltaMatchesRun, AnswersCounted, WholeReplyIsFinal, Served
<1> QED
  BY <1>1, <1>2, <1>3, <1>4, <1>5, <1>6, <1>7, <1>8, <1>9, <1>10, <1>11, <1>12,
     <1>13, <1>14, <1>15, <1>16, <1>17, <1>18, <1>19, <1>20, <1>21, <1>22
  DEF Next, Handler, Routing, Drain, Deliver, Tell, DebounceTask

(* The inductive invariant holds in every reachable state.                  *)
THEOREM Invariance == Spec => []IInv
  BY InitIInv, NextIInv, PTL DEF Spec

(* The state of a turn is typed; in particular the retry counter and the    *)
(* chunk counters stay within their bounds.                                 *)
THEOREM TypeCorrect == Spec => []TypeOK
  BY Invariance, PTL DEF IInv

(* No debounced edit is left that could race the delete of the progress     *)
(* message (progress.py, _cancel_debounce).                                 *)
THEOREM EditNeverRacesDelete == Spec => []NoEditRacesDelete
<1>1. IInv => NoEditRacesDelete
  BY DEF IInv, TasksTracked, NoEditRacesDelete, LiveTask
<1> QED BY <1>1, Invariance, PTL

(* The progress message is retired before anything is delivered             *)
(* (mention_handler.py, the finally in handle).                             *)
THEOREM ProgressAlwaysRetired == Spec => []ProgressRetired
  BY Invariance, PTL DEF IInv

(* A whole reply that was acknowledged ends the turn (_deliver).            *)
THEOREM WholeReplyEndsTurn == Spec => []WholeReplyIsFinal
<1>1. IInv => WholeReplyIsFinal
  BY DEF IInv, AnswersCounted
<1> QED BY <1>1, Invariance, PTL

(* The agent is run at most 1 + MaxRetry times, and a reply is split only   *)
(* after that (_deliver).                                                   *)
THEOREM RetryBudgetKept == Spec => []RetryBudget
<1>1. IInv => RetryBudget
  <2> SUFFICES ASSUME IInv PROVE RetryBudget
    OBVIOUS
  <2> QED BY TurnAssumption DEF IInv, RunsCounted, TypeOK, RetryBudget
<1> QED BY <1>1, Invariance, PTL

(* The transcript holds what the posted run added (_deliver).               *)
THEOREM DeltaAlwaysMatchesRun == Spec => []DeltaMatchesRun
<1>1. IInv => DeltaMatchesRun
  BY DEF IInv, HistoryCounted
<1> QED BY <1>1, Invariance, PTL

-----------------------------------------------------------------------------
(* What a step of the handler, or its cancellation, does to what the user   *)
(* sees: answers accumulate while nothing is apologised for, an expected    *)
(* failure is told only to someone without an answer, excuses stay.         *)
LEMMA HandlerStep ==
  ASSUME IInv, Handler \/ Cancel
  PROVE  /\ pc \notin Ended
         /\ acked' \in {acked, acked + 1}
         /\ acked' # acked => notice = "none" /\ notice' = "none"
         /\ \/ notice' = notice
            \/ notice' = "expected" /\ notice = "none" /\ acked = 0 /\ acked' = 0
            \/ notice' = "crash"
         /\ cancel # "no" => cancel' # "no"
         /\ empty => empty'
<1> USE DEF IInv, Goto, display, debounce, retry, reply, handler
<1>1. CASE Refresh
  BY <1>1 DEF Refresh, TypeOK, RunsCounted,
     AnswersCounted, Served
<1>2. CASE History
  BY <1>2 DEF History, TypeOK, RunsCounted,
     AnswersCounted, Served
<1>3. CASE Start
  BY <1>3 DEF Start, TypeOK, RunsCounted,
     AnswersCounted, Served
<1>4. CASE Event
  BY <1>4 DEF Event, TypeOK, RunsCounted,
     AnswersCounted, Served
<1>5. CASE Project
  BY <1>5 DEF Project, TypeOK, RunsCounted,
     AnswersCounted, Served
<1>6. CASE Post
  BY <1>6 DEF Post, TypeOK, RunsCounted,
     AnswersCounted, Served
<1>7. CASE StreamEnds
  BY <1>7 DEF StreamEnds, Finish, TypeOK, RunsCounted,
     AnswersCounted, Served
<1>8. CASE DebounceCancelled
  BY <1>8 DEF DebounceCancelled, TypeOK, RunsCounted,
     AnswersCounted, Served
<1>9. CASE Delete
  BY <1>9 DEF Delete, TypeOK, RunsCounted,
     AnswersCounted, Served
<1>10. CASE Result
  BY <1>10 DEF Result, PostResult, TypeOK, RunsCounted,
     AnswersCounted, Served
<1>11. CASE FaultNotes
  BY <1>11 DEF FaultNotes, TypeOK, RunsCounted,
     AnswersCounted, Served
<1>12. CASE Send
  BY <1>12 DEF Send, AfterOutage, Refused, RetriesSpent, TypeOK, RunsCounted,
     AnswersCounted, Served
<1>13. CASE Backoff
  BY <1>13 DEF Backoff, TypeOK, RunsCounted,
     AnswersCounted, Served
<1>14. CASE Transcript
  BY <1>14 DEF Transcript, AfterTranscript, TypeOK, RunsCounted,
     AnswersCounted, Served
<1>15. CASE Retry
  BY <1>15 DEF Retry, PostResult, RetryHistory, NextAttemptHistory, TypeOK, RunsCounted,
     AnswersCounted, Served
<1>16. CASE Chunk
  BY <1>16 DEF Chunk, NextChunk, WhollyLost, TypeOK, RunsCounted,
     AnswersCounted, Served
<1>17. CASE ChunkRow
  BY <1>17 DEF ChunkRow, NextChunk, WhollyLost, TypeOK, RunsCounted,
     AnswersCounted, Served
<1>18. CASE Notice
  BY <1>18 DEF Notice, TypeOK, RunsCounted,
     AnswersCounted, Served
<1>19. CASE CrashNotice
  BY <1>19 DEF CrashNotice, TypeOK, RunsCounted,
     AnswersCounted, Served
<1>20. CASE Cancel
  BY <1>20 DEF Cancel, Finish, TypeOK, RunsCounted,
     AnswersCounted, Served
<1> QED
  BY <1>1, <1>2, <1>3, <1>4, <1>5, <1>6, <1>7, <1>8, <1>9, <1>10, <1>11, <1>12,
     <1>13, <1>14, <1>15, <1>16, <1>17, <1>18, <1>19, <1>20
  DEF Handler, Routing, Drain, Deliver, Tell

(* Every step of a turn is a step of TurnOutcome, or changes nothing there. *)
LEMMA NextKeepsPromise ==
  IInv /\ IInv' /\ [Next]_vars => [Outcome!Step]_(Outcome!vars)
<1> SUFFICES ASSUME IInv, IInv', [Next]_vars
             PROVE  [Outcome!Step]_(Outcome!vars)
  OBVIOUS
<1>1. CASE Handler \/ Cancel
  <2>1. acked \in Nat /\ acked' \in Nat
    BY DEF IInv, TypeOK
  <2>2. Outcome!MayApologise(notice') /\ notice' \in Outcome!Apologies
    BY <1>1, <2>1, HandlerStep DEF Outcome!MayApologise, Outcome!Apologies,
       IInv, TypeOK
  <2>3. pc' \in Ended =>
            (acked' > 0) \/ notice' # "none" \/ (empty' \/ cancel' # "no")
    BY DEF IInv, Served
  <2>4. /\ pc \notin Ended
        /\ (acked > 0) => (acked' > 0)
        /\ (acked' > 0) # (acked > 0) => notice' = "none"
    BY <1>1, <2>1, HandlerStep
  <2>5. (empty \/ cancel # "no") => (empty' \/ cancel' # "no")
    BY <1>1, HandlerStep
  <2> HIDE DEF Ended
  <2> QED BY <2>2, <2>3, <2>4, <2>5 DEF Outcome!Step
<1>2. CASE DebounceTask \/ UNCHANGED vars
  BY <1>2 DEF DebounceTask, Wake, Edited, vars, handler, reply, retry,
     Outcome!vars
<1> QED BY <1>1, <1>2 DEF Next

(* The turn implements TurnOutcome (handle, _deliver, post_reply,           *)
(* post_chunked, _run_handler): an answer, an apology or an excuse before   *)
(* it is over, and nothing after.  That it is over in the end is checked by *)
(* TLC (KeepsPromise).                                                      *)
THEOREM KeepsPromiseSafely == Spec => Outcome!Safety
<1>1. Init => Outcome!Init
  BY DEF Init, Outcome!Init
<1> QED
  BY <1>1, NextKeepsPromise, Invariance, PTL DEF Spec, Outcome!Safety

=============================================================================
