---------------------------- MODULE TurnOutcome ----------------------------
(***************************************************************************)
(* What the bridge promises the person who @mentioned an agent, with no    *)
(* word of how: a turn either shows the agent's answer, or tries to say    *)
(* why it cannot, or is excused (the agent had nothing to say, or the      *)
(* bridge is being shut down), and then it is over for good.  MentionTurn  *)
(* is shown to implement this module.                                      *)
(***************************************************************************)

VARIABLES
    answered,   \* some part of the answer was acknowledged by Discord
    apology,    \* the notice tried instead: "none", "expected" or "crash"
    excused,    \* nothing need be said
    over        \* the handler task has ended

vars == <<answered, apology, excused, over>>

Apologies == {"none", "expected", "crash"}

TypeOK ==
    /\ answered \in BOOLEAN
    /\ apology \in Apologies
    /\ excused \in BOOLEAN
    /\ over \in BOOLEAN

Init ==
    /\ answered = FALSE
    /\ apology = "none"
    /\ excused = FALSE
    /\ over = FALSE

(* An expected failure is told only to someone who has seen no answer; a    *)
(* crash notice may follow part of an answer or a failed first notice.      *)
MayApologise(a) ==
    \/ a = apology
    \/ a = "expected" /\ apology = "none" /\ ~answered
    \/ a = "crash"

(* One step of a turn: it may answer, apologise, be excused and end.  It    *)
(* ends only when the user has been served, and answers only while it has   *)
(* apologised for nothing.                                                  *)
Step ==
    /\ ~over
    /\ answered' \in BOOLEAN /\ (answered => answered')
    /\ apology' \in Apologies
    /\ MayApologise(apology')
    /\ excused' \in BOOLEAN /\ (excused => excused')
    /\ over' \in BOOLEAN
    /\ answered' # answered => apology' = "none"
    /\ over' => answered' \/ apology' # "none" \/ excused'

(* What a turn may never do, and that it ends.                              *)
Safety == Init /\ [][Step]_vars

Spec == Safety /\ <>over

=============================================================================
