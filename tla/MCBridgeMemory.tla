---------------------------- MODULE MCBridgeMemory ----------------------------
(***************************************************************************)
(* BridgeMemory for TLC: tasks are interchangeable.  The single flight of  *)
(* a fetch is the one place where three tasks meet; any other two run      *)
(* together.  They do in a short channel; a channel long enough to have a  *)
(* window of several messages is long from the start and is for one task   *)
(* alone, in one life of the process.                                      *)
(***************************************************************************)
EXTENDS BridgeMemory

CONSTANT MaxShort  \* bound: messages of a short channel at the start

Symmetry == Permutations(Tasks)

Started == {t \in Tasks : task[t].op # "none"}

ThreeOnlyMention ==
    Cardinality(Started) <= 2 \/ \A t \in Started : task[t].op = "mention"

LongIsForOne ==
    Len(chan) <= MaxPosts \/ (Cardinality(Started) <= 1 /\ restarts = 0)

(* In a long channel every reply has a transcript that can be read.         *)
Long == Len(chan) = MaxOld /\ enabled /\ GoodRows(table) = toggles

MCInit == Init /\ (Len(chan) <= MaxShort \/ Long)

MCSpec == MCInit /\ [][Next]_vars

=============================================================================
