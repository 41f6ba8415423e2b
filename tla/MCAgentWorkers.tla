---------------------------- MODULE MCAgentWorkers ----------------------------
(***************************************************************************)
(* AgentWorkers for TLC.  Two terminals at work at once are looked at with *)
(* all processes down, and a process with one of them.                     *)
(***************************************************************************)
EXTENDS AgentWorkers

UpdatesOf == {<<"description">>, <<"memory", "tools">>}

BusyTerminals == {c \in Terminals : cmd[c].pc # "idle"}

OneBesideWorkers ==
    Cardinality(BusyTerminals) <= 1 \/ \A n \in Slots : worker[n].pc = "off"

=============================================================================
