------------------------------- MODULE Roster -------------------------------
(***************************************************************************)
(* The roster verbs on one host: disco agent, mcp and tools start, stop    *)
(* and restart, each on one name or on all.  A command is a CLI process    *)
(* that takes no lock and drives the supervisor's slots one REST call at a *)
(* time.  One command is followed call by call; other commands, `disco     *)
(* start' and `disco stop' run beside it and meet it in the slots only.    *)
(* A command that is killed holds nothing: it just does not go on.         *)
(*                                                                         *)
(* The mesh says which agents are online on any host; starting an agent    *)
(* that is online elsewhere is to be refused.                              *)
(***************************************************************************)
EXTENDS FiniteSets

CONSTANTS
    Agents,     \* agent ids
    McpSlots,   \* mcp-<server> slots, one per server of mcp.json at any time
    Tools       \* the slot of the tools host

ASSUME RosterAssumption ==
    Agents \cap McpSlots = {} /\ Tools \notin Agents \cup McpSlots

VARIABLES
    up,        \* the supervisor of the host answers
    proc,      \* its slots: "absent", "stopped" or "running"
    online,    \* agents of this host that the mesh shows
    elsewhere, \* agents of other hosts that the mesh shows
    cmd        \* the command

vars == <<up, proc, online, elsewhere, cmd>>

Slots == Agents \cup McpSlots \cup {Tools}

CmdType ==
    [kind: {"agent", "mcp", "tools"}, verb: {"start", "stop", "restart"},
     all: BOOLEAN,
     pc: {"idle", "up", "list", "probe", "act"},
     todo: SUBSET Slots,    \* slots it has still to act on
     item: SUBSET Slots,    \* the agent start --all has listed for
     here: SUBSET Slots,    \* of those, listed as Running
     live: SUBSET Agents,   \* of those, on the mesh as probed
     blind: BOOLEAN,        \* the probe failed
     known: SUBSET Agents]  \* elsewhere ever since it began (history)

TypeOK ==
    /\ up \in BOOLEAN
    /\ proc \in [Slots -> {"absent", "stopped", "running"}]
    /\ online \in SUBSET Agents
    /\ elsewhere \in SUBSET Agents
    /\ cmd \in CmdType
    /\ ~up => \A s \in Slots : proc[s] = "absent"
    /\ cmd.pc = "act" => cmd.todo # {}

Closed == [s \in Slots |-> "absent"]

(* A workspace just opened: the agents and servers the project declares and *)
(* the tools slot, none of them started.                                    *)
Opened(declared) == [s \in Slots |-> IF s \in declared \cup {Tools}
                                     THEN "stopped" ELSE "absent"]

Idle == [kind |-> "agent", verb |-> "start", all |-> FALSE, pc |-> "idle",
         todo |-> {}, item |-> {}, here |-> {}, live |-> {},
         blind |-> FALSE, known |-> {}]

Init ==
    /\ up = FALSE /\ proc = Closed
    /\ online = {} /\ elsewhere = {}
    /\ cmd = Idle

-----------------------------------------------------------------------------
At(pc) == cmd.pc = pc
Is(kind, verb) == cmd.kind = kind /\ cmd.verb = verb
StartsAllAgents == Is("agent", "start") /\ cmd.all

Goto(pc) == cmd' = [cmd EXCEPT !.pc = pc]
End == cmd' = Idle

UnchangedHost == UNCHANGED <<up, proc, online, elsewhere>>

(* The operator runs a command.  The defined agents of agent start --all    *)
(* and the servers of mcp start --all are read from disk first, and         *)
(* reserved names left out; agent start refuses one at once.                *)
Begin(kind, verb, all, todo) ==
    /\ At("idle")
    /\ ~(kind = "agent" /\ verb = "start" /\ todo = {Tools})
    /\ cmd' =
          [Idle EXCEPT !.kind = kind, !.verb = verb, !.all = all,
                       !.pc = "up", !.todo = todo,
                       !.known = IF kind = "agent" /\ verb = "start"
                                 THEN elsewhere \cap todo ELSE {}]
    /\ UnchangedHost

BeginOne(verb) ==
    \/ \E s \in Slots : Begin("agent", verb, FALSE, {s})
    \/ \E s \in McpSlots : Begin("mcp", verb, FALSE, {s})
    \/ Begin("tools", verb, FALSE, {Tools})

BeginAll(verb) ==
    IF verb = "start"
    THEN \/ \E defined \in SUBSET Agents :
               Begin("agent", verb, TRUE, defined)
         \/ \E servers \in SUBSET McpSlots :
               servers # {} /\ Begin("mcp", verb, TRUE, servers)
    ELSE \E kind \in {"agent", "mcp"} : Begin(kind, verb, TRUE, {})

(* workspace_is_up, by a REST call that may also fail.                      *)
NotUp ==
    /\ At("up")
    /\ End
    /\ UnchangedHost

IsUp ==
    /\ At("up") /\ up
    /\ CASE StartsAllAgents /\ cmd.todo = {} -> End
         [] StartsAllAgents /\ cmd.todo # {} -> Goto("probe")
         [] ~cmd.all /\ cmd.verb # "start" -> Goto("act")
         [] OTHER -> Goto("list")
    /\ UnchangedHost

-----------------------------------------------------------------------------
(* What each kind of verb takes for its own: an agent is every slot that is *)
(* not reserved.                                                            *)
Mine(kind) == CASE kind = "agent" -> Slots \ {Tools}
                [] kind = "mcp" -> McpSlots
                [] OTHER -> {Tools}

Running == {s \in Mine(cmd.kind) : proc[s] = "running"}

(* The slot is dealt with; the command goes on with the next or ends.       *)
Advance(s) ==
    IF cmd.todo = {s} THEN End
    ELSE cmd' = [cmd EXCEPT !.todo = @ \ {s}, !.item = {},
                            !.pc = IF StartsAllAgents THEN "list"
                                   ELSE "act"]

(* GET /processes: once, but anew for every agent of start --all.           *)
ListForAgent ==
    /\ At("list") /\ StartsAllAgents /\ up
    /\ \E a \in cmd.todo :
          cmd' = [cmd EXCEPT !.item = {a}, !.pc = "act",
                             !.here = Running \cap {a}]
    /\ UnchangedHost

(* Mutated form: a sweep does not look whether there is anything to do.     *)
SweepOverEmpty(slots) == cmd' = [cmd EXCEPT !.todo = slots, !.pc = "act"]

SweepOver(slots) ==
    IF slots = {} THEN End
    ELSE cmd' = [cmd EXCEPT !.todo = slots, !.pc = "act"]

ListToSweep ==
    /\ At("list") /\ cmd.all /\ cmd.verb # "start" /\ up
    /\ SweepOver(Running)
    /\ UnchangedHost

ListToStart ==
    /\ At("list") /\ cmd.verb = "start" /\ ~StartsAllAgents /\ up
    /\ LET todo == cmd.todo
           probes == cmd.kind = "agent" /\ ~todo \subseteq Running
       IN cmd' = [cmd EXCEPT !.here = Running \cap todo,
                             !.pc = IF probes THEN "probe" ELSE "act"]
    /\ UnchangedHost

ListFails ==
    /\ At("list")
    /\ IF StartsAllAgents
       THEN \E a \in cmd.todo : Advance(a)
       ELSE End
    /\ UnchangedHost

(* The mesh is read once per command; if it cannot be, the guard is off.    *)
ProbeMesh(ok) ==
    /\ At("probe")
    /\ cmd' = [cmd EXCEPT !.live = IF ok
                                   THEN (online \cup elsewhere) \cap cmd.todo
                                   ELSE {},
                          !.blind = ~ok,
                          !.pc = IF cmd.all THEN "list" ELSE "act"]
    /\ UnchangedHost

-----------------------------------------------------------------------------
Items == IF StartsAllAgents THEN cmd.item ELSE cmd.todo

(* Mutated form: the sweep does not hand the probed roster down.            *)
IsDuplicateUnswept(s) ==
    ~cmd.all /\ s \in cmd.live \ cmd.here

(* The duplicate guard; what runs here is restarted whatever the mesh says. *)
IsDuplicate(s) == s \in cmd.live \ cmd.here

SkipDuplicate ==
    /\ At("act")
    /\ \E s \in Items : IsDuplicate(s) /\ Advance(s)
    /\ UnchangedHost

ToActOn == {s \in Items : ~IsDuplicate(s)}

Operation(s) ==
    IF cmd.verb = "start" /\ s \in cmd.here THEN "restart"
    ELSE cmd.verb

(* The supervisor rejects a slot that is not declared, and to start one     *)
(* that runs.                                                               *)
Rejects(s) ==
    \/ proc[s] = "absent"
    \/ Operation(s) = "start" /\ proc[s] = "running"

Effect(s) ==
    proc' = [proc EXCEPT ![s] = IF cmd.verb = "stop" THEN "stopped"
                                ELSE "running"]

Act ==
    /\ At("act") /\ up
    /\ \E s \in ToActOn :
          ~Rejects(s) /\ Effect(s) /\ Advance(s)
    /\ UNCHANGED <<up, online, elsewhere>>

(* Mutated form: a fault raised by one agent ends the sweep.                *)
GoesOnIfRejected(s, rejected) == rejected

(* A failed item of a sweep is reported, and the sweep goes on: for agents  *)
(* always, for mcp only if start --all could not start a slot.              *)
GoesOn(s, rejected) ==
    \/ cmd.kind = "agent"
    \/ rejected /\ cmd.kind = "mcp" /\ Operation(s) = "start"

AfterFault(s, rejected) ==
    IF cmd.all /\ GoesOn(s, rejected) THEN Advance(s) ELSE End

ActRejected ==
    /\ At("act") /\ up
    /\ \E s \in ToActOn : Rejects(s) /\ AfterFault(s, TRUE)
    /\ UnchangedHost

(* A transport fault or a 5xx, before or after the call took effect.        *)
ActFails ==
    /\ At("act")
    /\ \E s \in ToActOn :
          /\ AfterFault(s, FALSE)
          /\ \/ UNCHANGED proc
             \/ up /\ ~Rejects(s) /\ Effect(s)
    /\ UNCHANGED <<up, online, elsewhere>>

Step ==
    \/ NotUp \/ IsUp
    \/ ListForAgent \/ ListToSweep \/ ListToStart \/ ListFails
    \/ \E ok \in BOOLEAN : ProbeMesh(ok)
    \/ SkipDuplicate \/ Act \/ ActRejected \/ ActFails

-----------------------------------------------------------------------------
(* disco start and disco stop, or the supervisor dies.                      *)
OpenWorkspace(declared) ==
    /\ ~up
    /\ up' = TRUE /\ proc' = Opened(declared)
    /\ UNCHANGED <<online, elsewhere, cmd>>

CloseWorkspace ==
    /\ up
    /\ up' = FALSE /\ proc' = Closed
    /\ UNCHANGED <<online, elsewhere, cmd>>

(* Another command, or the failing of a process and its restart, changes a  *)
(* declared slot.                                                           *)
OtherCommand(s) ==
    /\ up /\ proc[s] # "absent"
    /\ proc' = [proc EXCEPT ![s] = IF @ = "running" THEN "stopped"
                                  ELSE "running"]
    /\ UNCHANGED <<up, online, elsewhere, cmd>>

(* The mesh lags behind the processes of this host.                         *)
Register(a) ==
    /\ proc[a] = "running" /\ a \notin online
    /\ online' = online \cup {a}
    /\ UNCHANGED <<up, proc, elsewhere, cmd>>

Deregister(a) ==
    /\ a \in online /\ proc[a] # "running"
    /\ online' = online \ {a}
    /\ UNCHANGED <<up, proc, elsewhere, cmd>>

(* An agent comes or goes on another host.                                  *)
OtherHost(a) ==
    /\ elsewhere' = IF a \in elsewhere THEN elsewhere \ {a}
                    ELSE elsewhere \cup {a}
    /\ cmd' = [cmd EXCEPT !.known = @ \cap elsewhere']
    /\ UNCHANGED <<up, proc, online>>

Next ==
    \/ \E verb \in {"start", "stop", "restart"} :
          BeginOne(verb) \/ BeginAll(verb)
    \/ Step
    \/ \E s \in Slots : OtherCommand(s)
    \/ \E declared \in SUBSET (Agents \cup McpSlots) :
          OpenWorkspace(declared)
    \/ CloseWorkspace
    \/ \E a \in Agents : Register(a) \/ Deregister(a) \/ OtherHost(a)

Spec == Init /\ [][Next]_vars

-----------------------------------------------------------------------------
(* The cross-host guard: an agent that was online on another host when the  *)
(* command began, and ever since, is not started here by agent start or     *)
(* start --all, unless it was found running here too or the mesh could not  *)
(* be read (roster.py, agent_start: the restart branch, the probe, and the  *)
(* roster a sweep hands down).                                              *)
NoKnownDuplicate ==
    [][\A a \in Agents :
          (/\ cmd' # cmd /\ Is("agent", "start")
           /\ proc[a] = "stopped" /\ proc'[a] = "running")
          => a \notin cmd.known \/ a \in cmd.here \/ cmd.blind]_vars

AtGuard == At("act") \/ (At("list") /\ StartsAllAgents)

(* A sweep of the agents is best effort: it ends when it has dealt with     *)
(* each of its agents, whatever fails (roster.py, the --all verbs).         *)
SweepVisitsAll ==
    [][cmd.kind = "agent" /\ cmd.all /\ AtGuard /\ cmd'.pc = "idle"
       => \E s \in cmd.todo : cmd.todo = {s}]_vars

(* The inductive invariant.  A command that has something to act on knows   *)
(* on what, and when agent start comes to the guard it knows of every agent *)
(* that was elsewhere all along, or has found it running here.              *)
TodoLeft ==
    ~At("idle") /\ cmd.todo = {} =>
       /\ cmd.all /\ cmd.pc \in {"up", "list"}
       /\ cmd.verb # "start" \/ (cmd.kind = "agent" /\ At("up"))

ItemOfTodo == cmd.item \subseteq cmd.todo /\ (cmd.item # {} => At("act"))

GuardInformed ==
    /\ cmd.known \subseteq elsewhere
    /\ AtGuard /\ Is("agent", "start") /\ ~cmd.blind =>
          cmd.known \cap cmd.todo \subseteq
             IF cmd.all THEN cmd.live ELSE cmd.live \cup cmd.here

IInv == TypeOK /\ TodoLeft /\ ItemOfTodo /\ GuardInformed

-----------------------------------------------------------------------------
(* A claim of the code that the code does not keep: agent stop --all and    *)
(* restart --all act on "exactly this host's Running agent processes"       *)
(* (roster.py, agent_stop_all); the slots of mcp servers are taken for      *)
(* agents.                                                                  *)
SweepStaysInRoster ==
    cmd.kind = "agent" /\ cmd.all => cmd.todo \subseteq Agents

=============================================================================
