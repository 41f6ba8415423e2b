---------------------------- MODULE Roster_proofs ----------------------------
(***************************************************************************)
(* Proofs about Roster, for any sets of agents and MCP slots: it is typed, *)
(* agent start never starts an agent it could know to be elsewhere, and a  *)
(* sweep of agents deals with each of them.                                *)
(***************************************************************************)
EXTENDS Roster, TLAPS

USE DEF At, Is, StartsAllAgents, Goto, End

LEMMA IdleTyped == Idle \in CmdType /\ Idle.pc = "idle" /\ Idle.known = {}
                   /\ Idle.item = {} /\ Idle.todo = {}
  BY DEF Idle, CmdType

LEMMA InitIInv == Init => IInv
<1> SUFFICES ASSUME Init PROVE IInv
  OBVIOUS
<1>1. cmd = Idle
  BY DEF Init
<1>2. TypeOK
  BY <1>1, IdleTyped DEF Init, TypeOK, Closed
<1> QED BY <1>1, <1>2, IdleTyped DEF IInv, TodoLeft, ItemOfTodo, GuardInformed,
           AtGuard

(* Ending leaves nothing to say of the command.                             *)
LEMMA EndKeeps ==
  ASSUME IInv, End,
         up' = up, elsewhere' = elsewhere, online' = online,
         proc' \in [Slots -> {"absent", "stopped", "running"}],
         up' \/ proc' = proc
  PROVE  IInv'
<1>1. cmd' = Idle
  OBVIOUS
<1>2. TypeOK'
  BY <1>1, IdleTyped DEF IInv, TypeOK
<1> QED BY <1>1, <1>2, IdleTyped DEF IInv, TodoLeft, ItemOfTodo, GuardInformed,
           AtGuard

(* The slot that is dealt with drops out of what the guard is about.        *)
LEMMA AdvanceKeeps ==
  ASSUME IInv, AtGuard, NEW s \in cmd.todo, Advance(s),
         up' = up, elsewhere' = elsewhere, online' = online,
         proc' \in [Slots -> {"absent", "stopped", "running"}],
         up' \/ proc' = proc
  PROVE  IInv'
<1>1. CASE cmd.todo = {s}
  BY <1>1, EndKeeps DEF Advance
<1>2. CASE cmd.todo # {s}
  <2> DEFINE pc == IF StartsAllAgents THEN "list" ELSE "act"
  <2>1. cmd' = [cmd EXCEPT !.todo = @ \ {s}, !.item = {}, !.pc = pc]
    BY <1>2 DEF Advance
  <2>2. cmd \in CmdType
    BY DEF IInv, TypeOK
  <2>3. /\ cmd' \in CmdType
        /\ cmd'.kind = cmd.kind /\ cmd'.verb = cmd.verb /\ cmd'.all = cmd.all
        /\ cmd'.todo = cmd.todo \ {s} /\ cmd'.item = {} /\ cmd'.pc = pc
        /\ cmd'.here = cmd.here /\ cmd'.live = cmd.live
        /\ cmd'.blind = cmd.blind /\ cmd'.known = cmd.known
    BY <2>1, <2>2 DEF CmdType
  <2>4. cmd'.todo # {}
    BY <1>2, <2>3
  <2>5. TypeOK'
    BY <2>3, <2>4 DEF IInv, TypeOK
  <2>6. TodoLeft' /\ ItemOfTodo'
    BY <2>3, <2>4 DEF TodoLeft, ItemOfTodo
  <2>7. GuardInformed'
    BY <2>3 DEF IInv, GuardInformed, AtGuard
  <2> QED BY <2>5, <2>6, <2>7 DEF IInv
<1> QED BY <1>1, <1>2

(* What a step at the guard acts on is something the command has to do.     *)
LEMMA ItemsAreTodo == IInv => Items \subseteq cmd.todo
  BY DEF IInv, ItemOfTodo, Items

LEMMA ActingKeeps ==
  ASSUME IInv, SkipDuplicate \/ Act \/ ActRejected \/ ActFails
  PROVE  IInv'
<1>1. AtGuard
  BY DEF SkipDuplicate, Act, ActRejected, ActFails, AtGuard
<1>2. \A s \in Slots : Effect(s) =>
         proc' \in [Slots -> {"absent", "stopped", "running"}]
  BY DEF IInv, TypeOK, Effect
<1>3. cmd.todo \subseteq Slots
  BY DEF IInv, TypeOK, CmdType
<1>4. PICK s \in cmd.todo : Advance(s) \/ End
  BY ItemsAreTodo DEF SkipDuplicate, Act, ActRejected, ActFails, ToActOn,
     AfterFault
<1>5. /\ up' = up /\ elsewhere' = elsewhere /\ online' = online
      /\ proc' \in [Slots -> {"absent", "stopped", "running"}]
      /\ up' \/ proc' = proc
  BY <1>2, <1>3, ItemsAreTodo DEF SkipDuplicate, Act, ActRejected, ActFails,
     ToActOn, UnchangedHost, IInv, TypeOK
<1> QED BY <1>1, <1>4, <1>5, AdvanceKeeps, EndKeeps

LEMMA StepKeeps ==
  ASSUME IInv, Step
  PROVE  IInv'
<1>1. cmd \in CmdType
  BY DEF IInv, TypeOK
<1>2. CASE NotUp
  BY <1>2, EndKeeps DEF NotUp, UnchangedHost, IInv, TypeOK
<1>3. CASE IsUp
  <2>1. CASE StartsAllAgents /\ cmd.todo = {}
    BY <1>3, <2>1, EndKeeps DEF IsUp, UnchangedHost, IInv, TypeOK
  <2>2. CASE ~(StartsAllAgents /\ cmd.todo = {})
    <3>1. PICK pc \in {"probe", "act", "list"} :
             /\ cmd' = [cmd EXCEPT !.pc = pc]
             /\ pc = "act" => ~cmd.all /\ cmd.verb # "start"
             /\ pc = "probe" => cmd.todo # {}
             /\ pc = "list" => ~StartsAllAgents
             /\ At("up") /\ UnchangedHost
      BY <1>3, <2>2 DEF IsUp
    <3>2. /\ cmd' \in CmdType /\ cmd'.pc = pc
          /\ cmd'.kind = cmd.kind /\ cmd'.verb = cmd.verb
          /\ cmd'.all = cmd.all /\ cmd'.todo = cmd.todo
          /\ cmd'.item = cmd.item /\ cmd'.known = cmd.known
      BY <1>1, <3>1 DEF CmdType
    <3>3. TypeOK' /\ TodoLeft' /\ ItemOfTodo'
      BY <3>1, <3>2 DEF IInv, TypeOK, TodoLeft, ItemOfTodo, UnchangedHost,
         CmdType
    <3>4. GuardInformed'
      BY <3>1, <3>2 DEF IInv, GuardInformed, AtGuard, UnchangedHost
    <3> QED BY <3>3, <3>4 DEF IInv
  <2> QED BY <2>1, <2>2
<1>4. CASE ListForAgent
  <2>1. PICK a \in cmd.todo :
           cmd' = [cmd EXCEPT !.item = {a}, !.pc = "act",
                              !.here = Running \cap {a}]
    BY <1>4 DEF ListForAgent
  <2>2. a \in Slots
    BY <1>1 DEF CmdType
  <2>3. /\ cmd' \in CmdType /\ cmd'.item = {a}
        /\ cmd'.kind = cmd.kind /\ cmd'.verb = cmd.verb
        /\ cmd'.all = cmd.all /\ cmd'.todo = cmd.todo
        /\ cmd'.live = cmd.live /\ cmd'.known = cmd.known
        /\ cmd'.blind = cmd.blind /\ cmd'.pc = "act"
    BY <1>1, <2>1, <2>2 DEF CmdType
  <2>4. TypeOK' /\ TodoLeft' /\ ItemOfTodo' /\ GuardInformed'
    BY <1>4, <2>3 DEF ListForAgent, IInv, TypeOK, TodoLeft, ItemOfTodo,
       GuardInformed, AtGuard, UnchangedHost
  <2> QED BY <2>4 DEF IInv
<1>5. CASE ListToSweep
  <2>1. CASE Running = {}
    BY <1>5, <2>1, EndKeeps DEF ListToSweep, SweepOver, UnchangedHost, IInv,
       TypeOK
  <2>2. CASE Running # {}
    <3>1. cmd' = [cmd EXCEPT !.todo = Running, !.pc = "act"]
      BY <1>5, <2>2 DEF ListToSweep, SweepOver
    <3>2. Running \subseteq Slots
      BY DEF Running, Mine, Slots
    <3>3. /\ cmd' \in CmdType /\ cmd'.item = cmd.item
          /\ cmd'.verb = cmd.verb /\ cmd'.todo = Running
          /\ cmd'.known = cmd.known /\ cmd'.pc = "act"
      BY <1>1, <3>1, <3>2 DEF CmdType
    <3>4. cmd.item = {}
      BY <1>5 DEF IInv, ItemOfTodo, ListToSweep
    <3> QED BY <1>5, <2>2, <3>3, <3>4 DEF ListToSweep, IInv, TypeOK, TodoLeft,
         ItemOfTodo, GuardInformed, UnchangedHost
  <2> QED BY <2>1, <2>2
<1>6. CASE ListToStart
  <2> DEFINE pc == IF cmd.kind = "agent" /\ ~cmd.todo \subseteq Running
                   THEN "probe" ELSE "act"
  <2>1. /\ cmd' = [cmd EXCEPT !.here = Running \cap cmd.todo, !.pc = pc]
        /\ At("list") /\ cmd.verb = "start" /\ ~StartsAllAgents /\ UnchangedHost
    BY <1>6 DEF ListToStart
  <2>2. /\ cmd' \in CmdType /\ cmd'.pc = pc
        /\ cmd'.kind = cmd.kind /\ cmd'.verb = cmd.verb
        /\ cmd'.all = cmd.all /\ cmd'.todo = cmd.todo
        /\ cmd'.item = cmd.item /\ cmd'.live = cmd.live
        /\ cmd'.here = Running \cap cmd.todo
        /\ cmd'.blind = cmd.blind /\ cmd'.known = cmd.known
    BY <1>1, <2>1 DEF CmdType
  <2>3. cmd.todo # {}
    BY <2>1 DEF IInv, TodoLeft
  <2>4. TypeOK' /\ TodoLeft' /\ ItemOfTodo'
    BY <2>1, <2>2, <2>3 DEF IInv, TypeOK, TodoLeft, ItemOfTodo, UnchangedHost
  <2>5. GuardInformed'
    BY <2>1, <2>2 DEF IInv, GuardInformed, AtGuard, UnchangedHost
  <2> QED BY <2>4, <2>5 DEF IInv
<1>7. CASE ListFails
  <2>1. CASE StartsAllAgents
    BY <1>7, <2>1, AdvanceKeeps DEF ListFails, AtGuard, UnchangedHost, IInv,
       TypeOK
  <2>2. CASE ~StartsAllAgents
    BY <1>7, <2>2, EndKeeps DEF ListFails, UnchangedHost, IInv, TypeOK
  <2> QED BY <2>1, <2>2
<1>8. ASSUME NEW ok \in BOOLEAN, ProbeMesh(ok)
      PROVE  IInv'
  <2> DEFINE live == IF ok THEN (online \cup elsewhere) \cap cmd.todo ELSE {}
             pc == IF cmd.all THEN "list" ELSE "act"
  <2>1. /\ cmd' = [cmd EXCEPT !.live = live, !.blind = ~ok, !.pc = pc]
        /\ At("probe") /\ UnchangedHost
    BY <1>8 DEF ProbeMesh
  <2>2. live \in SUBSET Agents
    BY DEF IInv, TypeOK
  <2>3. /\ cmd' \in CmdType /\ cmd'.pc = pc
        /\ cmd'.kind = cmd.kind /\ cmd'.verb = cmd.verb
        /\ cmd'.all = cmd.all /\ cmd'.todo = cmd.todo
        /\ cmd'.item = cmd.item /\ cmd'.live = live
        /\ cmd'.blind = ~ok /\ cmd'.known = cmd.known
    BY <1>1, <2>1, <2>2 DEF CmdType
  <2>4. cmd.todo # {}
    BY <2>1 DEF IInv, TodoLeft
  <2>5. TypeOK' /\ TodoLeft' /\ ItemOfTodo'
    BY <2>1, <2>3, <2>4 DEF IInv, TypeOK, TodoLeft, ItemOfTodo, UnchangedHost
  <2>6. cmd'.known \subseteq elsewhere'
    BY <2>1, <2>3 DEF IInv, GuardInformed, UnchangedHost
  <2>7. ~cmd'.blind => cmd'.known \cap cmd'.todo \subseteq cmd'.live
    <3>1. CASE ok
      <4>1. live = (online \cup elsewhere) \cap cmd.todo
        BY <3>1
      <4>2. elsewhere' = elsewhere
        BY <2>1 DEF UnchangedHost
      <4> HIDE DEF live
      <4> QED BY <2>3, <2>6, <4>1, <4>2
    <3>2. CASE ~ok
      BY <2>3, <3>2
    <3> QED BY <3>1, <3>2
  <2>8. GuardInformed'
    BY <2>6, <2>7 DEF GuardInformed
  <2> QED BY <2>5, <2>8 DEF IInv
<1>9. CASE SkipDuplicate \/ Act \/ ActRejected \/ ActFails
  BY <1>9, ActingKeeps
<1> QED BY <1>2, <1>3, <1>4, <1>5, <1>6, <1>7, <1>8, <1>9 DEF Step

(* A command that begins knows of nobody, and is not at the guard yet.      *)
LEMMA BeginKeeps ==
  ASSUME IInv, NEW kind \in {"agent", "mcp", "tools"},
         NEW verb \in {"start", "stop", "restart"}, NEW all \in BOOLEAN,
         NEW todo \in SUBSET Slots, Begin(kind, verb, all, todo),
         todo = {} => all /\ (verb # "start" \/ kind = "agent")
  PROVE  IInv'
<1> DEFINE known == IF kind = "agent" /\ verb = "start"
                    THEN elsewhere \cap todo ELSE {}
<1>1. /\ cmd' = [Idle EXCEPT !.kind = kind, !.verb = verb, !.all = all,
                             !.pc = "up", !.todo = todo, !.known = known]
      /\ UnchangedHost
  BY DEF Begin
<1>2. known \in SUBSET Agents /\ known \subseteq elsewhere
  BY DEF IInv, TypeOK
<1>3. /\ cmd' \in CmdType /\ cmd'.pc = "up" /\ cmd'.kind = kind
      /\ cmd'.verb = verb /\ cmd'.all = all /\ cmd'.todo = todo
      /\ cmd'.item = {} /\ cmd'.known = known
  BY <1>1, <1>2, IdleTyped DEF CmdType, Idle
<1>4. TypeOK' /\ TodoLeft' /\ ItemOfTodo'
  BY <1>1, <1>3 DEF IInv, TypeOK, TodoLeft, ItemOfTodo, UnchangedHost
<1>5. GuardInformed'
  BY <1>1, <1>2, <1>3 DEF GuardInformed, AtGuard, UnchangedHost
<1> QED BY <1>4, <1>5 DEF IInv

(* What others do leaves the command alone; an agent that leaves the mesh   *)
(* elsewhere is no longer one that was there all along.                     *)
LEMMA OthersKeep ==
  ASSUME IInv,
         \/ \E s \in Slots : OtherCommand(s)
         \/ \E declared \in SUBSET (Agents \cup McpSlots) :
               OpenWorkspace(declared)
         \/ CloseWorkspace
         \/ \E a \in Agents : Register(a) \/ Deregister(a) \/ OtherHost(a)
  PROVE  IInv'
<1>1. ASSUME NEW s \in Slots, OtherCommand(s)
      PROVE  IInv'
  BY <1>1 DEF OtherCommand, IInv, TypeOK, TodoLeft, ItemOfTodo, GuardInformed,
     AtGuard
<1>2. ASSUME NEW declared \in SUBSET (Agents \cup McpSlots),
             OpenWorkspace(declared)
      PROVE  IInv'
  BY <1>2 DEF OpenWorkspace, Opened, IInv, TypeOK, TodoLeft, ItemOfTodo,
     GuardInformed, AtGuard
<1>3. CASE CloseWorkspace
  BY <1>3 DEF CloseWorkspace, Closed, IInv, TypeOK, TodoLeft, ItemOfTodo,
     GuardInformed, AtGuard
<1>4. ASSUME NEW a \in Agents, Register(a) \/ Deregister(a)
      PROVE  IInv'
  BY <1>4 DEF Register, Deregister, IInv, TypeOK, TodoLeft, ItemOfTodo,
     GuardInformed, AtGuard
<1>5. ASSUME NEW a \in Agents, OtherHost(a)
      PROVE  IInv'
  <2>1. /\ cmd' = [cmd EXCEPT !.known = @ \cap elsewhere']
        /\ elsewhere' \in SUBSET Agents /\ UNCHANGED <<up, proc, online>>
    BY <1>5 DEF OtherHost, IInv, TypeOK
  <2>2. /\ cmd' \in CmdType /\ cmd'.pc = cmd.pc /\ cmd'.kind = cmd.kind
        /\ cmd'.verb = cmd.verb /\ cmd'.all = cmd.all /\ cmd'.todo = cmd.todo
        /\ cmd'.item = cmd.item /\ cmd'.here = cmd.here
        /\ cmd'.live = cmd.live /\ cmd'.blind = cmd.blind
        /\ cmd'.known = cmd.known \cap elsewhere'
    BY <2>1 DEF IInv, TypeOK, CmdType
  <2>3. TypeOK' /\ TodoLeft' /\ ItemOfTodo'
    BY <2>1, <2>2 DEF IInv, TypeOK, TodoLeft, ItemOfTodo
  <2>4. GuardInformed'
    BY <2>2 DEF IInv, GuardInformed, AtGuard
  <2> QED BY <2>3, <2>4 DEF IInv
<1> QED BY <1>1, <1>2, <1>3, <1>4, <1>5

LEMMA NextIInv == IInv /\ [Next]_vars => IInv'
<1> SUFFICES ASSUME IInv, [Next]_vars PROVE IInv'
  OBVIOUS
<1>1. ASSUME NEW verb \in {"start", "stop", "restart"},
             BeginOne(verb) \/ BeginAll(verb)
      PROVE  IInv'
  <2>1. Agents \subseteq Slots /\ McpSlots \subseteq Slots /\ Tools \in Slots
    BY DEF Slots
  <2>2. CASE BeginOne(verb)
    <3>1. ASSUME NEW s \in Slots, NEW kind \in {"agent", "mcp", "tools"},
                 Begin(kind, verb, FALSE, {s})
          PROVE  IInv'
      <4>1. {s} \in SUBSET Slots /\ {s} # {} /\ FALSE \in BOOLEAN
        OBVIOUS
      <4> QED BY <3>1, <4>1, BeginKeeps
    <3> QED BY <2>1, <2>2, <3>1 DEF BeginOne
  <2>3. CASE BeginAll(verb)
    <3>1. ASSUME NEW defined \in SUBSET Agents,
                 Begin("agent", verb, TRUE, defined)
          PROVE  IInv'
      <4>1. defined \in SUBSET Slots
        BY <2>1
      <4> QED BY <3>1, <4>1, BeginKeeps
    <3>2. ASSUME NEW servers \in SUBSET McpSlots, servers # {},
                 Begin("mcp", verb, TRUE, servers)
          PROVE  IInv'
      <4>1. servers \in SUBSET Slots
        BY <2>1
      <4> QED BY <3>2, <4>1, BeginKeeps
    <3>3. ASSUME verb # "start", NEW kind \in {"agent", "mcp"},
                 Begin(kind, verb, TRUE, {})
          PROVE  IInv'
      <4>1. {} \in SUBSET Slots /\ TRUE \in BOOLEAN
        OBVIOUS
      <4> QED BY <3>3, <4>1, BeginKeeps
    <3> QED BY <2>3, <3>1, <3>2, <3>3 DEF BeginAll
  <2> QED BY <1>1, <2>2, <2>3
<1>2. CASE Step
  BY <1>2, StepKeeps
<1>3. CASE UNCHANGED vars
  BY <1>3 DEF vars, IInv, TypeOK, TodoLeft, ItemOfTodo, GuardInformed, AtGuard
<1> QED BY <1>1, <1>2, <1>3, OthersKeep DEF Next

LEMMA Invariance == Spec => []IInv
<1> QED BY InitIInv, NextIInv, PTL DEF Spec

(* Type correctness: a closed workspace has no slots, and a command that    *)
(* comes to act has something to act on.                                    *)
THEOREM TypeCorrect == Spec => []TypeOK
<1>1. IInv => TypeOK
  BY DEF IInv
<1> QED BY <1>1, Invariance, PTL

(* Only a command's own Act starts a slot while the command moves.          *)
LEMMA StartsAreActs ==
  ASSUME IInv, [Next]_vars, NEW a \in Agents, cmd' # cmd,
         proc[a] = "stopped", proc'[a] = "running"
  PROVE  a \in ToActOn /\ At("act")
<1>1. a \in Slots
  BY DEF Slots
<1>2. \A s \in Slots : Effect(s) => s = a
  BY <1>1 DEF Effect, IInv, TypeOK
<1>3. proc' # proc
  OBVIOUS
<1>4. Act \/ ActFails
  BY <1>3 DEF Next, vars, Step, BeginOne, BeginAll, Begin, UnchangedHost,
     NotUp, IsUp, ListForAgent, ListToSweep, ListToStart, ListFails, ProbeMesh,
     SkipDuplicate, ActRejected, OtherCommand, OpenWorkspace, CloseWorkspace,
     Register, Deregister, OtherHost
<1>5. ToActOn \subseteq Slots
  BY ItemsAreTodo DEF ToActOn, IInv, TypeOK, CmdType
<1> QED BY <1>2, <1>3, <1>4, <1>5 DEF Act, ActFails

(* The cross-host guard, for any number of agents and any interleaving with *)
(* other commands, other hosts and a workspace that closes and reopens: an  *)
(* agent online elsewhere from before agent start or start --all began is   *)
(* not started by it, unless it ran here or the mesh could not be read.     *)
THEOREM NeverKnownDuplicate == Spec => NoKnownDuplicate
<1>1. IInv /\ [Next]_vars =>
        [\A a \in Agents :
           (/\ cmd' # cmd /\ Is("agent", "start")
            /\ proc[a] = "stopped" /\ proc'[a] = "running")
           => a \notin cmd.known \/ a \in cmd.here \/ cmd.blind]_vars
  <2> SUFFICES ASSUME IInv, [Next]_vars, NEW a \in Agents, cmd' # cmd,
                      Is("agent", "start"),
                      proc[a] = "stopped", proc'[a] = "running",
                      a \in cmd.known, ~cmd.blind
               PROVE  a \in cmd.here
    OBVIOUS
  <2>1. a \in ToActOn /\ At("act")
    BY StartsAreActs
  <2>2. a \in cmd.todo
    BY <2>1, ItemsAreTodo DEF ToActOn
  <2>3. AtGuard
    BY <2>1 DEF AtGuard
  <2>4. a \in cmd.live \cup cmd.here
    BY <2>2, <2>3 DEF IInv, GuardInformed
  <2> QED BY <2>1, <2>4 DEF ToActOn, IsDuplicate
<1> QED BY <1>1, Invariance, PTL DEF Spec, NoKnownDuplicate

(* A sweep of agents ends at its last agent only, whatever fails before.    *)
THEOREM SweepsVisitAll == Spec => SweepVisitsAll
<1>1. IInv /\ [Next]_vars =>
        [cmd.kind = "agent" /\ cmd.all /\ AtGuard /\ cmd'.pc = "idle"
         => \E s \in cmd.todo : cmd.todo = {s}]_vars
  <2> SUFFICES ASSUME IInv, [Next]_vars, cmd.kind = "agent", cmd.all, AtGuard,
                      cmd'.pc = "idle"
               PROVE  \E s \in cmd.todo : cmd.todo = {s}
    OBVIOUS
  <2>1. cmd \in CmdType
    BY DEF IInv, TypeOK
  <2>2. \A s : Advance(s) => cmd.todo = {s}
    BY <2>1 DEF Advance, CmdType
  <2>3. cmd' # cmd
    BY DEF AtGuard
  <2>4. Step
    <3>1. ~(\E a \in Agents : OtherHost(a))
      BY <2>1 DEF OtherHost, CmdType, AtGuard
    <3> QED BY <2>3, <3>1 DEF Next, vars, AtGuard, BeginOne, BeginAll, Begin,
         OtherCommand, OpenWorkspace, CloseWorkspace, Register, Deregister
  <2>5. CASE ListForAgent
    BY <2>1, <2>5 DEF ListForAgent, CmdType
  <2>6. CASE ListFails
    BY <2>2, <2>6 DEF ListFails, AtGuard
  <2>7. CASE SkipDuplicate \/ Act \/ ActRejected \/ ActFails
    BY <2>2, <2>7, ItemsAreTodo DEF SkipDuplicate, Act, ActRejected, ActFails,
       ToActOn, AfterFault, GoesOn
  <2>8. ~(NotUp \/ IsUp \/ ListToSweep \/ ListToStart
          \/ \E ok \in BOOLEAN : ProbeMesh(ok))
    BY DEF AtGuard, NotUp, IsUp, ListToSweep, ListToStart, ProbeMesh
  <2> QED BY <2>4, <2>5, <2>6, <2>7, <2>8 DEF Step
<1> QED BY <1>1, Invariance, PTL DEF Spec, SweepVisitsAll
=============================================================================
