------------------------------ MODULE Lifecycle ------------------------------
(***************************************************************************)
(* disco start, disco stop and the reload of disco agent create.  Each     *)
(* command is a CLI process of its own that holds a lock per home and      *)
(* brings the process supervisor (Process Compose, external) of the home   *)
(* up or down over its REST port.  Commands may run at once, be killed at  *)
(* any point, and follow one another without end.                          *)
(*                                                                         *)
(* The port is a hash of the home: two homes may share one.                *)
(***************************************************************************)
EXTENDS Naturals, FiniteSets

CONSTANTS
    Homes,      \* the values of $CALFCORD_HOME on one host
    Ports,      \* supervisor REST ports
    PortMaps,   \* what the hash may give: a set of functions
    Commands,   \* CLI processes at a time
    None,       \* no supervisor, no lock holder
    MaxBoot     \* bound: supervisors of one home launched and not yet up

ASSUME LifecycleAssumption ==
    /\ None \notin Homes \cup Commands
    /\ PortMaps \subseteq [Homes -> Ports]
    /\ MaxBoot \in Nat

VARIABLES
    port,       \* pc_port_for, fixed
    booting,    \* supervisors launched for the home that do not answer yet
    server,     \* the home whose supervisor answers on a port
    lock,       \* holder of the home's lifecycle lock
    cmd,        \* the commands
    overlooked  \* homes where a supervisor was given up or not seen (history)

vars == <<port, booting, server, lock, cmd, overlooked>>

Verbs == {"start", "stop", "reload"}   \* a reload's stop, then "start"

CmdType ==
    [verb: Verbs, home: Homes,
     pc: {"idle", "lock", "isup", "whose", "launch", "awaitup", "prime",
          "gate", "teardown", "down"}]

Up(p) == server[p] # None
Home(c) == cmd[c].home
Port(c) == port[Home(c)]
At(c, pc) == cmd[c].pc = pc
Starting(c) == cmd[c].verb = "start"
Collides(h) == \E g \in Homes \ {h} : port[g] = port[h]
InFlight(h) == {c \in Commands : ~At(c, "idle") /\ Home(c) = h}

TypeOK ==
    /\ port \in [Homes -> Ports]
    /\ booting \in [Homes -> Nat]
    /\ server \in [Ports -> Homes \cup {None}]
    /\ lock \in [Homes -> Commands \cup {None}]
    /\ cmd \in [Commands -> CmdType]
    /\ overlooked \subseteq Homes
    /\ \A h \in Homes : lock[h] # None => lock[h] \in InFlight(h)

(* Every workspace is closed, or one per port was opened earlier.           *)
Init ==
    /\ port \in PortMaps
    /\ booting = [h \in Homes |-> 0]
    /\ server \in [Ports -> Homes \cup {None}]
    /\ \A p \in Ports : server[p] # None => port[server[p]] = p
    /\ lock = [h \in Homes |-> None]
    /\ cmd \in [Commands -> [verb: {"start"}, home: Homes, pc: {"idle"}]]
    /\ overlooked = {}

-----------------------------------------------------------------------------
Goto(c, pc) == cmd' = [cmd EXCEPT ![c].pc = pc]

(* Mutated form: a command that ends leaves the lock behind.                *)
ReleaseNot(c) == UNCHANGED lock

Release(c) == lock' = [h \in Homes |-> IF lock[h] = c THEN None ELSE lock[h]]

(* The exit code, or that an exception ended the command, is not kept.      *)
Exit(c) == Goto(c, "idle") /\ Release(c)

Overlook(c) == overlooked' = overlooked \cup {Home(c)}

Begin(c, h, verb) ==
    /\ At(c, "idle")
    /\ booting[h] + Cardinality(InFlight(h)) < MaxBoot
    /\ cmd' = [cmd EXCEPT ![c].verb = verb, ![c].home = h, ![c].pc = "lock"]
    /\ UNCHANGED <<port, booting, server, lock, overlooked>>

(* Mutated form: the lock file is opened but not locked.                    *)
LockFreeAlways(h) == TRUE

LockFree(h) == lock[h] = None

TakeLock(c) ==
    /\ At(c, "lock")
    /\ IF LockFree(Home(c))
       THEN Goto(c, "isup") /\ lock' = [lock EXCEPT ![Home(c)] = c]
       ELSE Exit(c)
    /\ UNCHANGED <<port, booting, server, overlooked>>

(* A stop that did its part: a reload goes on with the start.               *)
Stopped(c) ==
    IF cmd[c].verb = "reload"
    THEN /\ cmd' = [cmd EXCEPT ![c].verb = "start", ![c].pc = "lock"]
         /\ Release(c)
    ELSE Exit(c)

(* The first probe.  A supervisor that does not answer in time counts as    *)
(* down.                                                                    *)
IsUp(c) ==
    /\ At(c, "isup")
    /\ Up(Port(c))
    /\ Goto(c, IF Starting(c) THEN "whose" ELSE "down")
    /\ UNCHANGED <<port, booting, server, lock, overlooked>>

IsDown(c) ==
    /\ At(c, "isup")
    /\ IF Starting(c)
       THEN /\ Goto(c, "launch") /\ UNCHANGED lock
            /\ IF Up(Port(c)) THEN Overlook(c) ELSE UNCHANGED overlooked
       ELSE Stopped(c) /\ UNCHANGED overlooked
    /\ UNCHANGED <<port, booting, server>>

(* Already open, or refused because the supervisor is another home's: it    *)
(* ends here either way, with a supervisor that may not be ready.           *)
AlreadyOpen(c) ==
    /\ At(c, "whose")
    /\ Exit(c)
    /\ UNCHANGED <<port, booting, server, overlooked>>

(* The probe of an external broker, or one of the preparations, fails.      *)
NotLaunched(c) ==
    /\ At(c, "launch")
    /\ Exit(c)
    /\ UNCHANGED <<port, booting, server, overlooked>>

Launch(c) ==
    /\ At(c, "launch")
    /\ booting' = [booting EXCEPT ![Home(c)] = @ + 1]
    /\ Goto(c, "awaitup")
    /\ UNCHANGED <<port, server, lock, overlooked>>

(* _await_supervisor_up: whoever answers on the port will do.  A supervisor *)
(* that is late is given up, not torn down.                                 *)
SupervisorAnswers(c) ==
    /\ At(c, "awaitup") /\ Up(Port(c))
    /\ Goto(c, "prime")
    /\ UNCHANGED <<port, booting, server, lock, overlooked>>

SupervisorLate(c) ==
    /\ At(c, "awaitup") /\ ~Up(Port(c))
    /\ Exit(c)
    /\ IF booting[Home(c)] > 0 THEN Overlook(c) ELSE UNCHANGED overlooked
    /\ UNCHANGED <<port, booting, server>>

Primed(c) ==
    /\ At(c, "prime") /\ Up(Port(c))
    /\ Goto(c, "gate")
    /\ UNCHANGED <<port, booting, server, lock, overlooked>>

(* Mutated form: a workspace that cannot be primed is reported and left.    *)
AfterFailedPrimeLeave(c) == Exit(c)

AfterFailedPrime(c) == Goto(c, "teardown") /\ UNCHANGED lock

PrimeFails(c) ==
    /\ At(c, "prime")
    /\ AfterFailedPrime(c)
    /\ UNCHANGED <<port, booting, server, overlooked>>

(* _await_bridge_ready: the probe of the bridge may pass at any time, or    *)
(* not before the deadline.                                                 *)
BridgeIsReady(c) ==
    /\ At(c, "gate") /\ Up(Port(c))
    /\ Exit(c)
    /\ UNCHANGED <<port, booting, server, overlooked>>

(* Mutated form: the readiness poll has no deadline.                        *)
GateDeadlineNever == FALSE

GateDeadline == TRUE

BridgeNotReady(c) ==
    /\ At(c, "gate") /\ GateDeadline
    /\ Goto(c, "teardown")
    /\ UNCHANGED <<port, booting, server, lock, overlooked>>

Down(p) == server' = [server EXCEPT ![p] = None]

(* The blocking down.  It closes whichever home's supervisor answers.       *)
TearDown(c) ==
    /\ At(c, "teardown")
    /\ Down(Port(c)) /\ Exit(c)
    /\ UNCHANGED <<port, booting, overlooked>>

StopDown(c) ==
    /\ At(c, "down")
    /\ Down(Port(c)) /\ Stopped(c)
    /\ UNCHANGED <<port, booting, overlooked>>

(* A down that fails: after a failed start that is suppressed; stop raises  *)
(* a timeout and does not look at the exit code.                            *)
DownFails(c) ==
    /\ \/ At(c, "teardown") /\ Exit(c)
       \/ At(c, "down") /\ (Stopped(c) \/ Exit(c))
    /\ Overlook(c)
    /\ UNCHANGED <<port, booting, server>>

Step(c) ==
    \/ TakeLock(c) \/ IsUp(c) \/ IsDown(c) \/ AlreadyOpen(c)
    \/ NotLaunched(c) \/ Launch(c)
    \/ SupervisorAnswers(c) \/ SupervisorLate(c)
    \/ Primed(c) \/ PrimeFails(c) \/ BridgeIsReady(c) \/ BridgeNotReady(c)
    \/ TearDown(c) \/ StopDown(c) \/ DownFails(c)

(* The command's process dies; the kernel releases its lock.                *)
Kill(c) ==
    /\ ~At(c, "idle")
    /\ Exit(c)
    /\ IF cmd[c].pc \in {"awaitup", "prime", "gate", "teardown", "down"}
       THEN Overlook(c) ELSE UNCHANGED overlooked
    /\ UNCHANGED <<port, booting, server>>

-----------------------------------------------------------------------------
(* The launched supervisor binds its port, or ends; one that runs may end   *)
(* at any time.                                                             *)
Boot(h) ==
    /\ booting[h] > 0 /\ ~Up(port[h])
    /\ booting' = [booting EXCEPT ![h] = @ - 1]
    /\ server' = [server EXCEPT ![port[h]] = h]
    /\ UNCHANGED <<port, lock, cmd, overlooked>>

BootFails(h) ==
    /\ booting[h] > 0
    /\ booting' = [booting EXCEPT ![h] = @ - 1]
    /\ UNCHANGED <<port, server, lock, cmd, overlooked>>

ServerDies(p) ==
    /\ Up(p) /\ Down(p)
    /\ UNCHANGED <<port, booting, lock, cmd, overlooked>>

Next ==
    \/ \E c \in Commands, h \in Homes, verb \in Verbs : Begin(c, h, verb)
    \/ \E c \in Commands : Step(c) \/ Kill(c)
    \/ \E h \in Homes : Boot(h) \/ BootFails(h)
    \/ \E p \in Ports : ServerDies(p)

(* A command's process is scheduled, and its polls come to their deadline.  *)
Spec == Init /\ [][Next]_vars /\ \A c \in Commands : WF_vars(Step(c))

-----------------------------------------------------------------------------
Supervisors(h) == booting[h] + (IF server[port[h]] = h THEN 1 ELSE 0)

(* The lock and the first probe keep a home to one supervisor, of those     *)
(* launched and those that answer, unless one was given up while it booted, *)
(* or was up and did not answer, or would not go down, or another home has  *)
(* the port (lifecycle.py, "two concurrent starts cannot race two           *)
(* supervisors").                                                           *)
OneSupervisor ==
    \A h \in Homes \ overlooked : ~Collides(h) => Supervisors(h) <= 1

(* A start that fails once a supervisor answered leaves nothing running     *)
(* behind, unless the teardown itself fails or another home has the port    *)
(* (lifecycle.py, start: "tearing the substrate back down").                *)
FailsAfterAnswer(c) ==
    /\ cmd[c].pc \in {"prime", "gate", "teardown"} /\ cmd'[c].pc = "idle"
    /\ ~BridgeIsReady(c)

FailedStartTornDown ==
    [][\A c \in Commands : FailsAfterAnswer(c) =>
          \/ Home(c) \in overlooked' \/ Collides(Home(c))
          \/ Supervisors(Home(c))' = 0]_vars

(* The inductive invariant.  A command past the lock is its holder; who     *)
(* answers on a port has it; and a home that has lost no supervisor has one *)
(* that boots only while a start waits for it, and none before the launch.  *)
HolderRuns ==
    \A c \in Commands : cmd[c].pc \notin {"idle", "lock"} => lock[Home(c)] = c

PortOfServer == \A p \in Ports : Up(p) => port[server[p]] = p

Tidy(h) == h \notin overlooked /\ ~Collides(h)

BootIsAwaited ==
    \A h \in Homes : Tidy(h) =>
       /\ booting[h] # 0 => lock[h] # None /\ At(lock[h], "awaitup")
       /\ lock[h] # None /\ At(lock[h], "launch") => Supervisors(h) = 0

IInv == TypeOK /\ HolderRuns /\ PortOfServer /\ OneSupervisor /\ BootIsAwaited

(* Every command comes to an end: no poll goes on without a deadline.       *)
CommandsEnd == \A c \in Commands : ~At(c, "idle") ~> At(c, "idle")

=============================================================================
