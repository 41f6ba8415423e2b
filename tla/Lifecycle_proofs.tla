-------------------------- MODULE Lifecycle_proofs --------------------------
(***************************************************************************)
(* Proofs about Lifecycle, for any number of homes, ports and commands and *)
(* any hash of the homes: it is typed, a home that shares its port with no *)
(* other and has lost no supervisor has at most one, and a start that      *)
(* fails after the supervisor answered leaves none.                        *)
(***************************************************************************)
EXTENDS Lifecycle, TLAPS

USE DEF Home, Port, At, Up, Starting, InFlight, Goto, Exit

LEMMA InitIInv == Init => IInv
<1> SUFFICES ASSUME Init PROVE IInv
  OBVIOUS
<1>1. TypeOK
  BY LifecycleAssumption DEF Init, TypeOK, CmdType, Verbs
<1>2. HolderRuns /\ PortOfServer /\ OneSupervisor /\ BootIsAwaited
  BY LifecycleAssumption DEF Init, HolderRuns, PortOfServer, OneSupervisor,
     BootIsAwaited, Supervisors
<1> QED BY <1>1, <1>2 DEF IInv

(* A step that launches nothing and lets no supervisor answer keeps what is *)
(* said of the supervisors alone.                                           *)
Subsides ==
    /\ port' = port
    /\ booting' \in [Homes -> Nat]
    /\ \A h \in Homes : booting'[h] <= booting[h]
    /\ server' \in [Ports -> Homes \cup {None}]
    /\ \A p \in Ports : server'[p] = server[p] \/ server'[p] = None
    /\ overlooked \subseteq overlooked' /\ overlooked' \subseteq Homes

LEMMA SubsidesKeeps ==
  ASSUME IInv, Subsides
  PROVE  /\ PortOfServer' /\ OneSupervisor'
         /\ \A h \in Homes : Tidy(h)' => Tidy(h)
         /\ \A h \in Homes : Supervisors(h) = 0 => Supervisors(h)' = 0
<1> USE LifecycleAssumption DEF IInv, TypeOK, Subsides, Supervisors
<1>1. PortOfServer'
  BY DEF PortOfServer
<1>2. \A h \in Homes : Tidy(h)' => Tidy(h)
  BY DEF Tidy, Collides
<1>3. \A h \in Homes : Supervisors(h)' <= Supervisors(h) /\ Supervisors(h)' \in Nat
                       /\ Supervisors(h) \in Nat
  <2> SUFFICES ASSUME NEW h \in Homes
               PROVE  Supervisors(h)' <= Supervisors(h) /\ Supervisors(h)' \in Nat
                      /\ Supervisors(h) \in Nat
    OBVIOUS
  <2>1. server'[port[h]] = h => server[port[h]] = h
    BY LifecycleAssumption
  <2> QED BY <2>1
<1>4. OneSupervisor'
  <2> SUFFICES ASSUME NEW h \in Homes, h \notin overlooked', ~Collides(h)'
               PROVE  Supervisors(h)' <= 1
    BY DEF OneSupervisor
  <2>1. Supervisors(h) <= 1
    BY <1>2 DEF OneSupervisor, Tidy, Collides
  <2> HIDE DEF Supervisors
  <2> QED BY <2>1, <1>3
<1>5. \A h \in Homes : Supervisors(h) = 0 => Supervisors(h)' = 0
  <2> HIDE DEF Supervisors
  <2> QED BY <1>3
<1> QED BY <1>1, <1>2, <1>4, <1>5

(* A step of command c of that kind keeps the whole invariant, if c had and *)
(* has the lock or gives it up, and does not leave a booting supervisor.    *)
LEMMA CommandStep ==
  ASSUME IInv, Subsides, NEW c \in Commands,
         cmd' \in [Commands -> CmdType],
         \A d \in Commands \ {c} : cmd'[d] = cmd[d],
         cmd'[c].home = cmd[c].home, cmd'[c].pc # "launch",
         At(c, "awaitup") /\ Tidy(Home(c))' => booting[Home(c)] = 0,
         \/ /\ lock' = lock
            /\ cmd[c].pc \notin {"idle", "lock"}
            /\ cmd'[c].pc \notin {"idle", "lock"}
         \/ Release(c) /\ cmd'[c].pc \in {"idle", "lock"}
  PROVE  IInv'
<1> USE LifecycleAssumption DEF IInv
<1>1. /\ PortOfServer' /\ OneSupervisor'
      /\ \A h \in Homes : Tidy(h)' => Tidy(h)
      /\ \A h \in Homes : Supervisors(h) = 0 => Supervisors(h)' = 0
  BY SubsidesKeeps
<1>2. lock' \in [Homes -> Commands \cup {None}]
  BY DEF TypeOK, Release
<1>3. ASSUME NEW h \in Homes, lock'[h] # None
      PROVE  lock'[h] = lock[h] /\ (lock[h] = c => cmd'[c].pc # "idle")
  BY <1>3 DEF TypeOK, Release
<1>4. TypeOK'
  <2>1. ASSUME NEW h \in Homes, lock'[h] # None
        PROVE  lock'[h] \in InFlight(h)'
    BY <1>3, <2>1 DEF TypeOK
  <2> QED BY <1>2, <2>1 DEF TypeOK, Subsides
<1>5. HolderRuns'
  BY DEF TypeOK, CmdType, HolderRuns, Release
<1>6. BootIsAwaited'
  <2> SUFFICES ASSUME NEW h \in Homes, Tidy(h)'
               PROVE  /\ booting'[h] # 0 => lock'[h] # None
                                            /\ cmd'[lock'[h]].pc = "awaitup"
                      /\ lock'[h] # None /\ cmd'[lock'[h]].pc = "launch"
                           => Supervisors(h)' = 0
    BY DEF BootIsAwaited
  <2>1. Tidy(h)
    BY <1>1
  <2>2. ASSUME booting'[h] # 0
        PROVE  lock'[h] # None /\ cmd'[lock'[h]].pc = "awaitup"
    <3>1. booting[h] # 0
      BY <2>2 DEF Subsides, TypeOK
    <3>2. lock[h] \in Commands /\ cmd[lock[h]].pc = "awaitup"
      BY <3>1, <2>1 DEF BootIsAwaited, TypeOK
    <3>3. lock[h] # c
      BY <3>1, <3>2, <2>1 DEF TypeOK
    <3> QED BY <3>2, <3>3 DEF Release, TypeOK
  <2>3. ASSUME lock'[h] # None, cmd'[lock'[h]].pc = "launch"
        PROVE  Supervisors(h)' = 0
    <3>1. lock'[h] = lock[h] /\ lock[h] # c /\ cmd[lock[h]].pc = "launch"
      BY <2>3, <1>3, <1>2 DEF TypeOK
    <3>2. Supervisors(h) = 0
      BY <3>1, <2>1, <2>3 DEF BootIsAwaited
    <3> QED BY <3>2, <1>1
  <2> QED BY <2>2, <2>3
<1> QED BY <1>1, <1>4, <1>5, <1>6

(* Where a command can move that keeps its home.                            *)
LEMMA Moves ==
  ASSUME TypeOK, NEW c \in Commands,
         NEW pc \in {"idle", "lock", "isup", "whose", "launch", "awaitup",
                     "prime", "gate", "teardown", "down"},
         NEW verb \in Verbs,
         \/ cmd' = [cmd EXCEPT ![c].pc = pc]
         \/ cmd' = [cmd EXCEPT ![c].verb = verb, ![c].pc = pc]
  PROVE  /\ cmd' \in [Commands -> CmdType]
         /\ \A d \in Commands \ {c} : cmd'[d] = cmd[d]
         /\ cmd'[c].home = cmd[c].home /\ cmd'[c].pc = pc
<1>1. cmd \in [Commands -> CmdType] /\ cmd[c] \in CmdType
  BY DEF TypeOK
<1>2. PICK r \in CmdType : /\ cmd' = [cmd EXCEPT ![c] = r]
                           /\ r.home = cmd[c].home /\ r.pc = pc
  <2>1. CASE cmd' = [cmd EXCEPT ![c].pc = pc]
    <3>1. [cmd[c] EXCEPT !.pc = pc] \in CmdType
      BY <1>1 DEF CmdType
    <3>2. cmd' = [cmd EXCEPT ![c] = [cmd[c] EXCEPT !.pc = pc]]
      BY <2>1
    <3> QED BY <1>1, <3>1, <3>2 DEF CmdType
  <2>2. CASE cmd' = [cmd EXCEPT ![c].verb = verb, ![c].pc = pc]
    <3>1. [cmd[c] EXCEPT !.verb = verb, !.pc = pc] \in CmdType
      BY <1>1 DEF CmdType
    <3>2. cmd' = [cmd EXCEPT ![c] = [cmd[c] EXCEPT !.verb = verb, !.pc = pc]]
      BY <1>1, <2>2
    <3> QED BY <1>1, <3>1, <3>2 DEF CmdType
  <2> QED BY <2>1, <2>2
<1> QED BY <1>1, <1>2

(* A command that ends with Exit or goes on from Stopped.                   *)
LEMMA LeavingStep ==
  ASSUME IInv, Subsides, NEW c \in Commands,
         Exit(c) \/ Stopped(c),
         At(c, "awaitup") /\ Tidy(Home(c))' => booting[Home(c)] = 0
  PROVE  IInv'
<1>1. TypeOK
  BY DEF IInv
<1>2. PICK pc \in {"idle", "lock"} :
         /\ Release(c)
         /\ \/ cmd' = [cmd EXCEPT ![c].pc = pc]
            \/ cmd' = [cmd EXCEPT ![c].verb = "start", ![c].pc = pc]
  BY DEF Stopped
<1>3. "start" \in Verbs
  BY DEF Verbs
<1>4. /\ cmd' \in [Commands -> CmdType]
      /\ \A d \in Commands \ {c} : cmd'[d] = cmd[d]
      /\ cmd'[c].home = cmd[c].home /\ cmd'[c].pc = pc
  BY <1>1, <1>2, <1>3, Moves
<1> QED BY <1>2, <1>4, CommandStep

(* A command that goes on under its lock, not to the launch.                *)
LEMMA GoingOnStep ==
  ASSUME IInv, Subsides, NEW c \in Commands,
         NEW pc \in {"isup", "whose", "awaitup", "prime", "gate", "teardown",
                     "down"},
         Goto(c, pc), lock' = lock, cmd[c].pc \notin {"idle", "lock"},
         At(c, "awaitup") /\ Tidy(Home(c))' => booting[Home(c)] = 0
  PROVE  IInv'
<1>1. TypeOK
  BY DEF IInv
<1>2. "start" \in Verbs
  BY DEF Verbs
<1>3. /\ cmd' \in [Commands -> CmdType]
      /\ \A d \in Commands \ {c} : cmd'[d] = cmd[d]
      /\ cmd'[c].home = cmd[c].home /\ cmd'[c].pc = pc
  BY <1>1, <1>2, Moves
<1> QED BY <1>3, CommandStep

(* When a supervisor answers on the port of a tidy home, none of its own is *)
(* still booting.                                                           *)
LEMMA AnsweredMeansBooted ==
  ASSUME IInv, NEW h \in Homes, Tidy(h), Up(port[h])
  PROVE  booting[h] = 0
<1> USE LifecycleAssumption DEF IInv
<1>1. server[port[h]] \in Homes /\ port[server[port[h]]] = port[h]
  BY DEF TypeOK, PortOfServer
<1>2. server[port[h]] = h
  BY <1>1 DEF Tidy, Collides
<1> QED BY <1>2 DEF OneSupervisor, Tidy, Supervisors, TypeOK

LEMMA StepIInv ==
  ASSUME IInv, NEW c \in Commands, Step(c) \/ Kill(c)
  PROVE  IInv'
<1> USE LifecycleAssumption
<1>1. TypeOK /\ Home(c) \in Homes /\ Port(c) \in Ports
  BY DEF IInv, TypeOK, CmdType
<1> DEFINE Still == UNCHANGED <<port, booting, server>>
           Keeps == overlooked' = overlooked \/ Overlook(c)
<1>2. Still /\ Keeps => Subsides
  BY <1>1 DEF Subsides, TypeOK, Overlook
<1>3. UNCHANGED <<port, booting>> /\ Down(Port(c)) /\ Keeps => Subsides
  BY <1>1 DEF Subsides, TypeOK, Overlook, Down
<1>4. CASE TakeLock(c)
  <2>1. CASE ~LockFree(Home(c))
    BY <1>2, <1>4, <2>1, LeavingStep DEF TakeLock
  <2>2. CASE LockFree(Home(c))
    <3>1. /\ cmd' \in [Commands -> CmdType]
          /\ \A d \in Commands \ {c} : cmd'[d] = cmd[d]
          /\ cmd'[c].home = cmd[c].home /\ cmd'[c].pc = "isup"
      BY <1>1, <1>4, <2>2, Moves DEF TakeLock, Verbs
    <3>2. /\ lock' = [lock EXCEPT ![Home(c)] = c] /\ lock[Home(c)] = None
          /\ UNCHANGED <<port, booting, server, overlooked>> /\ At(c, "lock")
      BY <1>4, <2>2 DEF TakeLock, LockFree
    <3>3. TypeOK'
      BY <1>1, <3>1, <3>2 DEF TypeOK
    <3>4. HolderRuns'
      BY <1>1, <3>1, <3>2 DEF IInv, TypeOK, CmdType, HolderRuns
    <3>5. PortOfServer' /\ OneSupervisor'
      BY <3>2 DEF IInv, PortOfServer, OneSupervisor, Collides, Supervisors
    <3>6. BootIsAwaited'
      BY <1>1, <3>1, <3>2 DEF IInv, TypeOK, CmdType, BootIsAwaited, Tidy,
         Collides, Supervisors
    <3> QED BY <3>3, <3>4, <3>5, <3>6 DEF IInv
  <2> QED BY <2>1, <2>2
<1>5. CASE IsUp(c)
  BY <1>2, <1>5, GoingOnStep DEF IsUp
<1>6. CASE IsDown(c)
  <2>1. CASE ~Starting(c)
    BY <1>2, <1>6, <2>1, LeavingStep DEF IsDown
  <2>2. CASE Starting(c)
    <3>1. /\ cmd' \in [Commands -> CmdType]
          /\ \A d \in Commands \ {c} : cmd'[d] = cmd[d]
          /\ cmd'[c].home = cmd[c].home /\ cmd'[c].pc = "launch"
      BY <1>1, <1>6, <2>2, Moves DEF IsDown, Verbs
    <3>2. /\ Still /\ Keeps /\ lock' = lock /\ At(c, "isup")
          /\ Up(Port(c)) => Overlook(c)
      BY <1>6, <2>2 DEF IsDown
    <3>3. Subsides
      BY <1>2, <3>2
    <3>4. /\ PortOfServer' /\ OneSupervisor'
          /\ \A h \in Homes : Tidy(h)' => Tidy(h)
          /\ \A h \in Homes : Supervisors(h) = 0 => Supervisors(h)' = 0
      BY <3>3, SubsidesKeeps
    <3>5. TypeOK'
      BY <1>1, <3>1, <3>2, <3>3 DEF TypeOK, Subsides
    <3>6. HolderRuns'
      BY <1>1, <3>1, <3>2 DEF IInv, TypeOK, CmdType, HolderRuns
    <3>7. lock[Home(c)] = c
      BY <3>2 DEF IInv, HolderRuns
    <3>8. BootIsAwaited'
      <4> SUFFICES ASSUME NEW h \in Homes, Tidy(h)'
                   PROVE  /\ booting[h] # 0 => lock[h] # None
                                               /\ cmd'[lock[h]].pc = "awaitup"
                          /\ lock[h] # None /\ cmd'[lock[h]].pc = "launch"
                               => Supervisors(h)' = 0
        BY <3>2 DEF BootIsAwaited
      <4>1. Tidy(h)
        BY <3>4
      <4>2. CASE h # Home(c)
        <5>1. lock[h] # c
          BY <1>1, <4>2 DEF TypeOK
        <5> QED BY <1>1, <3>1, <3>4, <4>1, <5>1 DEF IInv, BootIsAwaited, TypeOK
      <4>3. CASE h = Home(c)
        <5>1. booting[h] = 0
          BY <3>2, <3>7, <4>1, <4>3 DEF IInv, BootIsAwaited
        <5>2. server[port[h]] = None
          BY <3>2, <4>3 DEF Overlook, Tidy
        <5>3. Supervisors(h) = 0
          BY <5>1, <5>2 DEF Supervisors
        <5> QED BY <3>4, <5>1, <5>3
      <4> QED BY <4>2, <4>3
    <3> QED BY <3>4, <3>5, <3>6, <3>8 DEF IInv
  <2> QED BY <2>1, <2>2
<1>7. CASE AlreadyOpen(c) \/ NotLaunched(c)
  BY <1>2, <1>7, LeavingStep DEF AlreadyOpen, NotLaunched
<1>8. CASE Launch(c)
  <2>1. /\ cmd' \in [Commands -> CmdType]
        /\ \A d \in Commands \ {c} : cmd'[d] = cmd[d]
        /\ cmd'[c].home = cmd[c].home /\ cmd'[c].pc = "awaitup"
    BY <1>1, <1>8, Moves DEF Launch, Verbs
  <2>2. /\ booting' = [booting EXCEPT ![Home(c)] = @ + 1] /\ At(c, "launch")
        /\ UNCHANGED <<port, server, lock, overlooked>>
    BY <1>8 DEF Launch
  <2>3. lock[Home(c)] = c
    BY <2>2 DEF IInv, HolderRuns
  <2>4. Tidy(Home(c)) => Supervisors(Home(c)) = 0
    BY <1>1, <2>2, <2>3 DEF IInv, BootIsAwaited
  <2>5. TypeOK'
    BY <1>1, <2>1, <2>2 DEF TypeOK
  <2>6. HolderRuns'
    BY <1>1, <2>1, <2>2 DEF IInv, TypeOK, CmdType, HolderRuns
  <2>7. PortOfServer'
    BY <2>2 DEF IInv, PortOfServer
  <2>8. OneSupervisor'
    <3> SUFFICES ASSUME NEW h \in Homes, Tidy(h) PROVE Supervisors(h)' <= 1
      BY <2>2 DEF OneSupervisor, Tidy, Collides
    <3>1. CASE h # Home(c)
      BY <2>2, <3>1 DEF IInv, OneSupervisor, Tidy, Supervisors, TypeOK
    <3>2. CASE h = Home(c)
      BY <1>1, <2>2, <2>4, <3>2 DEF Supervisors, TypeOK
    <3> QED BY <3>1, <3>2
  <2>9. BootIsAwaited'
    BY <1>1, <2>1, <2>2, <2>3 DEF IInv, TypeOK, BootIsAwaited, Tidy, Collides,
       Supervisors
  <2> QED BY <2>5, <2>6, <2>7, <2>8, <2>9 DEF IInv
<1>9. CASE SupervisorAnswers(c)
  <2>1. Tidy(Home(c))' => Tidy(Home(c))
    BY <1>9 DEF SupervisorAnswers, Tidy, Collides
  <2>2. Tidy(Home(c))' => booting[Home(c)] = 0
    BY <1>1, <1>9, <2>1, AnsweredMeansBooted DEF SupervisorAnswers
  <2> QED BY <1>2, <1>9, <2>2, GoingOnStep DEF SupervisorAnswers
<1>10. CASE SupervisorLate(c)
  <2>1. Tidy(Home(c))' => booting[Home(c)] = 0
    BY <1>1, <1>10 DEF SupervisorLate, Overlook, Tidy, TypeOK
  <2> QED BY <1>2, <1>10, <2>1, LeavingStep DEF SupervisorLate
<1>11. CASE Primed(c) \/ PrimeFails(c) \/ BridgeNotReady(c)
  BY <1>2, <1>11, GoingOnStep DEF Primed, PrimeFails, AfterFailedPrime,
     BridgeNotReady
<1>12. CASE BridgeIsReady(c)
  BY <1>2, <1>12, LeavingStep DEF BridgeIsReady
<1>13. CASE TearDown(c) \/ StopDown(c)
  BY <1>3, <1>13, LeavingStep DEF TearDown, StopDown
<1>14. CASE DownFails(c)
  BY <1>2, <1>14, LeavingStep DEF DownFails
<1>15. CASE Kill(c)
  <2>1. At(c, "awaitup") => ~Tidy(Home(c))'
    BY <1>1, <1>15, CommandStep DEF Kill, Overlook, Tidy
  <2> QED BY <1>2, <1>15, <2>1, LeavingStep DEF Kill
<1> QED BY <1>4, <1>5, <1>6, <1>7, <1>8, <1>9, <1>10, <1>11, <1>12, <1>13,
           <1>14, <1>15 DEF Step

-----------------------------------------------------------------------------
(* A command that begins holds no lock, and waits for it first.             *)
LEMMA BeginIInv ==
  ASSUME IInv, NEW c \in Commands, NEW h \in Homes, NEW verb \in Verbs,
         Begin(c, h, verb)
  PROVE  IInv'
<1>1. /\ At(c, "idle")
      /\ UNCHANGED <<port, booting, server, lock, overlooked>>
  BY DEF Begin
<1>2. /\ cmd' \in [Commands -> CmdType]
      /\ \A d \in Commands \ {c} : cmd'[d] = cmd[d]
      /\ cmd'[c].pc = "lock"
  BY DEF Begin, IInv, TypeOK, CmdType
<1>3. \A g \in Homes : lock[g] # c
  BY <1>1, LifecycleAssumption DEF IInv, TypeOK
<1>4. TypeOK'
  BY <1>1, <1>2, <1>3 DEF IInv, TypeOK
<1>5. HolderRuns'
  BY <1>1, <1>2 DEF IInv, HolderRuns
<1>6. PortOfServer' /\ OneSupervisor'
  BY <1>1 DEF IInv, PortOfServer, OneSupervisor, Collides, Supervisors
<1>7. BootIsAwaited'
  BY <1>1, <1>2, <1>3 DEF IInv, TypeOK, BootIsAwaited, Tidy, Collides,
     Supervisors
<1> QED BY <1>4, <1>5, <1>6, <1>7 DEF IInv

(* A supervisor that fails to boot or ends makes fewer of them.             *)
LEMMA SupervisorEnds ==
  ASSUME IInv, Subsides, UNCHANGED <<lock, cmd>>
  PROVE  IInv'
<1>1. /\ PortOfServer' /\ OneSupervisor'
      /\ \A h \in Homes : Tidy(h)' => Tidy(h)
      /\ \A h \in Homes : Supervisors(h) = 0 => Supervisors(h)' = 0
  BY SubsidesKeeps
<1>2. TypeOK' /\ HolderRuns'
  BY DEF IInv, TypeOK, Subsides, HolderRuns
<1>3. BootIsAwaited'
  <2> SUFFICES ASSUME NEW h \in Homes, Tidy(h)'
               PROVE  /\ booting'[h] # 0 => lock[h] # None
                                            /\ cmd[lock[h]].pc = "awaitup"
                      /\ lock[h] # None /\ cmd[lock[h]].pc = "launch"
                           => Supervisors(h)' = 0
    BY DEF BootIsAwaited
  <2>1. Tidy(h)
    BY <1>1
  <2>2. booting'[h] # 0 => booting[h] # 0
    BY DEF Subsides, IInv, TypeOK
  <2> QED BY <1>1, <2>1, <2>2 DEF IInv, BootIsAwaited
<1> QED BY <1>1, <1>2, <1>3 DEF IInv

(* The supervisor of a tidy home that comes up is the one awaited.          *)
LEMMA BootIInv ==
  ASSUME IInv, NEW h \in Homes, Boot(h)
  PROVE  IInv'
<1> USE LifecycleAssumption
<1>1. /\ booting[h] > 0 /\ booting' = [booting EXCEPT ![h] = @ - 1]
      /\ server[port[h]] = None
      /\ server' = [server EXCEPT ![port[h]] = h]
      /\ UNCHANGED <<port, lock, cmd, overlooked>>
  BY DEF Boot
<1>2. TypeOK' /\ HolderRuns'
  BY <1>1 DEF IInv, TypeOK, HolderRuns
<1>3. PortOfServer'
  BY <1>1 DEF IInv, TypeOK, PortOfServer
<1>4. ASSUME NEW g \in Homes, Tidy(g), g # h
      PROVE  booting'[g] = booting[g] /\ Supervisors(g)' = Supervisors(g)
  <2>1. port[g] # port[h]
    BY <1>4 DEF Tidy, Collides
  <2> QED BY <1>1, <1>4, <2>1 DEF IInv, TypeOK, Supervisors
<1>5. ASSUME Tidy(h)
      PROVE  /\ booting[h] = 1 /\ booting'[h] = 0 /\ Supervisors(h)' = 1
             /\ lock[h] # None /\ At(lock[h], "awaitup")
  <2>1. Supervisors(h) = booting[h]
    BY <1>1 DEF Supervisors, IInv, TypeOK
  <2>2. booting[h] = 1
    BY <1>1, <1>5, <2>1 DEF IInv, TypeOK, OneSupervisor, Tidy
  <2>3. booting'[h] = 0 /\ Supervisors(h)' = 1
    BY <1>1, <2>2 DEF IInv, TypeOK, Supervisors
  <2> QED BY <1>5, <2>2, <2>3 DEF IInv, BootIsAwaited
<1>6. OneSupervisor'
  <2> SUFFICES ASSUME NEW g \in Homes, Tidy(g) PROVE Supervisors(g)' <= 1
    BY <1>1 DEF OneSupervisor, Tidy, Collides
  <2> QED BY <1>4, <1>5 DEF IInv, OneSupervisor, Tidy
<1>7. BootIsAwaited'
  <2> SUFFICES ASSUME NEW g \in Homes, Tidy(g)
               PROVE  /\ booting'[g] # 0 => lock[g] # None
                                            /\ cmd[lock[g]].pc = "awaitup"
                      /\ lock[g] # None /\ cmd[lock[g]].pc = "launch"
                           => Supervisors(g)' = 0
    BY <1>1 DEF BootIsAwaited, Tidy, Collides
  <2>1. CASE g = h
    BY <1>5, <2>1
  <2>2. CASE g # h
    BY <1>4, <2>2 DEF IInv, BootIsAwaited
  <2> QED BY <2>1, <2>2
<1> QED BY <1>2, <1>3, <1>6, <1>7 DEF IInv

LEMMA NextIInv == IInv /\ [Next]_vars => IInv'
<1> SUFFICES ASSUME IInv, [Next]_vars PROVE IInv'
  OBVIOUS
<1>1. ASSUME NEW c \in Commands, NEW h \in Homes, NEW verb \in Verbs,
             Begin(c, h, verb)
      PROVE  IInv'
  BY <1>1, BeginIInv
<1>2. ASSUME NEW c \in Commands, Step(c) \/ Kill(c)
      PROVE  IInv'
  BY <1>2, StepIInv
<1>3. ASSUME NEW h \in Homes, Boot(h)
      PROVE  IInv'
  BY <1>3, BootIInv
<1>4. ASSUME NEW h \in Homes, BootFails(h)
      PROVE  IInv'
  <2>1. Subsides
    BY <1>4 DEF BootFails, Subsides, IInv, TypeOK
  <2> QED BY <1>4, <2>1, SupervisorEnds DEF BootFails
<1>5. ASSUME NEW p \in Ports, ServerDies(p)
      PROVE  IInv'
  <2>1. Subsides
    BY <1>5 DEF ServerDies, Down, Subsides, IInv, TypeOK
  <2> QED BY <1>5, <2>1, SupervisorEnds DEF ServerDies
<1>6. CASE UNCHANGED vars
  BY <1>6 DEF vars, IInv, TypeOK, HolderRuns, PortOfServer, OneSupervisor,
     BootIsAwaited, Supervisors, Tidy, Collides
<1> QED BY <1>1, <1>2, <1>3, <1>4, <1>5, <1>6 DEF Next

LEMMA Invariance == Spec => []IInv
<1> QED BY InitIInv, NextIInv, PTL DEF Spec

(* Type correctness: whatever commands run, are killed and follow one       *)
(* another, the state keeps its shape and a lock is held by a command that  *)
(* is in flight for that very home.                                         *)
THEOREM TypeCorrect == Spec => []TypeOK
<1>1. IInv => TypeOK
  BY DEF IInv
<1> QED BY <1>1, Invariance, PTL

(* The lifecycle lock and the first probe keep every home that shares its   *)
(* port with no other, and whose supervisors were all seen and waited for,  *)
(* to one supervisor, whatever the number of commands.                      *)
THEOREM SupervisorIsOne == Spec => []OneSupervisor
<1>1. IInv => OneSupervisor
  BY DEF IInv
<1> QED BY <1>1, Invariance, PTL

(* What a failing command leaves: see FailedStartLeavesNone.                *)
LEMMA FailsTornDown ==
  ASSUME IInv, [Next]_vars, NEW c \in Commands, FailsAfterAnswer(c),
         Tidy(Home(c)), Home(c) \notin overlooked'
  PROVE  Supervisors(Home(c))' = 0
<1>1. Home(c) \in Homes /\ Port(c) \in Ports
  BY DEF IInv, TypeOK, CmdType
<1>2. cmd[c].pc \in {"prime", "gate", "teardown"} /\ cmd'[c].pc = "idle"
  BY DEF FailsAfterAnswer
<1>3. Step(c) \/ Kill(c)
  <2>1. ASSUME NEW d \in Commands \ {c}, Step(d) \/ Kill(d)
        PROVE  cmd'[c] = cmd[c]
    BY <2>1 DEF Step, Kill, TakeLock, IsUp, IsDown, AlreadyOpen, NotLaunched,
       Launch, SupervisorAnswers, SupervisorLate, Primed, PrimeFails,
       AfterFailedPrime, BridgeIsReady, BridgeNotReady, TearDown, StopDown,
       DownFails, Stopped, IInv, TypeOK
  <2>2. ASSUME NEW d \in Commands, NEW h \in Homes, NEW verb \in Verbs,
               Begin(d, h, verb)
        PROVE  cmd'[c].pc # "idle"
    BY <1>2, <2>2 DEF Begin, IInv, TypeOK, CmdType
  <2> QED BY <1>2, <2>1, <2>2 DEF Next, vars, Boot, BootFails, ServerDies
<1>4. TearDown(c)
  <2>1. ~(Kill(c) \/ DownFails(c))
    BY <1>1, <1>2 DEF Kill, DownFails, Overlook
  <2> QED BY <1>2, <1>3, <2>1 DEF Step, FailsAfterAnswer, IInv, TypeOK, CmdType,
       TakeLock, IsUp, IsDown, AlreadyOpen, NotLaunched, Launch,
       SupervisorAnswers, SupervisorLate, Primed, PrimeFails,
       AfterFailedPrime, BridgeNotReady, StopDown
<1>5. booting[Home(c)] = 0
  BY <1>1, <1>2 DEF IInv, HolderRuns, BootIsAwaited
<1>6. /\ UNCHANGED <<port, booting>> /\ Home(c)' = Home(c)
      /\ server' = [server EXCEPT ![Port(c)] = None]
  BY <1>4 DEF TearDown, Down, IInv, TypeOK, CmdType
<1> QED BY <1>1, <1>5, <1>6, LifecycleAssumption DEF IInv, TypeOK, Supervisors

(* A start that fails once a supervisor answered leaves no supervisor of    *)
(* its home, booting or up, unless the teardown fails or is killed or the   *)
(* home shares its port: the teardown of start and its order under the lock.*)
THEOREM FailedStartLeavesNone == Spec => FailedStartTornDown
<1>1. IInv /\ [Next]_vars =>
        [\A c \in Commands : FailsAfterAnswer(c) =>
           \/ Home(c) \in overlooked' \/ Collides(Home(c))
           \/ Supervisors(Home(c))' = 0]_vars
  <2> SUFFICES ASSUME IInv, [Next]_vars, NEW c \in Commands,
                      FailsAfterAnswer(c), ~Collides(Home(c)),
                      Home(c) \notin overlooked'
               PROVE  Supervisors(Home(c))' = 0
    OBVIOUS
  <2>1. overlooked \subseteq overlooked'
    BY DEF Next, vars, Begin, Step, Kill, Boot, BootFails, ServerDies,
       TakeLock, IsUp, IsDown, AlreadyOpen, NotLaunched, Launch,
       SupervisorAnswers, SupervisorLate, Primed, PrimeFails, BridgeIsReady,
       BridgeNotReady, TearDown, StopDown, DownFails, Overlook
  <2>2. Tidy(Home(c))
    BY <2>1 DEF Tidy
  <2> QED BY <2>2, FailsTornDown
<1> QED BY <1>1, Invariance, PTL DEF Spec, FailedStartTornDown
=============================================================================
