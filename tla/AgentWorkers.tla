----------------------------- MODULE AgentWorkers -----------------------------
(***************************************************************************)
(* The agents directory with the processes that are made of it: disco      *)
(* start declares a slot for every file, disco agent start runs one, and   *)
(* the agent's process loads the directory, builds its node and serves     *)
(* until it is told to stop or crashes.  The supervisor (Process Compose,  *)
(* external) runs a process again that ends with an error.                 *)
(***************************************************************************)
EXTENDS AgentFiles

CONSTANTS
    Slots,      \* stems whose process is modelled
    MaxCrashes  \* bound: serving processes that crash

ASSUME WorkersAssumption ==
    /\ Slots \subseteq Stems
    /\ MaxCrashes \in Nat

VARIABLES
    up,        \* the workspace: the supervisor answers
    declared,  \* the slots of its project
    detected,  \* the files a start command has found
    worker,    \* the slots' processes
    crashes

workVars == <<up, declared, detected, worker, crashes>>
vars == <<filesVars, workVars>>

WorkerPcs == {"off", "loading", "starting", "serving", "draining", "exited"}

(* A slot without a process.  It is wanted (history) since an operator has  *)
(* started it and until somebody stops it before it crashes.                *)
Off == [pc |-> "off", left |-> {}, def |-> NoFile, crashed |-> FALSE,
        signalled |-> FALSE, stopped |-> FALSE, error |-> FALSE,
        wanted |-> FALSE]

Workers == [pc: WorkerPcs, left: SUBSET Stems, def: Definitions \cup {NoFile},
            crashed: BOOLEAN, signalled: BOOLEAN, stopped: BOOLEAN,
            error: BOOLEAN, wanted: BOOLEAN]

TypeOK ==
    /\ FilesTypeOK
    /\ up \in BOOLEAN
    /\ declared \subseteq Stems
    /\ detected \in [Terminals -> SUBSET Stems]
    /\ worker \in [Slots -> Workers]
    /\ crashes \in 0..MaxCrashes

Detected == {n \in Stems : IsFile(n)}

(* No workspace, or one that was opened with the files as they are.         *)
Init ==
    /\ FilesInit
    /\ up \in BOOLEAN /\ declared = (IF up THEN Detected ELSE {})
    /\ detected = [c \in Terminals |-> {}]
    /\ worker = [n \in Slots |-> Off]
    /\ crashes = 0

-----------------------------------------------------------------------------
(* A slot's process.                                                        *)

(* What Process Compose runs: the names in the directory are read first.    *)
Launched == [Off EXCEPT !.pc = "loading", !.left = Detected, !.wanted = TRUE]

Becomes(n, w) ==
    /\ worker' = [worker EXCEPT ![n] = w]
    /\ UNCHANGED <<filesVars, up, declared, detected>>

(* SystemExit with a message, or an exception that leaves main.             *)
ErrorOfBoot == TRUE

Exits(n, error) == Becomes(n, [worker[n] EXCEPT !.pc = "exited", !.left = {},
                                 !.def = NoFile, !.error = error])

(* _resolve_definition: every file is parsed, whichever agent is wanted.    *)
LoadFile(n, m) ==
    /\ worker[n].pc = "loading" /\ m \in worker[n].left /\ Parses(m)
    /\ Becomes(n, [worker[n] EXCEPT !.left = @ \ {m},
                     !.def = IF m = n THEN files[m] ELSE @])
    /\ UNCHANGED crashes

LoadFails(n, m) ==
    /\ worker[n].pc = "loading" /\ m \in worker[n].left /\ ~Parses(m)
    /\ Exits(n, ErrorOfBoot)
    /\ UNCHANGED crashes

(* A memory agent needs the file tools (build_node).                        *)
Builds(d) == ~(d.field["memory"] = "new" /\ d.field["tools"] = "new")

Build(n) ==
    /\ worker[n].pc = "loading" /\ worker[n].left = {}
    /\ IF worker[n].def # NoFile /\ Builds(worker[n].def)
       THEN Becomes(n, [worker[n] EXCEPT !.pc = "starting"])
       ELSE Exits(n, ErrorOfBoot)
    /\ UNCHANGED crashes

Running(n) == worker[n].pc \in {"starting", "serving"}

Serve(n) ==
    /\ worker[n].pc = "starting" /\ ~worker[n].crashed
    /\ Becomes(n, [worker[n] EXCEPT !.pc = "serving"])
    /\ UNCHANGED crashes

(* The worker's start raises, or its task ends with an exception later.     *)
Crash(n) ==
    /\ Running(n) /\ ~worker[n].crashed /\ crashes < MaxCrashes
    /\ Becomes(n, [worker[n] EXCEPT !.crashed = TRUE])
    /\ crashes' = crashes + 1

(* Mutated form: the signal is looked at first.                             *)
CrashWinsNever(w) == w.crashed /\ ~w.signalled

(* _select_exit_exception: a crash is raised, with a signal or without.     *)
CrashWins(w) == w.crashed

(* The wait is over: the process drains, and knows how it will exit.        *)
Wake(n) ==
    /\ Running(n) /\ (worker[n].crashed \/ worker[n].signalled)
    /\ Becomes(n, [worker[n] EXCEPT !.pc = "draining",
                     !.error = CrashWins(worker[n])])
    /\ UNCHANGED crashes

(* worker.stop may raise, too.                                              *)
Drained(n) ==
    /\ worker[n].pc = "draining"
    /\ \E error \in {worker[n].error, TRUE} : Exits(n, error)
    /\ UNCHANGED crashes

(* Somebody signals the process itself, who is not the supervisor.          *)
Kill(n) ==
    /\ Running(n) /\ ~worker[n].signalled
    /\ Becomes(n, [worker[n] EXCEPT !.signalled = TRUE,
                     !.wanted = @ /\ worker[n].crashed])
    /\ UNCHANGED crashes

(* The supervisor stops a process by a signal.  While the directory is      *)
(* loaded nobody handles it, and the process is gone at once.               *)
Stopped(w) ==
    LET told == [w EXCEPT !.stopped = TRUE, !.wanted = FALSE]
    IN  CASE w.pc = "off"     -> w
          [] w.pc = "loading" -> [told EXCEPT !.pc = "exited", !.left = {},
                                    !.def = NoFile, !.error = TRUE]
          [] w.pc = "exited"  -> told
          [] OTHER            -> [told EXCEPT !.signalled = TRUE]

(* restart: on_failure, unless the supervisor was told to stop it.          *)
Restart(n) ==
    /\ worker[n].pc = "exited"
    /\ Becomes(n, IF worker[n].error /\ ~worker[n].stopped THEN Launched
                  ELSE [Off EXCEPT !.wanted = worker[n].wanted])
    /\ UNCHANGED crashes

-----------------------------------------------------------------------------
(* Commands of the workspace; Lifecycle and Roster have them in detail.     *)
AllStopped == [n \in Slots |-> Stopped(worker[n])]

(* disco start looks for the agents before it looks for the supervisor.     *)
StartCommand(c) ==
    /\ Begin(c, [Idle EXCEPT !.op = "start", !.pc = "detect"])
    /\ UNCHANGED workVars

Detect(c) ==
    /\ cmd[c].pc = "detect"
    /\ detected' = [detected EXCEPT ![c] = Detected]
    /\ To(c, "open")
    /\ UNCHANGED <<files, up, declared, worker, crashes>>

(* An open workspace is left as it is.                                      *)
Open(c) ==
    /\ cmd[c].pc = "open"
    /\ up' = TRUE
    /\ declared' = IF up THEN declared ELSE detected[c]
    /\ detected' = [detected EXCEPT ![c] = {}]
    /\ To(c, IF cmd[c].op = "start" THEN "idle" ELSE "clock in")
    /\ UNCHANGED <<files, worker, crashes>>

OpenFails(c) ==
    /\ cmd[c].pc = "open"
    /\ detected' = [detected EXCEPT ![c] = {}]
    /\ To(c, "idle")
    /\ UNCHANGED <<files, up, declared, worker, crashes>>

Down == up' = FALSE /\ declared' = {} /\ worker' = AllStopped

StopCommand(c) ==
    /\ Begin(c, Idle)
    /\ Down /\ UNCHANGED <<detected, crashes>>

(* agent start n runs the slot if it is declared and has no process.        *)
Starts(n) == IF n \in Slots /\ worker[n].pc = "off"
             THEN [worker EXCEPT ![n] = Launched] ELSE worker

AgentStart(c, n) ==
    /\ up /\ n \in declared
    /\ Begin(c, Idle) /\ worker' = Starts(n)
    /\ UNCHANGED <<up, declared, detected, crashes>>

AgentStop(c, n) ==
    /\ up /\ n \in declared \cap Slots
    /\ Begin(c, Idle) /\ worker' = [worker EXCEPT ![n] = Stopped(@)]
    /\ UNCHANGED <<up, declared, detected, crashes>>

-----------------------------------------------------------------------------
(* The end of create, _start_now: a workspace that runs does not know the   *)
(* new agent and has to be restarted, if the operator agrees.               *)

NeedsReload(running) == running

(* The setup has its own end; without a supervisor there is nothing to do.  *)
NothingToStart(c) ==
    /\ cmd[c].pc = "written"
    /\ To(c, "idle")
    /\ UNCHANGED <<files, workVars>>

LookForWorkspace(c) ==
    /\ cmd[c].pc = "written" /\ cmd[c].op = "create"
    /\ To(c, IF NeedsReload(up) THEN "restart?" ELSE "start?")
    /\ UNCHANGED <<files, workVars>>

(* The operator agrees; not to agree is to end here.                        *)
StartNow(c) ==
    /\ cmd[c].pc = "start?"
    /\ To(c, "detect")
    /\ UNCHANGED <<files, workVars>>

RestartNow(c) ==
    /\ cmd[c].pc = "restart?"
    /\ Down /\ To(c, "detect")
    /\ UNCHANGED <<files, detected, crashes>>

(* agent start for the new agent; it fails if the slot is not declared.     *)
(* What the presence watch sees is only told.                               *)
ClockIn(c) ==
    /\ cmd[c].pc = "clock in"
    /\ worker' = IF up /\ cmd[c].name \in declared THEN Starts(cmd[c].name)
                 ELSE worker
    /\ To(c, "idle")
    /\ UNCHANGED <<files, up, declared, detected, crashes>>

-----------------------------------------------------------------------------
FileStep(c) ==
    /\ \/ Begins(c) \/ Writes(c) \/ Answers(c)
    /\ UNCHANGED workVars

Interrupted(c) ==
    /\ Interrupt(c)
    /\ detected' = [detected EXCEPT ![c] = {}]
    /\ UNCHANGED <<up, declared, worker, crashes>>

Workspace(c) ==
    \/ StartCommand(c) \/ Detect(c) \/ Open(c) \/ OpenFails(c) \/ StopCommand(c)
    \/ \E n \in declared : AgentStart(c, n) \/ AgentStop(c, n)

Finish(c) == NothingToStart(c) \/ LookForWorkspace(c) \/ StartNow(c)
             \/ RestartNow(c) \/ ClockIn(c)

(* What the process and its supervisor do by themselves.                    *)
Proceeds(n) ==
    \/ \E m \in worker[n].left : LoadFile(n, m) \/ LoadFails(n, m)
    \/ Build(n) \/ Serve(n) \/ Wake(n) \/ Drained(n) \/ Restart(n)

Next ==
    \/ \E c \in Terminals : FileStep(c) \/ Interrupted(c) \/ Workspace(c)
                            \/ Finish(c)
    \/ \E n \in Slots : Proceeds(n) \/ Crash(n) \/ Kill(n)

(* A process is scheduled, and a failed one is restarted without limit.     *)
Spec == Init /\ [][Next]_vars /\ \A n \in Slots : WF_vars(Proceeds(n))

-----------------------------------------------------------------------------
(* Between the reading of a file and its replacement nobody else wrote it:  *)
(* then only the field that is written changes, whatever was changed while  *)
(* the operator was asked or had the prompt in an editor (md_writer.py).    *)
UpdateTouchesOwnField ==
    [][\A c \in Terminals :
         cmd[c].pc = "replace" /\ files' # files /\ cmd'[c] # cmd[c]
           /\ files[cmd[c].name] = cmd[c].disk =>
         \A f \in Fields \ {Head(cmd[c].todo)} :
           files'[cmd[c].name].field[f] = files[cmd[c].name].field[f]]_vars

Agents(fs) == {fs[n].agent : n \in {m \in Stems : fs[m] \in Definitions}}

(* An agent goes only when it is deleted, or its file passes for the         *)
(* untouched seed and gives way to the first agent: not by a failure or an  *)
(* interruption of any command that had no other beside it                  *)
(* (agent_lifecycle.py, _agents.py).                                        *)
AgentSurvives ==
    [][\A a \in Agents(files) \ Agents(files)' :
         \E c \in Terminals :
           /\ cmd'[c] # cmd[c]
           /\ \/ cmd[c].op = "delete"
              \/ cmd[c].pc = "prune" /\ files[Seed].agent = a
              \/ ~cmd[c].alone]_vars

(* A process ends without an error only if it was told to, and not if it    *)
(* had crashed before it could notice (_worker_runtime.py).                 *)
CrashIsSeen ==
    \A n \in Slots : worker[n].pc = "exited" /\ ~worker[n].error =>
      worker[n].signalled /\ ~worker[n].crashed

(* Nobody changes the directory, no file in it is broken and the agent can  *)
(* be built.                                                                *)
Settled(n) ==
    /\ \A c \in Terminals : cmd[c].pc = "idle"
    /\ \A m \in Stems : files[m] # Broken
    /\ IsFile(n) /\ Builds(files[n])

(* An agent that is wanted serves in the end, though its process crashed or *)
(* read the directory half way through a rename: whatever the commands did, *)
(* they leave a directory behind that loads.                                *)
WantedServes ==
    \A n \in Slots : []<>(Settled(n) /\ worker[n].wanted => worker[n].pc = "serving")

-----------------------------------------------------------------------------
(* What makes CrashIsSeen inductive: the process knows how it will exit.    *)
ExitIsKnown ==
    \A n \in Slots : worker[n].pc = "draining" /\ ~worker[n].error =>
      worker[n].signalled /\ ~worker[n].crashed

IInv == TypeOK /\ CommandsInv /\ CrashIsSeen /\ ExitIsKnown

-----------------------------------------------------------------------------
(* A claim of the code that the code does not keep: _agents.py, "A          *)
(* *customized* assistant.md ... is never deleted."  Its description alone  *)
(* is compared.                                                             *)
CustomizedSeedKept ==
    [][IsFile(Seed) /\ ~IsFile(Seed)' /\ files[Seed] # Fresh(Seed) =>
         \A c \in Terminals : cmd[c].pc # "prune" \/ cmd'[c] = cmd[c]]_vars

=============================================================================
