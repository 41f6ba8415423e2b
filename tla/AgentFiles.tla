------------------------------ MODULE AgentFiles ------------------------------
(***************************************************************************)
(* The agents directory and the commands that change it: disco agent set,  *)
(* tools, edit, create, rename and delete, and the creation of an agent in *)
(* disco init.  A command looks at the directory, asks the operator, and   *)
(* writes; it may be interrupted anywhere, and several terminals may be at *)
(* work at once.                                                           *)
(*                                                                         *)
(* A file is replaced in one step or not at all; what an interrupted write *)
(* leaves behind has a name the loader skips.                              *)
(***************************************************************************)
EXTENDS Naturals, Sequences, FiniteSets, TLC

CONSTANTS
    Terminals,
    Stems,       \* names of files, without .md
    Updates,     \* bound: the fields one set command writes, in order
    MenuFields,  \* bound: the fields picked in the menu of edit
    Seed,        \* STARTER_AGENT_NAME, the file the installer seeds
    Broken,      \* a file whose frontmatter cannot be read
    NoFile,      \* no file
    MaxCommands  \* bound

ASSUME FilesAssumption ==
    /\ Seed \in Stems
    /\ Updates \subseteq Seq({"description", "prompt", "memory", "tools"}) \ {<<>>}
    /\ MenuFields \subseteq {"description", "prompt", "memory", "tools"}
    /\ MaxCommands \in Nat

VARIABLES
    files,    \* what each file holds
    cmd,      \* the command of each terminal
    commands  \* commands begun

filesVars == <<files, cmd, commands>>

(* What a definition says of each field, and under which stem the agent was *)
(* created.  "old" is what a new agent has; of the memory field "new" is    *)
(* on, of the tools it is a list without the file tools.                    *)
Fields == {"description", "prompt", "memory", "tools"}
Values == {"old", "new"}
Definitions == [agent: Stems, name: Stems, field: [Fields -> Values]]

ASSUME NoDefinition == Broken \notin Definitions /\ NoFile \notin Definitions

Fresh(n) == [agent |-> n, name |-> n, field |-> [f \in Fields |-> "old"]]

IsFile(n) == files[n] # NoFile

(* Mutated form: what does not parse is taken as it is.                     *)
ParsesAny(n) == IsFile(n)

(* parse_agent_md: frontmatter, and a name that is the stem.                *)
Parses(n) == files[n] \in Definitions /\ files[n].name = n

Ops == {"none", "set", "tools", "edit", "create", "init", "rename", "delete",
        "start", "stop", "agent start", "agent stop"}

Pcs == {"idle", "menu", "editor", "load", "replace", "name", "fill", "write",
        "prune", "offer", "written", "copy", "unlink", "rollback", "confirm",
        "restart?", "start?", "detect", "open", "clock in"}

(* A command: the fields it still has to write, where it goes on when they  *)
(* are written and when one fails; what it is going to write back, and      *)
(* (history) what the file held when it was read for that; and whether no   *)
(* other command was under way since it began (history).                    *)
Idle == [op |-> "none", pc |-> "idle", name |-> Seed, to |-> Seed,
         todo |-> <<>>, then |-> "idle", else |-> "idle",
         base |-> NoFile, disk |-> NoFile, alone |-> TRUE]

Cmds == [op: Ops, pc: Pcs, name: Stems, to: Stems, todo: Seq(Fields),
         then: {"idle", "menu", "offer", "written"},
         else: {"idle", "menu", "written"}, base: Definitions \cup {NoFile},
         disk: Definitions \cup {NoFile}, alone: BOOLEAN]

FilesTypeOK ==
    /\ files \in [Stems -> Definitions \cup {Broken, NoFile}]
    /\ cmd \in [Terminals -> Cmds]
    /\ commands \in 0..MaxCommands

FilesInit ==
    /\ files \in {f \in [Stems -> {Broken, NoFile} \cup {Fresh(n) : n \in Stems}] :
                   \A n \in Stems : f[n] \in {Broken, NoFile, Fresh(n)}}
    /\ cmd = [c \in Terminals |-> Idle]
    /\ commands = 0

-----------------------------------------------------------------------------
(* A command begins; which others are under way is remembered.              *)
Begin(c, r) ==
    /\ cmd[c].pc = "idle" /\ commands < MaxCommands
    /\ commands' = commands + 1
    /\ LET busy == {d \in Terminals : cmd[d].pc # "idle"}
       IN  cmd' = [d \in Terminals |->
                     IF d = c THEN [r EXCEPT !.alone = (busy = {})]
                     ELSE IF d \in busy THEN [cmd[d] EXCEPT !.alone = FALSE]
                     ELSE cmd[d]]
    /\ UNCHANGED files

(* A command goes on, or is over.                                           *)
After(r, pc) == IF pc = "idle" THEN Idle ELSE [r EXCEPT !.pc = pc]

(* A command that goes on without the write it was at.                      *)
Without(r) == [r EXCEPT !.todo = <<>>, !.base = NoFile, !.disk = NoFile]

Go(c, r) == cmd' = [cmd EXCEPT ![c] = r] /\ UNCHANGED commands
To(c, pc) == Go(c, After(cmd[c], pc))

(* The terminal is closed, or Ctrl-C.                                       *)
Interrupt(c) ==
    /\ cmd[c].pc # "idle"
    /\ To(c, "idle") /\ UNCHANGED files

-----------------------------------------------------------------------------
(* Mutated form: what was read to ask the operator is written back later.   *)
KeptAll(d) == d

(* Of a file read to ask the operator nothing is kept for the write.        *)
Kept(d) == NoFile

(* set and tools write fields of the file of n, one after the other.  Each  *)
(* write is on its own: an error ends the command with the rest undone.     *)
Set(c, n, todo) ==
    /\ IsFile(n)
    /\ Begin(c, [Idle EXCEPT !.op = "set", !.pc = "load", !.name = n,
                   !.todo = todo])

(* The list of tools the operator ticks is made of what the file has.       *)
Tools(c, n) ==
    /\ Parses(n)
    /\ Begin(c, [Idle EXCEPT !.op = "tools", !.pc = "load", !.name = n,
                   !.todo = <<"tools">>, !.base = Kept(files[n])])

(* edit is a menu, shown again as long as the file parses.                  *)
Edit(c, n) ==
    /\ IsFile(n)
    /\ Begin(c, [Idle EXCEPT !.op = "edit", !.pc = "menu", !.name = n])

(* A field is picked and asked for; the prompt is opened in an editor.      *)
EditField(c, f) ==
    /\ cmd[c].pc = "menu" /\ Parses(cmd[c].name)
    /\ Go(c, [cmd[c] EXCEPT !.pc = IF f = "prompt" THEN "editor" ELSE "load",
                !.todo = <<f>>, !.then = "menu", !.else = "menu",
                !.base = Kept(files[cmd[c].name])])
    /\ UNCHANGED files

MenuEnds(c) ==
    /\ cmd[c].pc = "menu"
    /\ To(c, "idle") /\ UNCHANGED files

(* edit_system_prompt: the editor leaves a changed prompt behind, or none.  *)
EditorEnds(c) ==
    /\ cmd[c].pc = "editor"
    /\ \/ To(c, "load")
       \/ Go(c, After(Without(cmd[c]), cmd[c].else))
    /\ UNCHANGED files

(* A writer overlays the file as it is now.                                 *)
Load(c) ==
    /\ cmd[c].pc = "load" /\ files[cmd[c].name] \in Definitions
    /\ LET now == files[cmd[c].name]
       IN  Go(c, [cmd[c] EXCEPT !.pc = "replace", !.disk = now,
                    !.base = IF @ = NoFile THEN now ELSE @])
    /\ UNCHANGED files

(* The file is gone or broken, the value is refused, or the write fails.    *)
WriteFails(c) ==
    /\ cmd[c].pc \in {"load", "replace", "write"}
    /\ Go(c, After(Without(cmd[c]), cmd[c].else)) /\ UNCHANGED files

Written(r) == [r.base EXCEPT !.field[Head(r.todo)] = "new"]

(* The validated definition replaces whatever the file is by now.           *)
Replace(c) ==
    /\ cmd[c].pc = "replace"
    /\ files' = [files EXCEPT ![cmd[c].name] = Written(cmd[c])]
    /\ LET r == [cmd[c] EXCEPT !.todo = Tail(@), !.base = NoFile,
                   !.disk = NoFile]
       IN  Go(c, After(r, IF r.todo # <<>> THEN "load" ELSE r.then))

-----------------------------------------------------------------------------
(* create, and the same in init, without the offer to edit the prompt.      *)
Create(c, op) ==
    /\ op \in {"create", "init"}
    /\ Begin(c, [Idle EXCEPT !.op = op, !.pc = "name"])

(* The name: of create, an agent that is there is confirmed or asked again. *)
Name(c, n) ==
    /\ cmd[c].pc = "name"
    /\ Go(c, [cmd[c] EXCEPT !.pc = "fill", !.name = n])
    /\ UNCHANGED files

(* write_agent, the operator having answered: an existing file is updated   *)
(* by two writes, and keeps its prompt.                                     *)
Fill(c) ==
    /\ cmd[c].pc = "fill"
    /\ LET then == IF cmd[c].op = "create" THEN "offer" ELSE "written"
       IN  Go(c, IF IsFile(cmd[c].name)
                 THEN [cmd[c] EXCEPT !.pc = "load", !.then = then,
                         !.todo = <<"description", "tools">>]
                 ELSE [cmd[c] EXCEPT !.pc = "write", !.then = then])
    /\ UNCHANGED files

WriteNew(c) ==
    /\ cmd[c].pc = "write"
    /\ files' = [files EXCEPT ![cmd[c].name] = Fresh(cmd[c].name)]
    /\ To(c, IF cmd[c].op = "init" THEN "prune" ELSE cmd[c].then)

(* The seed is told by its name and its description.                        *)
IsPristineSeed(n) ==
    Parses(n) /\ n = Seed /\ files[n].field["description"] = "old"

Prunes(c) == cmd[c].name # Seed /\ IsPristineSeed(Seed)

Prune(c) ==
    /\ cmd[c].pc = "prune"
    /\ files' = IF Prunes(c) THEN [files EXCEPT ![Seed] = NoFile] ELSE files
    /\ To(c, cmd[c].then)

(* The prompt may be edited at once; whatever comes of it, create goes on.  *)
Offer(c) ==
    /\ cmd[c].pc = "offer"
    /\ Go(c, IF Parses(cmd[c].name)
             THEN [cmd[c] EXCEPT !.pc = "editor", !.todo = <<"prompt">>,
                     !.then = "written", !.else = "written",
                     !.base = Kept(files[cmd[c].name])]
             ELSE [cmd[c] EXCEPT !.pc = "written"])
    /\ UNCHANGED files

OfferDeclined(c) ==
    /\ cmd[c].pc = "offer"
    /\ To(c, "written") /\ UNCHANGED files

-----------------------------------------------------------------------------
(* Mutated form: a target that is there is not looked for.                  *)
MayRenameOnto(n, to) == to # n /\ IsFile(n)

MayRename(n, to) == to # n /\ IsFile(n) /\ ~IsFile(to)

(* Mutated form: the name in the frontmatter stays.                         *)
RenamedAsIs(d, to) == d

Renamed(d, to) == [d EXCEPT !.name = to]

(* rename_agent: checks, a copy under the new name, then the old is removed. *)
Rename(c, n, to) ==
    /\ MayRename(n, to) /\ files[n] \in Definitions
    /\ Begin(c, [Idle EXCEPT !.op = "rename", !.pc = "copy", !.name = n,
                   !.to = to, !.base = Renamed(files[n], to)])

Copy(c) ==
    /\ cmd[c].pc = "copy"
    /\ files' = [files EXCEPT ![cmd[c].to] = cmd[c].base]
    /\ Go(c, [cmd[c] EXCEPT !.pc = "unlink", !.base = NoFile])

CopyFails(c) ==
    /\ cmd[c].pc = "copy"
    /\ To(c, "idle") /\ UNCHANGED files

UnlinkOld(c) ==
    /\ cmd[c].pc = "unlink" /\ IsFile(cmd[c].name)
    /\ files' = [files EXCEPT ![cmd[c].name] = NoFile]
    /\ To(c, "idle")

(* The old file cannot be removed, or another command has removed it: the   *)
(* copy is taken back.                                                      *)
UnlinkFails(c) ==
    /\ cmd[c].pc = "unlink"
    /\ To(c, "rollback") /\ UNCHANGED files

Rollback(c) ==
    /\ cmd[c].pc = "rollback"
    /\ files' = [files EXCEPT ![cmd[c].to] = NoFile]
    /\ To(c, "idle")

RollbackFails(c) ==
    /\ cmd[c].pc = "rollback"
    /\ To(c, "idle") /\ UNCHANGED files

(* delete asks first.                                                       *)
Delete(c, n) ==
    /\ IsFile(n)
    /\ Begin(c, [Idle EXCEPT !.op = "delete", !.pc = "confirm", !.name = n])

Confirm(c) ==
    /\ cmd[c].pc = "confirm"
    /\ files' = [files EXCEPT ![cmd[c].name] = NoFile]
    /\ To(c, "idle")

-----------------------------------------------------------------------------
Begins(c) ==
    \/ \E op \in {"create", "init"} : Create(c, op)
    \/ \E n \in Stems :
         \/ \E todo \in Updates : Set(c, n, todo)
         \/ Tools(c, n) \/ Edit(c, n) \/ Delete(c, n)
         \/ \E to \in Stems : Rename(c, n, to)

Writes(c) ==
    Load(c) \/ Replace(c) \/ WriteFails(c) \/ WriteNew(c) \/ Prune(c)
    \/ Copy(c) \/ CopyFails(c) \/ UnlinkOld(c) \/ UnlinkFails(c)
    \/ Rollback(c) \/ RollbackFails(c) \/ Confirm(c)

Answers(c) ==
    (\E f \in MenuFields : EditField(c, f)) \/ MenuEnds(c) \/ EditorEnds(c)
    \/ (\E n \in Stems : Name(c, n)) \/ Fill(c) \/ Offer(c) \/ OfferDeclined(c)

FilesNext ==
    \E c \in Terminals : Begins(c) \/ Writes(c) \/ Answers(c) \/ Interrupt(c)

-----------------------------------------------------------------------------
(* What makes the properties of the commands inductive.                     *)

(* What is written back is what was read for the write, and nothing else is *)
(* kept of a file; only delete asks for a confirmation.                     *)
WritesBack(r) ==
    /\ r.pc \notin {"replace", "copy"} => r.base = NoFile
    /\ r.pc = "replace" => r.base = r.disk /\ r.base \in Definitions
    /\ r.pc \in {"editor", "load", "replace"} => r.todo # <<>>
    /\ r.pc = "confirm" => r.op = "delete"

(* What a command that has had no other beside it knows of the directory.   *)
Knows(r, fs) ==
    /\ r.pc = "replace" => fs[r.name] = r.disk
    /\ r.pc = "write" => fs[r.name] = NoFile
    /\ r.pc = "copy" => /\ fs[r.to] = NoFile /\ fs[r.name] \in Definitions
                        /\ r.base = Renamed(fs[r.name], r.to) /\ r.to # r.name
    /\ r.pc \in {"unlink", "rollback"} =>
         /\ r.to # r.name /\ fs[r.name] \in Definitions
         /\ fs[r.to] = Renamed(fs[r.name], r.to)

CommandsInv ==
    /\ \A c \in Terminals :
         /\ WritesBack(cmd[c])
         /\ cmd[c].alone => Knows(cmd[c], files)
    /\ \A c, d \in Terminals :
         c # d /\ cmd[c].pc # "idle" /\ cmd[d].pc # "idle" => ~cmd[c].alone

=============================================================================
