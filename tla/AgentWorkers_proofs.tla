------------------------- MODULE AgentWorkers_proofs -------------------------
(***************************************************************************)
(* Proofs about AgentWorkers, for any terminals, files, fields and slots:  *)
(* it is typed, a command alone loses no agent, a write changes its own    *)
(* field only, and no process hides a crash.                               *)
(***************************************************************************)
EXTENDS AgentWorkers, TLAPS

FilesInv == FilesTypeOK /\ CommandsInv

(* Where a command holds nothing it has read, and knows nothing of it.      *)
Plainly == Pcs \ {"replace", "copy", "editor", "load", "confirm", "write",
                  "unlink", "rollback"}

-----------------------------------------------------------------------------
LEMMA FieldTyped ==
  ASSUME NEW d \in Definitions, NEW f
  PROVE  [d EXCEPT !.field[f] = "new"] \in Definitions
  BY DEF Definitions, Values

LEMMA IdleTyped ==
  /\ Idle \in Cmds /\ Idle.pc = "idle" /\ WritesBack(Idle)
  /\ \A fs : Knows(Idle, fs)
  BY FilesAssumption DEF Idle, Cmds, Ops, Pcs, WritesBack, Knows

(* A command goes on, or is over: the others are as they were.              *)
LEMMA StepKeeps ==
  ASSUME FilesInv, NEW c \in Terminals, cmd[c].pc # "idle", NEW r \in Cmds,
         Go(c, r), files' \in [Stems -> Definitions \cup {Broken, NoFile}],
         WritesBack(r), r.pc = "idle" \/ (r.alone => cmd[c].alone),
         r.alone => Knows(r, files')
  PROVE  FilesInv'
<1>1. /\ cmd \in [Terminals -> Cmds] /\ cmd' = [cmd EXCEPT ![c] = r]
      /\ commands' = commands /\ CommandsInv
  BY DEF FilesInv, FilesTypeOK, Go
<1>2. FilesTypeOK'
  BY <1>1 DEF FilesInv, FilesTypeOK
<1>3. cmd'[c] = r /\ \A d \in Terminals \ {c} : cmd'[d] = cmd[d]
  BY <1>1
<1>4. ASSUME NEW d \in Terminals
      PROVE  WritesBack(cmd'[d]) /\ (cmd'[d].alone => Knows(cmd'[d], files'))
  <2>1. CASE d = c
    BY <1>3, <2>1
  <2>2. CASE d # c /\ cmd[d].pc = "idle"
    BY <1>1, <1>3, <2>2 DEF CommandsInv, Knows
  <2>3. CASE d # c /\ cmd[d].pc # "idle"
    BY <1>1, <1>3, <2>3 DEF CommandsInv
  <2> QED BY <2>1, <2>2, <2>3
<1>5. ASSUME NEW d \in Terminals, NEW e \in Terminals, d # e,
             cmd'[d].pc # "idle", cmd'[e].pc # "idle"
      PROVE  ~cmd'[d].alone
  BY <1>1, <1>3, <1>5 DEF CommandsInv
<1> QED BY <1>2, <1>4, <1>5 DEF FilesInv, CommandsInv

(* Whether a command was alone is a field of its own.                       *)
LEMMA AloneApart ==
  ASSUME NEW r \in Cmds, NEW b \in BOOLEAN, WritesBack(r)
  PROVE  LET s == [r EXCEPT !.alone = b]
         IN  /\ s \in Cmds /\ s.alone = b /\ s.pc = r.pc /\ WritesBack(s)
             /\ \A fs : Knows(r, fs) => Knows(s, fs)
<1> DEFINE s == [r EXCEPT !.alone = b]
<1>1. s \in Cmds
  BY DEF Cmds
<1>2. /\ s.op = r.op /\ s.pc = r.pc /\ s.name = r.name /\ s.to = r.to
      /\ s.todo = r.todo /\ s.base = r.base /\ s.disk = r.disk /\ s.alone = b
  BY DEF Cmds
<1> HIDE DEF s
<1>3. WritesBack(s)
  BY <1>2 DEF WritesBack
<1>4. ASSUME NEW fs, Knows(r, fs)
      PROVE  Knows(s, fs)
  BY <1>2, <1>4 DEF Knows
<1> QED BY <1>1, <1>2, <1>3, <1>4 DEF s

(* A command begins, and those under way are no longer alone.               *)
LEMMA BeginKeeps ==
  ASSUME FilesInv, NEW c \in Terminals, NEW r \in Cmds, Begin(c, r),
         WritesBack(r), Knows(r, files)
  PROVE  FilesInv'
<1> DEFINE busy == {d \in Terminals : cmd[d].pc # "idle"}
           s == [r EXCEPT !.alone = (busy = {})]
           t(d) == [cmd[d] EXCEPT !.alone = FALSE]
<1>1. /\ cmd \in [Terminals -> Cmds] /\ CommandsInv /\ files' = files
      /\ commands' \in 0..MaxCommands /\ c \notin busy
      /\ cmd' = [d \in Terminals |-> IF d = c THEN s
                                     ELSE IF d \in busy THEN t(d) ELSE cmd[d]]
  BY FilesAssumption DEF FilesInv, FilesTypeOK, Begin
<1>2. s \in Cmds /\ WritesBack(s) /\ Knows(s, files) /\ s.alone = (busy = {})
  BY AloneApart
<1>3. ASSUME NEW d \in Terminals
      PROVE  /\ t(d) \in Cmds /\ ~t(d).alone /\ WritesBack(t(d))
             /\ t(d).pc = cmd[d].pc
  <2>1. cmd[d] \in Cmds /\ WritesBack(cmd[d])
    BY <1>1 DEF CommandsInv
  <2> QED BY <2>1, AloneApart
<1> HIDE DEF s, t
<1>4. FilesTypeOK'
  BY <1>1, <1>2, <1>3 DEF FilesInv, FilesTypeOK
<1>5. ASSUME NEW d \in Terminals
      PROVE  WritesBack(cmd'[d]) /\ (cmd'[d].alone => Knows(cmd'[d], files'))
  BY <1>1, <1>2, <1>3 DEF CommandsInv
<1>6. ASSUME NEW d \in Terminals, NEW e \in Terminals, d # e,
             cmd'[d].pc # "idle", cmd'[e].pc # "idle"
      PROVE  ~cmd'[d].alone
  <2>1. CASE d = c
    BY <1>1, <1>2, <1>6, <2>1
  <2>2. CASE d # c
    BY <1>1, <1>3, <1>6, <2>2
  <2> QED BY <2>1, <2>2
<1> QED BY <1>4, <1>5, <1>6 DEF FilesInv, CommandsInv

(* A command goes where it holds nothing.                                   *)
LEMMA ToKeeps ==
  ASSUME FilesInv, NEW c \in Terminals, cmd[c].pc # "idle",
         NEW pc \in Plainly, To(c, pc),
         pc = "idle" \/ cmd[c].pc \notin {"replace", "copy"},
         files' \in [Stems -> Definitions \cup {Broken, NoFile}]
  PROVE  FilesInv'
<1>1. cmd[c] \in Cmds /\ WritesBack(cmd[c])
  BY DEF FilesInv, FilesTypeOK, CommandsInv
<1>2. CASE pc = "idle"
  <2>1. Go(c, Idle)
    BY <1>2 DEF To, After
  <2> QED BY <2>1, IdleTyped, StepKeeps
<1>3. CASE pc # "idle"
  <2> DEFINE r == [cmd[c] EXCEPT !.pc = pc]
  <2>1. /\ r \in Cmds /\ r.pc = pc /\ r.alone = cmd[c].alone
        /\ r.base = NoFile
    BY <1>1, <1>3 DEF Cmds, Plainly, WritesBack
  <2>2. Go(c, r)
    BY <1>3 DEF To, After
  <2>3. WritesBack(r) /\ Knows(r, files')
    BY <2>1 DEF WritesBack, Knows, Plainly
  <2> HIDE DEF r
  <2> QED BY <2>1, <2>2, <2>3, StepKeeps
<1> QED BY <1>2, <1>3

LEMMA WithoutTyped ==
  ASSUME NEW r \in Cmds
  PROVE  /\ Without(r) \in Cmds /\ Without(r).base = NoFile
         /\ Without(r).alone = r.alone
<1>1. <<>> \in Seq(Fields)
  OBVIOUS
<1> QED BY <1>1 DEF Without, Cmds

(* A write is given up.                                                     *)
LEMMA GivenUpKeeps ==
  ASSUME FilesInv, NEW c \in Terminals, cmd[c].pc # "idle",
         Go(c, After(Without(cmd[c]), cmd[c].else)), files' = files
  PROVE  FilesInv'
<1>1. cmd[c] \in Cmds /\ files' \in [Stems -> Definitions \cup {Broken, NoFile}]
  BY DEF FilesInv, FilesTypeOK
<1>2. CASE cmd[c].else = "idle"
  BY <1>1, <1>2, IdleTyped, StepKeeps DEF After
<1>3. CASE cmd[c].else # "idle"
  <2> DEFINE q == Without(cmd[c])
             r == [q EXCEPT !.pc = cmd[c].else]
  <2>0. /\ q \in Cmds /\ q.base = NoFile /\ q.alone = cmd[c].alone
        /\ cmd[c].else \in {"menu", "written"}
    BY <1>1, <1>3, WithoutTyped DEF Cmds
  <2> HIDE DEF q
  <2>1. /\ r \in Cmds /\ r.pc \in {"menu", "written"}
        /\ r.alone = cmd[c].alone /\ r.base = NoFile
    BY <2>0 DEF Cmds, Pcs
  <2>2. Go(c, r)
    BY <1>3 DEF After, q
  <2>3. WritesBack(r) /\ Knows(r, files')
    BY <2>1 DEF WritesBack, Knows
  <2> HIDE DEF r
  <2> QED BY <1>1, <2>1, <2>2, <2>3, StepKeeps
<1> QED BY <1>2, <1>3

-----------------------------------------------------------------------------
(* The writes.                                                              *)

LEMMA LoadKeeps ==
  ASSUME FilesInv, NEW c \in Terminals, Load(c)
  PROVE  FilesInv'
<1> DEFINE now == files[cmd[c].name]
           r == [cmd[c] EXCEPT !.pc = "replace", !.disk = now, !.base = now]
<1>1. /\ cmd[c] \in Cmds /\ WritesBack(cmd[c]) /\ cmd[c].pc = "load"
      /\ now \in Definitions /\ files' = files
      /\ files' \in [Stems -> Definitions \cup {Broken, NoFile}]
  BY DEF FilesInv, FilesTypeOK, CommandsInv, Load
<1>2. Go(c, r)
  BY <1>1 DEF Load, WritesBack
<1>3. /\ r \in Cmds /\ r.pc = "replace" /\ r.alone = cmd[c].alone
      /\ r.base = now /\ r.disk = now /\ r.name = cmd[c].name
      /\ r.todo = cmd[c].todo
  BY <1>1 DEF Cmds, Pcs
<1> HIDE DEF r
<1>4. WritesBack(r) /\ Knows(r, files')
  BY <1>1, <1>3 DEF WritesBack, Knows
<1> QED BY <1>1, <1>2, <1>3, <1>4, StepKeeps

LEMMA ReplaceKeeps ==
  ASSUME FilesInv, NEW c \in Terminals, Replace(c)
  PROVE  FilesInv'
<1> DEFINE q == [cmd[c] EXCEPT !.todo = Tail(@), !.base = NoFile, !.disk = NoFile]
           pc == IF q.todo # <<>> THEN "load" ELSE q.then
           r == After(q, pc)
<1>1. /\ cmd[c] \in Cmds /\ WritesBack(cmd[c]) /\ cmd[c].pc = "replace"
      /\ cmd[c].todo # <<>> /\ cmd[c].base \in Definitions
      /\ Go(c, r) /\ files \in [Stems -> Definitions \cup {Broken, NoFile}]
      /\ files' = [files EXCEPT ![cmd[c].name] = Written(cmd[c])]
  BY DEF FilesInv, FilesTypeOK, CommandsInv, WritesBack, Replace
<1>2. files' \in [Stems -> Definitions \cup {Broken, NoFile}]
  BY <1>1, FieldTyped DEF Written, Cmds
<1>3. Tail(cmd[c].todo) \in Seq(Fields)
  BY <1>1 DEF Cmds
<1>4. /\ q \in Cmds /\ q.base = NoFile /\ q.alone = cmd[c].alone
  BY <1>1, <1>3 DEF Cmds
<1> HIDE DEF q
<1>5. pc \in {"load", "idle", "menu", "offer", "written"} /\ pc \in Pcs
      /\ (pc = "load" => q.todo # <<>>)
  BY <1>4 DEF Cmds, Pcs
<1> HIDE DEF pc
<1>6. CASE pc = "idle"
  BY <1>1, <1>2, <1>6, IdleTyped, StepKeeps DEF After
<1>7. CASE pc # "idle"
  <2>1. /\ r \in Cmds /\ r.pc = pc /\ r.alone = cmd[c].alone
        /\ r.base = NoFile /\ r.todo = q.todo
    BY <1>4, <1>5, <1>7 DEF Cmds, After
  <2> HIDE DEF r
  <2>2. WritesBack(r) /\ Knows(r, files')
    BY <1>5, <1>7, <2>1 DEF WritesBack, Knows
  <2> QED BY <1>1, <1>2, <2>1, <2>2, StepKeeps
<1> QED BY <1>6, <1>7

LEMMA CopyKeeps ==
  ASSUME FilesInv, NEW c \in Terminals, Copy(c)
  PROVE  FilesInv'
<1> DEFINE r == [cmd[c] EXCEPT !.pc = "unlink", !.base = NoFile]
<1>1. /\ cmd[c] \in Cmds /\ cmd[c].pc = "copy" /\ Go(c, r)
      /\ files \in [Stems -> Definitions \cup {Broken, NoFile}]
      /\ files' = [files EXCEPT ![cmd[c].to] = cmd[c].base]
      /\ cmd[c].alone => Knows(cmd[c], files)
  BY DEF FilesInv, FilesTypeOK, CommandsInv, Copy
<1>2. files' \in [Stems -> Definitions \cup {Broken, NoFile}]
  BY <1>1 DEF Cmds
<1>3. /\ r \in Cmds /\ r.pc = "unlink" /\ r.alone = cmd[c].alone
      /\ r.base = NoFile /\ r.name = cmd[c].name /\ r.to = cmd[c].to
      /\ r.name \in Stems /\ r.to \in Stems
  BY <1>1 DEF Cmds, Pcs
<1> HIDE DEF r
<1>4. WritesBack(r) /\ (r.alone => Knows(r, files'))
  BY <1>1, <1>3 DEF WritesBack, Knows
<1> QED BY <1>1, <1>2, <1>3, <1>4, StepKeeps

LEMMA UnlinkFailsKeeps ==
  ASSUME FilesInv, NEW c \in Terminals, UnlinkFails(c)
  PROVE  FilesInv'
<1> DEFINE r == [cmd[c] EXCEPT !.pc = "rollback"]
<1>1. /\ cmd[c] \in Cmds /\ cmd[c].pc = "unlink" /\ Go(c, r)
      /\ files' \in [Stems -> Definitions \cup {Broken, NoFile}]
      /\ files' = files /\ WritesBack(cmd[c])
      /\ cmd[c].alone => Knows(cmd[c], files)
  BY DEF FilesInv, FilesTypeOK, CommandsInv, UnlinkFails, To, After
<1>3. /\ r \in Cmds /\ r.pc = "rollback" /\ r.alone = cmd[c].alone
      /\ r.base = cmd[c].base /\ r.name = cmd[c].name /\ r.to = cmd[c].to
  BY <1>1 DEF Cmds, Pcs
<1> HIDE DEF r
<1>4. WritesBack(r) /\ (r.alone => Knows(r, files'))
  BY <1>1, <1>3 DEF WritesBack, Knows
<1> QED BY <1>1, <1>3, <1>4, StepKeeps

LEMMA WritesKeep ==
  ASSUME FilesInv, NEW c \in Terminals, Writes(c)
  PROVE  FilesInv'
<1>1. /\ files \in [Stems -> Definitions \cup {Broken, NoFile}]
      /\ cmd[c] \in Cmds /\ cmd[c].then \in Plainly
  BY DEF FilesInv, FilesTypeOK, Cmds, Plainly, Pcs
<1>2. \A n \in Stems : Fresh(n) \in Definitions
  BY DEF Fresh, Definitions, Values
<1>3. cmd[c].name \in Stems /\ cmd[c].to \in Stems
  BY <1>1 DEF Cmds
<1>4. CASE WriteFails(c)
  BY <1>4, GivenUpKeeps DEF WriteFails
<1>5. CASE WriteNew(c)
  BY <1>1, <1>2, <1>3, <1>5, ToKeeps DEF WriteNew, Plainly, Pcs
<1>6. CASE Prune(c)
  BY <1>1, <1>6, FilesAssumption, ToKeeps DEF Prune
<1>7. CASE CopyFails(c) \/ UnlinkOld(c) \/ Rollback(c) \/ RollbackFails(c)
           \/ Confirm(c)
  <2>1. /\ cmd[c].pc # "idle" /\ To(c, "idle") /\ "idle" \in Plainly
        /\ files' \in [Stems -> Definitions \cup {Broken, NoFile}]
    BY <1>1, <1>3, <1>7 DEF CopyFails, UnlinkOld, Rollback, RollbackFails, Confirm,
       Plainly, Pcs
  <2> QED BY <2>1, ToKeeps
<1> QED BY <1>4, <1>5, <1>6, <1>7, LoadKeeps, ReplaceKeeps, CopyKeeps,
       UnlinkFailsKeeps DEF Writes

-----------------------------------------------------------------------------
(* The beginnings and the answers.                                          *)

LEMMA BeginsKeep ==
  ASSUME FilesInv, NEW c \in Terminals, Begins(c)
  PROVE  FilesInv'
<1>1. Idle \in Cmds /\ "tools" \in Fields
  BY IdleTyped DEF Fields
<1>2. ASSUME NEW op \in {"create", "init"}, Create(c, op)
      PROVE  FilesInv'
  <2> DEFINE r == [Idle EXCEPT !.op = op, !.pc = "name"]
  <2>1. r \in Cmds /\ r.pc = "name" /\ r.base = NoFile
    BY <1>1, <1>2 DEF Cmds, Ops, Pcs, Idle
  <2>2. Begin(c, r)
    BY <1>2 DEF Create
  <2> HIDE DEF r
  <2> QED BY <2>1, <2>2, BeginKeeps DEF WritesBack, Knows
<1>3. ASSUME NEW n \in Stems, NEW todo \in Seq(Fields), todo # <<>>,
             Begin(c, [Idle EXCEPT !.op = "set", !.pc = "load", !.name = n,
                         !.todo = todo])
      PROVE  FilesInv'
  <2> DEFINE r == [Idle EXCEPT !.op = "set", !.pc = "load", !.name = n,
                     !.todo = todo]
  <2>1. r \in Cmds /\ r.pc = "load" /\ r.base = NoFile /\ r.todo = todo
    BY <1>1 DEF Cmds, Ops, Pcs, Idle
  <2>2. Begin(c, r)
    BY <1>3
  <2> HIDE DEF r
  <2> QED BY <1>3, <2>1, <2>2, BeginKeeps DEF WritesBack, Knows
<1>4. ASSUME NEW n \in Stems, Tools(c, n)
      PROVE  FilesInv'
  <2> DEFINE r == [Idle EXCEPT !.op = "tools", !.pc = "load", !.name = n,
                     !.todo = <<"tools">>, !.base = NoFile]
  <2>1. <<"tools">> \in Seq(Fields) /\ <<"tools">> # <<>>
    BY <1>1
  <2>2. r \in Cmds /\ r.pc = "load" /\ r.base = NoFile /\ r.todo = <<"tools">>
    BY <1>1, <2>1 DEF Cmds, Ops, Pcs, Idle
  <2>3. Begin(c, r)
    BY <1>4 DEF Tools, Kept
  <2> HIDE DEF r
  <2> QED BY <2>1, <2>2, <2>3, BeginKeeps DEF WritesBack, Knows
<1>5. ASSUME NEW n \in Stems, Edit(c, n)
      PROVE  FilesInv'
  <2> DEFINE r == [Idle EXCEPT !.op = "edit", !.pc = "menu", !.name = n]
  <2>1. r \in Cmds /\ r.pc = "menu" /\ r.base = NoFile
    BY <1>1 DEF Cmds, Ops, Pcs, Idle
  <2>2. Begin(c, r)
    BY <1>5 DEF Edit
  <2> HIDE DEF r
  <2> QED BY <2>1, <2>2, BeginKeeps DEF WritesBack, Knows
<1>6. ASSUME NEW n \in Stems, Delete(c, n)
      PROVE  FilesInv'
  <2> DEFINE r == [Idle EXCEPT !.op = "delete", !.pc = "confirm", !.name = n]
  <2>1. r \in Cmds /\ r.pc = "confirm" /\ r.op = "delete" /\ r.base = NoFile
    BY <1>1 DEF Cmds, Ops, Pcs, Idle
  <2>2. Begin(c, r)
    BY <1>6 DEF Delete
  <2> HIDE DEF r
  <2> QED BY <2>1, <2>2, BeginKeeps DEF WritesBack, Knows
<1>7. ASSUME NEW n \in Stems, NEW to \in Stems, Rename(c, n, to)
      PROVE  FilesInv'
  <2> DEFINE base == Renamed(files[n], to)
             r == [Idle EXCEPT !.op = "rename", !.pc = "copy", !.name = n,
                     !.to = to, !.base = base]
  <2>1. base \in Definitions /\ files[n] \in Definitions
        /\ files[to] = NoFile /\ to # n
    BY <1>7 DEF Rename, Renamed, Definitions, MayRename, IsFile
  <2> HIDE DEF base
  <2>2. r \in Cmds /\ r.pc = "copy" /\ r.base = base /\ r.name = n /\ r.to = to
    BY <1>1, <2>1 DEF Cmds, Ops, Pcs, Idle
  <2>3. Begin(c, r)
    BY <1>7 DEF Rename, base
  <2> HIDE DEF r
  <2>4. WritesBack(r) /\ Knows(r, files)
    BY <2>1, <2>2 DEF WritesBack, Knows, base
  <2> QED BY <2>2, <2>3, <2>4, BeginKeeps
<1>8. ASSUME NEW n \in Stems, NEW todo \in Updates, Set(c, n, todo)
      PROVE  FilesInv'
  <2>1. todo \in Seq(Fields) /\ todo # <<>>
    BY FilesAssumption DEF Fields
  <2> QED BY <1>3, <1>8, <2>1 DEF Set
<1> QED BY <1>2, <1>4, <1>5, <1>6, <1>7, <1>8 DEF Begins

LEMMA EditFieldKeeps ==
  ASSUME FilesInv, NEW c \in Terminals, NEW f \in MenuFields, EditField(c, f)
  PROVE  FilesInv'
<1> DEFINE pc == IF f = "prompt" THEN "editor" ELSE "load"
           r == [cmd[c] EXCEPT !.pc = pc, !.todo = <<f>>, !.then = "menu",
                   !.else = "menu", !.base = NoFile]
<1>1. /\ cmd[c] \in Cmds /\ cmd[c].pc = "menu" /\ Go(c, r) /\ files' = files
      /\ files' \in [Stems -> Definitions \cup {Broken, NoFile}]
  BY DEF FilesInv, FilesTypeOK, EditField, Kept
<1>2. <<f>> \in Seq(Fields) /\ <<f>> # <<>>
  BY FilesAssumption DEF Fields
<1>3. pc \in {"editor", "load"} /\ pc \in Pcs
  BY DEF Pcs
<1> HIDE DEF pc
<1>4. /\ r \in Cmds /\ r.pc = pc /\ r.base = NoFile /\ r.todo = <<f>>
      /\ r.alone = cmd[c].alone
  BY <1>1, <1>2, <1>3 DEF Cmds
<1> HIDE DEF r
<1>5. WritesBack(r) /\ Knows(r, files')
  BY <1>2, <1>3, <1>4 DEF WritesBack, Knows
<1> QED BY <1>1, <1>4, <1>5, StepKeeps

LEMMA EditorEndsKeeps ==
  ASSUME FilesInv, NEW c \in Terminals, EditorEnds(c)
  PROVE  FilesInv'
<1> DEFINE r == [cmd[c] EXCEPT !.pc = "load"]
<1>1. /\ cmd[c] \in Cmds /\ WritesBack(cmd[c]) /\ cmd[c].pc = "editor"
      /\ files' \in [Stems -> Definitions \cup {Broken, NoFile}]
      /\ files' = files
  BY DEF FilesInv, FilesTypeOK, CommandsInv, EditorEnds
<1>2. CASE To(c, "load")
  <2>1. /\ r \in Cmds /\ r.pc = "load" /\ r.base = cmd[c].base
        /\ r.todo = cmd[c].todo /\ r.alone = cmd[c].alone
    BY <1>1 DEF Cmds, Pcs
  <2>2. Go(c, r)
    BY <1>2 DEF To, After
  <2> HIDE DEF r
  <2>3. WritesBack(r) /\ Knows(r, files')
    BY <1>1, <2>1 DEF WritesBack, Knows
  <2> QED BY <1>1, <2>1, <2>2, <2>3, StepKeeps
<1>3. CASE Go(c, After(Without(cmd[c]), cmd[c].else))
  BY <1>1, <1>3, GivenUpKeeps
<1> QED BY <1>2, <1>3 DEF EditorEnds

LEMMA NameKeeps ==
  ASSUME FilesInv, NEW c \in Terminals, NEW n \in Stems, Name(c, n)
  PROVE  FilesInv'
<1> DEFINE r == [cmd[c] EXCEPT !.pc = "fill", !.name = n]
<1>1. /\ cmd[c] \in Cmds /\ WritesBack(cmd[c]) /\ cmd[c].pc = "name"
      /\ files' \in [Stems -> Definitions \cup {Broken, NoFile}] /\ Go(c, r)
  BY DEF FilesInv, FilesTypeOK, CommandsInv, Name
<1>2. /\ r \in Cmds /\ r.pc = "fill" /\ r.base = cmd[c].base
      /\ r.alone = cmd[c].alone
  BY <1>1 DEF Cmds, Pcs
<1> HIDE DEF r
<1>3. WritesBack(r) /\ Knows(r, files')
  BY <1>1, <1>2 DEF WritesBack, Knows
<1> QED BY <1>1, <1>2, <1>3, StepKeeps

LEMMA FillKeeps ==
  ASSUME FilesInv, NEW c \in Terminals, Fill(c)
  PROVE  FilesInv'
<1> DEFINE then == IF cmd[c].op = "create" THEN "offer" ELSE "written"
           twice == <<"description", "tools">>
           u == [cmd[c] EXCEPT !.pc = "load", !.then = then, !.todo = twice]
           r == [cmd[c] EXCEPT !.pc = "write", !.then = then]
<1>1. /\ cmd[c] \in Cmds /\ WritesBack(cmd[c]) /\ cmd[c].pc = "fill"
      /\ files' \in [Stems -> Definitions \cup {Broken, NoFile}]
      /\ files' = files /\ then \in {"offer", "written"}
      /\ Go(c, IF IsFile(cmd[c].name) THEN u ELSE r)
  BY DEF FilesInv, FilesTypeOK, CommandsInv, Fill
<1>2. twice \in Seq(Fields) /\ twice # <<>>
  BY DEF Fields
<1> HIDE DEF then, twice
<1>3. CASE IsFile(cmd[c].name)
  <2>1. /\ u \in Cmds /\ u.pc = "load" /\ u.base = cmd[c].base
        /\ u.todo = twice /\ u.alone = cmd[c].alone
    BY <1>1, <1>2 DEF Cmds, Pcs
  <2> HIDE DEF u
  <2>2. WritesBack(u) /\ Knows(u, files')
    BY <1>1, <1>2, <2>1 DEF WritesBack, Knows
  <2> QED BY <1>1, <1>3, <2>1, <2>2, StepKeeps
<1>4. CASE ~IsFile(cmd[c].name)
  <2>1. /\ r \in Cmds /\ r.pc = "write" /\ r.base = cmd[c].base
        /\ r.name = cmd[c].name /\ r.alone = cmd[c].alone
    BY <1>1 DEF Cmds, Pcs
  <2> HIDE DEF r
  <2>2. WritesBack(r) /\ Knows(r, files')
    BY <1>1, <1>4, <2>1 DEF WritesBack, Knows, IsFile
  <2> QED BY <1>1, <1>4, <2>1, <2>2, StepKeeps
<1> QED BY <1>3, <1>4

LEMMA OfferKeeps ==
  ASSUME FilesInv, NEW c \in Terminals, Offer(c)
  PROVE  FilesInv'
<1> DEFINE one == <<"prompt">>
           u == [cmd[c] EXCEPT !.pc = "editor", !.todo = one,
                   !.then = "written", !.else = "written", !.base = NoFile]
           r == [cmd[c] EXCEPT !.pc = "written"]
<1>1. /\ cmd[c] \in Cmds /\ WritesBack(cmd[c]) /\ cmd[c].pc = "offer"
      /\ files' \in [Stems -> Definitions \cup {Broken, NoFile}]
      /\ Go(c, u) \/ Go(c, r)
  BY DEF FilesInv, FilesTypeOK, CommandsInv, Offer, Kept
<1>2. one \in Seq(Fields) /\ one # <<>>
  BY DEF Fields
<1> HIDE DEF one
<1>3. CASE Go(c, u)
  <2>1. /\ u \in Cmds /\ u.pc = "editor" /\ u.base = NoFile
        /\ u.todo = one /\ u.alone = cmd[c].alone
    BY <1>1, <1>2 DEF Cmds, Pcs
  <2> HIDE DEF u
  <2>2. WritesBack(u) /\ Knows(u, files')
    BY <1>2, <2>1 DEF WritesBack, Knows
  <2> QED BY <1>1, <1>3, <2>1, <2>2, StepKeeps
<1>4. CASE Go(c, r)
  <2>1. To(c, "written") /\ "written" \in Plainly
    BY <1>4 DEF To, After, Plainly, Pcs
  <2> QED BY <1>1, <2>1, ToKeeps
<1> QED BY <1>1, <1>3, <1>4

LEMMA AnswersKeep ==
  ASSUME FilesInv, NEW c \in Terminals, Answers(c) \/ Interrupt(c)
  PROVE  FilesInv'
<1>1. CASE MenuEnds(c) \/ OfferDeclined(c) \/ Interrupt(c)
  <2>1. /\ cmd[c].pc # "idle" /\ {"idle", "written"} \subseteq Plainly
        /\ \/ To(c, "idle")
           \/ To(c, "written") /\ cmd[c].pc = "offer"
        /\ files' \in [Stems -> Definitions \cup {Broken, NoFile}]
    BY <1>1 DEF MenuEnds, OfferDeclined, Interrupt, Plainly, Pcs, FilesInv,
       FilesTypeOK
  <2> QED BY <2>1, ToKeeps
<1> QED BY <1>1, EditFieldKeeps, EditorEndsKeeps, NameKeeps, FillKeeps,
       OfferKeeps DEF Answers

-----------------------------------------------------------------------------
(* The workspace and the processes.                                         *)

WorkInv ==
    /\ up \in BOOLEAN /\ declared \subseteq Stems
    /\ detected \in [Terminals -> SUBSET Stems]
    /\ worker \in [Slots -> Workers]
    /\ crashes \in 0..MaxCrashes
    /\ CrashIsSeen /\ ExitIsKnown

(* What CrashIsSeen and ExitIsKnown say of one process.                     *)
Honest(w) == w.pc \in {"draining", "exited"} /\ ~w.error =>
               w.signalled /\ ~w.crashed

LEMMA IInvParts == IInv <=> FilesInv /\ WorkInv
  BY DEF IInv, TypeOK, FilesInv, WorkInv

LEMMA HonestAll ==
  CrashIsSeen /\ ExitIsKnown <=> \A n \in Slots : Honest(worker[n])
  BY DEF CrashIsSeen, ExitIsKnown, Honest

(* Nothing but commands touches the commands and the files.                 *)
LEMMA WorkspaceKeepsFiles ==
  ASSUME FilesInv, NEW c \in Terminals, Workspace(c) \/ Finish(c)
  PROVE  FilesInv'
<1>1. CASE StartCommand(c)
  <2> DEFINE r == [Idle EXCEPT !.op = "start", !.pc = "detect"]
  <2>1. r \in Cmds /\ r.pc = "detect" /\ r.base = NoFile
    BY IdleTyped DEF Cmds, Ops, Pcs, Idle
  <2>2. Begin(c, r)
    BY <1>1 DEF StartCommand
  <2> HIDE DEF r
  <2> QED BY <2>1, <2>2, BeginKeeps DEF WritesBack, Knows
<1>2. CASE \/ StopCommand(c)
           \/ \E n \in declared : AgentStart(c, n) \/ AgentStop(c, n)
  <2>1. Begin(c, Idle)
    BY <1>2 DEF StopCommand, AgentStart, AgentStop
  <2> QED BY <2>1, IdleTyped, BeginKeeps
<1>3. CASE Detect(c) \/ Open(c) \/ OpenFails(c) \/ Finish(c)
  <2>1. /\ cmd[c].pc \in {"detect", "open", "written", "start?", "restart?",
                          "clock in"}
        /\ \E pc \in {"idle", "open", "clock in", "restart?", "start?", "detect"} :
             To(c, pc)
        /\ files' = files
    BY <1>3 DEF Detect, Open, OpenFails, Finish, NothingToStart, ClockIn,
       LookForWorkspace, StartNow, RestartNow
  <2>2. {"idle", "open", "clock in", "restart?", "start?", "detect"} \subseteq Plainly
    BY DEF Plainly, Pcs
  <2> QED BY <2>1, <2>2, ToKeeps DEF FilesInv, FilesTypeOK
<1> QED BY <1>1, <1>2, <1>3 DEF Workspace

LEMMA LaunchedTyped ==
  /\ Off \in Workers /\ Honest(Off)
  /\ Launched \in Workers /\ Honest(Launched)
<1>1. Off \in Workers /\ Off.pc = "off"
  BY DEF Off, Workers, WorkerPcs
<1>2. Launched \in Workers /\ Launched.pc = "loading"
  BY <1>1 DEF Launched, Workers, WorkerPcs, Detected
<1> QED BY <1>1, <1>2 DEF Honest

LEMMA StoppedTyped ==
  ASSUME NEW w \in Workers, Honest(w)
  PROVE  Stopped(w) \in Workers /\ Honest(Stopped(w))
<1> DEFINE told == [w EXCEPT !.stopped = TRUE, !.wanted = FALSE]
<1>1. /\ told \in Workers /\ told.pc = w.pc /\ told.error = w.error
      /\ told.signalled = w.signalled /\ told.crashed = w.crashed
  BY DEF Workers
<1> HIDE DEF told
<1>2. CASE w.pc = "off" \/ w.pc = "exited"
  BY <1>1, <1>2 DEF Stopped, Honest, told
<1>3. CASE w.pc = "loading"
  <2> DEFINE r == [told EXCEPT !.pc = "exited", !.left = {}, !.def = NoFile,
                     !.error = TRUE]
  <2>1. r \in Workers /\ r.error
    BY <1>1 DEF Workers, WorkerPcs
  <2>2. Stopped(w) = r
    BY <1>3 DEF Stopped, told
  <2> QED BY <2>1, <2>2 DEF Honest
<1>4. CASE w.pc \notin {"off", "exited", "loading"}
  <2> DEFINE r == [told EXCEPT !.signalled = TRUE]
  <2>1. /\ r \in Workers /\ r.signalled /\ r.pc = w.pc /\ r.error = w.error
        /\ r.crashed = w.crashed
    BY <1>1 DEF Workers
  <2>2. Stopped(w) = r
    BY <1>4 DEF Stopped, told
  <2> HIDE DEF r
  <2> QED BY <2>1, <2>2 DEF Honest
<1> QED BY <1>2, <1>3, <1>4

LEMMA BecomesKeeps ==
  ASSUME WorkInv, NEW n \in Slots, NEW r \in Workers, Honest(r),
         Becomes(n, r), crashes' \in 0..MaxCrashes
  PROVE  WorkInv'
<1>1. worker' \in [Slots -> Workers] /\ \A m \in Slots : Honest(worker'[m])
  BY HonestAll DEF WorkInv, Becomes
<1>2. (CrashIsSeen /\ ExitIsKnown)'
  BY <1>1 DEF CrashIsSeen, ExitIsKnown, Honest
<1> QED BY <1>1, <1>2 DEF WorkInv, Becomes

LEMMA ExitsKeeps ==
  ASSUME WorkInv, NEW n \in Slots, NEW error \in BOOLEAN, Exits(n, error),
         error \/ (worker[n].signalled /\ ~worker[n].crashed),
         crashes' = crashes
  PROVE  WorkInv'
<1> DEFINE r == [worker[n] EXCEPT !.pc = "exited", !.left = {}, !.def = NoFile,
                   !.error = error]
<1>1. worker[n] \in Workers
  BY DEF WorkInv
<1>2. /\ r \in Workers /\ r.error = error
      /\ r.signalled = worker[n].signalled /\ r.crashed = worker[n].crashed
  BY <1>1 DEF Workers, WorkerPcs
<1>3. Becomes(n, r)
  BY DEF Exits
<1> HIDE DEF r
<1> QED BY <1>2, <1>3, BecomesKeeps DEF Honest, WorkInv

(* A process: it loads, builds, serves, crashes, is signalled and exits.    *)
LEMMA ProcessKeeps ==
  ASSUME FilesInv, WorkInv, NEW n \in Slots, Proceeds(n) \/ Crash(n) \/ Kill(n)
  PROVE  WorkInv'
<1>1. /\ worker[n] \in Workers /\ Honest(worker[n])
      /\ crashes \in 0..MaxCrashes
      /\ files \in [Stems -> Definitions \cup {Broken, NoFile}]
  BY HonestAll DEF WorkInv, FilesInv, FilesTypeOK
<1>2. ASSUME NEW m \in worker[n].left, LoadFile(n, m)
      PROVE  WorkInv'
  <2> DEFINE def == IF m = n THEN files[m] ELSE worker[n].def
             r == [worker[n] EXCEPT !.left = @ \ {m}, !.def = def]
  <2>1. def \in Definitions \cup {NoFile}
    BY <1>1, <1>2 DEF LoadFile, Parses, Workers
  <2> HIDE DEF def
  <2>2. r \in Workers /\ r.pc = worker[n].pc
    BY <1>1, <2>1 DEF Workers
  <2>3. worker[n].pc = "loading" /\ Becomes(n, r) /\ crashes' = crashes
    BY <1>2 DEF LoadFile, def
  <2> HIDE DEF r
  <2> QED BY <1>1, <2>2, <2>3, BecomesKeeps DEF Honest
<1>3. ASSUME NEW m \in worker[n].left, LoadFails(n, m)
      PROVE  WorkInv'
  BY <1>3, ExitsKeeps DEF LoadFails, ErrorOfBoot
<1>4. CASE Build(n)
  <2> DEFINE r == [worker[n] EXCEPT !.pc = "starting"]
  <2>1. r \in Workers /\ r.pc = "starting"
    BY <1>1 DEF Workers, WorkerPcs
  <2>2. crashes' = crashes /\ (Becomes(n, r) \/ Exits(n, TRUE))
    BY <1>4 DEF Build, ErrorOfBoot
  <2> HIDE DEF r
  <2> QED BY <1>1, <2>1, <2>2, BecomesKeeps, ExitsKeeps DEF Honest
<1>5. CASE Serve(n)
  <2> DEFINE r == [worker[n] EXCEPT !.pc = "serving"]
  <2>1. r \in Workers /\ r.pc = "serving"
    BY <1>1 DEF Workers, WorkerPcs
  <2>2. crashes' = crashes /\ Becomes(n, r)
    BY <1>5 DEF Serve
  <2> HIDE DEF r
  <2> QED BY <1>1, <2>1, <2>2, BecomesKeeps DEF Honest
<1>6. CASE Wake(n)
  <2> DEFINE r == [worker[n] EXCEPT !.pc = "draining", !.error = worker[n].crashed]
  <2>1. /\ r \in Workers /\ r.error = worker[n].crashed
        /\ r.crashed = worker[n].crashed /\ r.signalled = worker[n].signalled
    BY <1>1 DEF Workers, WorkerPcs
  <2>2. /\ crashes' = crashes /\ Becomes(n, r)
        /\ worker[n].crashed \/ worker[n].signalled
    BY <1>6 DEF Wake, CrashWins
  <2> HIDE DEF r
  <2> QED BY <1>1, <2>1, <2>2, BecomesKeeps DEF Honest
<1>7. CASE Drained(n)
  <2>1. PICK error \in {worker[n].error, TRUE} : Exits(n, error)
    BY <1>7 DEF Drained
  <2>2. /\ error \in BOOLEAN /\ crashes' = crashes
        /\ error \/ (worker[n].signalled /\ ~worker[n].crashed)
    BY <1>1, <1>7 DEF Drained, Workers, Honest
  <2> QED BY <2>1, <2>2, ExitsKeeps
<1>8. CASE Restart(n)
  <2> DEFINE r == [Off EXCEPT !.wanted = worker[n].wanted]
  <2>1. r \in Workers /\ Honest(r)
    BY <1>1, LaunchedTyped DEF Workers, Off, Honest
  <2>2. crashes' = crashes /\ (Becomes(n, Launched) \/ Becomes(n, r))
    BY <1>8 DEF Restart
  <2> HIDE DEF r
  <2> QED BY <1>1, <2>1, <2>2, LaunchedTyped, BecomesKeeps
<1>9. CASE Crash(n)
  <2> DEFINE r == [worker[n] EXCEPT !.crashed = TRUE]
  <2>1. r \in Workers /\ r.pc = worker[n].pc
    BY <1>1 DEF Workers
  <2>2. /\ crashes' \in 0..MaxCrashes /\ Becomes(n, r)
        /\ worker[n].pc \in {"starting", "serving"}
    BY <1>1, <1>9, WorkersAssumption DEF Crash, Running
  <2> HIDE DEF r
  <2> QED BY <2>1, <2>2, BecomesKeeps DEF Honest
<1>10. CASE Kill(n)
  <2> DEFINE r == [worker[n] EXCEPT !.signalled = TRUE,
                     !.wanted = @ /\ worker[n].crashed]
  <2>1. r \in Workers /\ r.pc = worker[n].pc
    BY <1>1 DEF Workers
  <2>2. /\ crashes' = crashes /\ Becomes(n, r)
        /\ worker[n].pc \in {"starting", "serving"}
    BY <1>10 DEF Kill, Running
  <2> HIDE DEF r
  <2> QED BY <1>1, <2>1, <2>2, BecomesKeeps DEF Honest
<1> QED BY <1>2, <1>3, <1>4, <1>5, <1>6, <1>7, <1>8, <1>9, <1>10 DEF Proceeds

(* The commands of the workspace start and stop processes.                  *)
LEMMA WorkspaceKeepsWork ==
  ASSUME FilesInv, WorkInv, NEW c \in Terminals, Workspace(c) \/ Finish(c)
  PROVE  WorkInv'
<1>1. \A n \in Slots : worker[n] \in Workers /\ Honest(worker[n])
  BY HonestAll DEF WorkInv
<1>2. ASSUME NEW n \in Stems
      PROVE  /\ Starts(n) \in [Slots -> Workers]
             /\ \A m \in Slots : Honest(Starts(n)[m])
  BY <1>1, LaunchedTyped DEF WorkInv, Starts
<1>3. /\ AllStopped \in [Slots -> Workers]
      /\ \A m \in Slots : Honest(AllStopped[m])
  BY <1>1, StoppedTyped DEF AllStopped
<1>4. ASSUME NEW n \in Slots
      PROVE  /\ [worker EXCEPT ![n] = Stopped(@)] \in [Slots -> Workers]
             /\ \A m \in Slots : Honest([worker EXCEPT ![n] = Stopped(@)][m])
  BY <1>1, StoppedTyped DEF WorkInv
<1>5. cmd[c] \in Cmds /\ Detected \subseteq Stems
  BY DEF FilesInv, FilesTypeOK, Detected
<1>6. worker' \in [Slots -> Workers] /\ \A m \in Slots : Honest(worker'[m])
  <2>1. \/ worker' = worker \/ worker' = AllStopped
        \/ \E n \in Stems : worker' = Starts(n)
        \/ \E n \in Slots : worker' = [worker EXCEPT ![n] = Stopped(@)]
    BY <1>5 DEF Workspace, Finish, StartCommand, Detect, Open, OpenFails,
       StopCommand, AgentStart, AgentStop, NothingToStart, LookForWorkspace,
       StartNow, RestartNow, ClockIn, Down, workVars, WorkInv, Cmds
  <2> QED BY <1>1, <1>2, <1>3, <1>4, <2>1 DEF WorkInv
<1>7. /\ up' \in BOOLEAN /\ declared' \subseteq Stems
      /\ detected' \in [Terminals -> SUBSET Stems] /\ crashes' = crashes
  BY <1>5 DEF Workspace, Finish, StartCommand, Detect, Open, OpenFails,
     StopCommand, AgentStart, AgentStop, NothingToStart, LookForWorkspace,
     StartNow, RestartNow, ClockIn, Down, workVars, WorkInv
<1>8. (CrashIsSeen /\ ExitIsKnown)'
  BY <1>6 DEF CrashIsSeen, ExitIsKnown, Honest
<1> QED BY <1>6, <1>7, <1>8 DEF WorkInv

LEMMA Untouched ==
  /\ FilesInv /\ UNCHANGED filesVars => FilesInv'
  /\ WorkInv /\ UNCHANGED workVars => WorkInv'
  BY DEF FilesInv, FilesTypeOK, CommandsInv, filesVars, WorkInv, workVars,
     CrashIsSeen, ExitIsKnown

LEMMA InitIInv == Init => IInv
<1> SUFFICES ASSUME Init PROVE FilesInv /\ WorkInv
  BY IInvParts
<1>1. \A n \in Stems : Fresh(n) \in Definitions
  BY DEF Fresh, Definitions, Values
<1>2. FilesTypeOK
  BY <1>1, IdleTyped, FilesAssumption DEF Init, FilesInit, FilesTypeOK
<1>3. CommandsInv
  BY IdleTyped DEF Init, FilesInit, CommandsInv
<1>4. WorkInv
  <2>1. /\ up \in BOOLEAN /\ declared \subseteq Stems
        /\ detected \in [Terminals -> SUBSET Stems] /\ crashes \in 0..MaxCrashes
    BY WorkersAssumption DEF Init, Detected
  <2>2. worker \in [Slots -> Workers] /\ \A n \in Slots : Honest(worker[n])
    BY LaunchedTyped DEF Init
  <2> QED BY <2>1, <2>2, HonestAll DEF WorkInv
<1> QED BY <1>2, <1>3, <1>4 DEF FilesInv

LEMMA NextIInv == IInv /\ [Next]_vars => IInv'
<1> SUFFICES ASSUME FilesInv, WorkInv, [Next]_vars PROVE FilesInv' /\ WorkInv'
  BY DEF IInv, TypeOK, FilesInv, WorkInv
<1>1. CASE UNCHANGED vars
  BY <1>1, Untouched DEF vars
<1>2. ASSUME NEW c \in Terminals, FileStep(c)
      PROVE  FilesInv' /\ WorkInv'
  BY <1>2, Untouched, BeginsKeep, WritesKeep, AnswersKeep DEF FileStep
<1>3. ASSUME NEW c \in Terminals, Interrupted(c)
      PROVE  FilesInv' /\ WorkInv'
  <2>1. WorkInv'
    BY <1>3 DEF Interrupted, WorkInv, CrashIsSeen, ExitIsKnown
  <2> QED BY <1>3, <2>1, AnswersKeep DEF Interrupted
<1>4. ASSUME NEW n \in Slots, Proceeds(n) \/ Crash(n) \/ Kill(n)
      PROVE  FilesInv' /\ WorkInv'
  <2>1. UNCHANGED filesVars
    BY <1>4 DEF Proceeds, Crash, Kill, LoadFile, LoadFails, Build, Serve, Wake,
       Drained, Restart, Exits, Becomes
  <2> QED BY <1>4, <2>1, Untouched, ProcessKeeps
<1> QED BY <1>1, <1>2, <1>3, <1>4, WorkspaceKeepsFiles, WorkspaceKeepsWork
       DEF Next

(* The inductive invariant of the directory and its processes.              *)
THEOREM Invariance == Spec => []IInv
  BY InitIInv, NextIInv, PTL DEF Spec

(* The directory, the commands and the processes are typed, for any         *)
(* terminals, files, fields and slots.                                      *)
THEOREM TypeCorrect == Spec => []TypeOK
<1>1. IInv => TypeOK
  BY DEF IInv
<1> QED BY <1>1, Invariance, PTL

(* A process that exits without an error was told to, and hides no crash    *)
(* (_worker_runtime.py, _select_exit_exception).                            *)
THEOREM NoCrashHidden == Spec => []CrashIsSeen
<1>1. IInv => CrashIsSeen
  BY DEF IInv
<1> QED BY <1>1, Invariance, PTL

-----------------------------------------------------------------------------
(* What a step does to the directory.                                       *)

Changes(c) ==
    \/ Replace(c) \/ WriteNew(c) \/ Prune(c) \/ Copy(c) \/ UnlinkOld(c)
    \/ Rollback(c) \/ Confirm(c)

(* Files change by the write of one command; the others are as they were,   *)
(* and the command goes on to another place.                                *)
LEMMA OneWriter ==
  ASSUME IInv, Next, files' # files
  PROVE  \E c \in Terminals :
           /\ Changes(c) /\ cmd'[c] # cmd[c]
           /\ \A d \in Terminals \ {c} : cmd'[d] = cmd[d]
<1>1. PICK c \in Terminals : Changes(c)
  <2>1. PICK c \in Terminals : FileStep(c) \/ Interrupted(c) \/ Workspace(c)
                                \/ Finish(c)
    BY DEF Next, Proceeds, Crash, Kill, LoadFile, LoadFails, Build, Serve, Wake,
       Drained, Restart, Exits, Becomes, filesVars
  <2>2. ~(Interrupted(c) \/ Workspace(c) \/ Finish(c))
    BY DEF Interrupted, Interrupt, Workspace, Finish, StartCommand, Detect, Open,
       OpenFails, StopCommand, AgentStart, AgentStop, NothingToStart,
       LookForWorkspace, StartNow, RestartNow, ClockIn, Begin
  <2>3. ~Begins(c) /\ ~Answers(c)
    BY DEF Begins, Answers, Create, Set, Tools, Edit, Delete, Rename, Begin,
       EditField, MenuEnds, EditorEnds, Name, Fill, Offer, OfferDeclined
  <2> QED BY <2>1, <2>2, <2>3 DEF FileStep, Writes, Changes, Load, WriteFails,
         CopyFails, UnlinkFails, RollbackFails
<1>2. /\ cmd \in [Terminals -> Cmds] /\ cmd[c] \in Cmds /\ WritesBack(cmd[c])
  BY DEF IInv, TypeOK, FilesTypeOK, CommandsInv
<1>3. \A d \in Terminals \ {c} : cmd'[d] = cmd[d]
  BY <1>1, <1>2 DEF Changes, Replace, WriteNew, Prune, Copy, UnlinkOld, Rollback,
     Confirm, To, Go
<1>4. CASE Replace(c)
  <2> DEFINE q == [cmd[c] EXCEPT !.todo = Tail(@), !.base = NoFile, !.disk = NoFile]
  <2>1. q.base = NoFile /\ \A pc : After(q, pc).base = NoFile
    BY <1>2 DEF Cmds, After, Idle
  <2>2. cmd'[c].base = NoFile
    BY <1>2, <1>4, <2>1 DEF Replace, Go
  <2> QED BY <1>1, <1>2, <1>3, <1>4, <2>2, NoDefinition DEF Replace, WritesBack
<1>5. CASE WriteNew(c) \/ Prune(c) \/ Copy(c) \/ UnlinkOld(c) \/ Rollback(c)
           \/ Confirm(c)
  <2>1. /\ cmd[c].pc \in {"write", "prune", "copy", "unlink", "rollback", "confirm"}
        /\ cmd[c].then \in {"idle", "menu", "offer", "written"}
    BY <1>2, <1>5 DEF WriteNew, Prune, Copy, UnlinkOld, Rollback, Confirm, Cmds
  <2>2. \A pc : After(cmd[c], pc).pc = pc
    BY <1>2 DEF After, Idle, Cmds
  <2>3. CASE Copy(c)
    BY <1>1, <1>2, <1>3, <2>3 DEF Copy, Go, Cmds
  <2>4. CASE ~Copy(c)
    <3>1. \E pc : To(c, pc) /\ pc # cmd[c].pc
      BY <1>5, <2>1, <2>4 DEF WriteNew, Prune, UnlinkOld, Rollback, Confirm
    <3> QED BY <1>1, <1>2, <1>3, <2>2, <3>1 DEF To, Go
  <2> QED BY <2>3, <2>4
<1> QED BY <1>1, <1>4, <1>5 DEF Changes

(* A write overlays what it has loaded: of a file that nobody else wrote    *)
(* since, it changes one field (md_writer.py).                              *)
THEOREM OwnFieldOnly == Spec => UpdateTouchesOwnField
<1>1. IInv /\ [Next]_vars =>
        [\A c \in Terminals :
           cmd[c].pc = "replace" /\ files' # files /\ cmd'[c] # cmd[c]
             /\ files[cmd[c].name] = cmd[c].disk =>
           \A f \in Fields \ {Head(cmd[c].todo)} :
             files'[cmd[c].name].field[f] = files[cmd[c].name].field[f]]_vars
  <2> SUFFICES ASSUME IInv, Next, NEW c \in Terminals, cmd[c].pc = "replace",
                      files' # files, cmd'[c] # cmd[c],
                      files[cmd[c].name] = cmd[c].disk,
                      NEW f \in Fields, f # Head(cmd[c].todo)
               PROVE  files'[cmd[c].name].field[f] = files[cmd[c].name].field[f]
    BY DEF vars, filesVars
  <2>1. Replace(c)
    BY OneWriter DEF Changes, Replace, WriteNew, Prune, Copy, UnlinkOld, Rollback,
       Confirm
  <2> DEFINE n == cmd[c].name
             d == cmd[c].base
  <2>2. /\ n \in Stems /\ d \in Definitions /\ d = files[n]
        /\ DOMAIN files = Stems
    BY DEF IInv, TypeOK, FilesTypeOK, CommandsInv, WritesBack, Cmds
  <2>3. files'[n] = [d EXCEPT !.field[Head(cmd[c].todo)] = "new"]
    BY <2>1, <2>2 DEF Replace, Written
  <2> HIDE DEF n, d
  <2>4. [d EXCEPT !.field[Head(cmd[c].todo)] = "new"].field[f] = d.field[f]
    BY <2>2 DEF Definitions
  <2> QED BY <2>2, <2>3, <2>4 DEF n
<1> QED BY <1>1, Invariance, PTL DEF Spec, UpdateTouchesOwnField

(* A command that no other was beside loses no agent, unless it deletes it  *)
(* or prunes the file that passes for the untouched seed                    *)
(* (agent_lifecycle.py, rename_agent; _agents.py, write_agent).             *)
THEOREM NoAgentLost == Spec => AgentSurvives
<1>1. IInv /\ [Next]_vars =>
        [\A a \in Agents(files) \ Agents(files)' :
           \E c \in Terminals :
             /\ cmd'[c] # cmd[c]
             /\ \/ cmd[c].op = "delete"
                \/ cmd[c].pc = "prune" /\ files[Seed].agent = a
                \/ ~cmd[c].alone]_vars
  <2> SUFFICES ASSUME IInv, Next, NEW a \in Agents(files) \ Agents(files'),
                      files' # files
               PROVE  \E c \in Terminals :
                        /\ cmd'[c] # cmd[c]
                        /\ \/ cmd[c].op = "delete"
                           \/ cmd[c].pc = "prune" /\ files[Seed].agent = a
                           \/ ~cmd[c].alone
    BY DEF vars, filesVars
  <2>1. PICK c \in Terminals : Changes(c) /\ cmd'[c] # cmd[c]
    BY OneWriter
  <2>2. SUFFICES ASSUME cmd[c].alone
                 PROVE  \/ cmd[c].op = "delete"
                        \/ cmd[c].pc = "prune" /\ files[Seed].agent = a
    BY <2>1
  <2>3. /\ WritesBack(cmd[c]) /\ Knows(cmd[c], files) /\ cmd[c] \in Cmds
        /\ cmd[c].name \in Stems /\ cmd[c].to \in Stems /\ DOMAIN files = Stems
    BY <2>2 DEF IInv, TypeOK, FilesTypeOK, CommandsInv, Cmds
  (* Of one file that changes only its own agent can go.                    *)
  <2>0. ASSUME NEW n \in Stems, NEW x, files' = [files EXCEPT ![n] = x]
        PROVE  /\ files[n] \in Definitions /\ files[n].agent = a
               /\ x \in Definitions => x.agent # a
               /\ \A m \in Stems \ {n} :
                    files[m] \in Definitions => files[m].agent # a
    BY <2>0, <2>3 DEF Agents
  <2>4. CASE Replace(c)
    <3> DEFINE x == Written(cmd[c])
    <3>1. files' = [files EXCEPT ![cmd[c].name] = x]
      BY <2>4 DEF Replace
    <3>2. /\ cmd[c].base \in Definitions /\ files[cmd[c].name] = cmd[c].base
      BY <2>3, <2>4 DEF Replace, WritesBack, Knows
    <3>3. x \in Definitions /\ x.agent = cmd[c].base.agent
      BY <3>2, FieldTyped DEF Written, Definitions
    <3> HIDE DEF x
    <3> QED BY <2>0, <2>3, <3>1, <3>2, <3>3
  <2>5. CASE WriteNew(c)
    BY <2>0, <2>3, <2>5, NoDefinition DEF WriteNew, Knows
  <2>6. CASE Prune(c)
    <3>1. files' = [files EXCEPT ![Seed] = NoFile]
      BY <2>6 DEF Prune
    <3> QED BY <2>0, <2>6, <3>1, FilesAssumption DEF Prune
  <2>7. CASE Copy(c)
    BY <2>0, <2>3, <2>7, NoDefinition DEF Copy, Knows
  <2>8. CASE UnlinkOld(c) \/ Rollback(c)
    <3>1. /\ cmd[c].to # cmd[c].name /\ files[cmd[c].name] \in Definitions
          /\ files[cmd[c].to] = Renamed(files[cmd[c].name], cmd[c].to)
      BY <2>3, <2>8 DEF UnlinkOld, Rollback, Knows
    <3>2. /\ files[cmd[c].to] \in Definitions
          /\ files[cmd[c].to].agent = files[cmd[c].name].agent
      BY <2>3, <3>1 DEF Renamed, Definitions
    <3> QED BY <2>0, <2>3, <2>8, <3>1, <3>2 DEF UnlinkOld, Rollback
  <2>9. CASE Confirm(c)
    BY <2>3, <2>9 DEF Confirm, WritesBack
  <2> QED BY <2>1, <2>4, <2>5, <2>6, <2>7, <2>8, <2>9 DEF Changes
<1> QED BY <1>1, Invariance, PTL DEF Spec, AgentSurvives

=============================================================================
