----------------------------- MODULE SetupWizard -----------------------------
(***************************************************************************)
(* disco init: the agent, Discord, the broker and the live finish, with    *)
(* what it keeps between two runs: the install's .env, the checkpoint      *)
(* setup.json and the agent's file.  The operator may end it anywhere and  *)
(* run it again, and Discord, where the bot is invited and removed, goes   *)
(* on beside it.                                                           *)
(*                                                                         *)
(* Each key has one line in .env.  Credentials of the provider, and the    *)
(* application id that only makes the invite link, are left out; the       *)
(* agents directory is in AgentFiles.                                      *)
(***************************************************************************)
EXTENDS Naturals, FiniteSets

CONSTANTS
    Names, Starter,    \* agents, the one the installer seeds
    Models, Flagship,  \* models, the provider's default
    Tokens, Accepted,  \* bot tokens, those Discord takes
    Guilds, Channels, GuildOf,
    Perms,             \* what it takes to post, _POST_REQUIRED
    Overwrites,        \* bound: what a role or member may be given in a channel
    Urls, Local,       \* brokers, the local one
    PollTimeout, PollInterval,
    RetryAfters,       \* bound: waits Discord asks for
    RequestTimes,      \* bound: how long a request takes
    None,              \* nothing there, or not usable
    MaxRuns            \* bound

ASSUME SetupAssumption ==
    /\ Starter \in Names /\ Flagship \in Models /\ Accepted \subseteq Tokens
    /\ GuildOf \in [Channels -> Guilds]
    /\ Overwrites \subseteq {o \in [allow: SUBSET Perms, deny: SUBSET Perms] :
                               o.allow \cap o.deny = {}}
    /\ PollTimeout \in Nat /\ PollInterval \in Nat \ {0}
    /\ RetryAfters \subseteq Nat \ {0} /\ RequestTimes \subseteq Nat
    /\ MaxRuns \in Nat

VARIABLES
    env,     \* .env
    ckpt,    \* setup.json
    md,      \* the model each agent's file names, or None
    joined,  \* the guilds the bot is in
    w,       \* the wizard
    runs

vars == <<env, ckpt, md, joined, w, runs>>
kept == <<env, ckpt, md>>

OrNone(S) == S \cup {None}

Envs == [token: OrNone(Tokens), guild: OrNone(Guilds),
         channel: OrNone(Channels), broker: OrNone(Urls \cup {Local})]

(* SetupCheckpoint.  provider_done is that an agent is named.               *)
Checkpoints == [agent: OrNone(Names), discord: BOOLEAN, broker: BOOLEAN,
                guild: OrNone(Guilds), channel: OrNone(Channels)]

NoProgress == [agent |-> None, discord |-> FALSE, broker |-> FALSE,
               guild |-> None, channel |-> None]

Pcs == {"off", "name", "model", "write", "save agent", "token", "verify",
        "poll", "guild", "channel", "save discord", "broker", "save broker",
        "open", "clock in", "watch", "confirm", "await"}

WatcherPcs == {"none", "connecting", "watching", "seen", "missed", "raised"}

(* mem is the checkpoint in memory.  The rest is history: base is the       *)
(* binding in .env as the run found it, while every answer so far was Enter *)
(* with the saved answer on offer; agreed says that it was the checkpoint's *)
(* then; bound is the channel that was picked and whether those on offer    *)
(* were the right ones.                                                     *)
Off == [pc |-> "off", mem |-> NoProgress, resuming |-> FALSE, name |-> None,
        model |-> None, existing |-> None, token |-> None, pasted |-> FALSE,
        clock |-> 0, list |-> {}, guild |-> None, watcher |-> "none",
        base |-> None, agreed |-> FALSE, bound |-> None]

Binding == [token |-> env.token, guild |-> env.guild, channel |-> env.channel]

Bindings == [token: OrNone(Tokens), guild: OrNone(Guilds),
             channel: OrNone(Channels)]
Picks == [channel: Channels, right: BOOLEAN]

Wizards == [pc: Pcs, mem: Checkpoints, resuming: BOOLEAN, name: OrNone(Names),
            model: OrNone(Models), existing: OrNone(Tokens),
            token: OrNone(Tokens), pasted: BOOLEAN, clock: 0..PollTimeout,
            list: SUBSET Guilds, guild: OrNone(Guilds), watcher: WatcherPcs,
            base: OrNone(Bindings), agreed: BOOLEAN, bound: OrNone(Picks)]

TypeOK ==
    /\ env \in Envs
    /\ ckpt \in OrNone(Checkpoints)
    /\ md \in [Names -> OrNone(Models)]
    /\ joined \subseteq Guilds
    /\ w \in Wizards
    /\ runs \in 0..MaxRuns

(* An install as it is seeded, with or without the starter.                 *)
Init ==
    /\ env = [token |-> None, guild |-> None, channel |-> None, broker |-> None]
    /\ ckpt = None
    /\ md \in {m \in [Names -> OrNone({Flagship})] :
                \A n \in Names \ {Starter} : m[n] = None}
    /\ joined \in SUBSET Guilds
    /\ w = Off
    /\ runs = 0

-----------------------------------------------------------------------------
(* What a bot may do in a channel.                                          *)

(* Its standing in the guild and the overwrites of the channel: everyone's, *)
(* its roles' and its own.                                                  *)
NoOverwrite == [allow |-> {}, deny |-> {}]
Standings == {g \in [owner: BOOLEAN, admin: BOOLEAN, base: SUBSET Perms] :
                ~(g.owner /\ g.admin)}
Plain == [everyone |-> NoOverwrite, roles |-> {}, member |-> NoOverwrite]
Situations == [everyone: Overwrites \cup {NoOverwrite}, roles: SUBSET Overwrites,
               member: Overwrites \cup {NoOverwrite}]

Overlay(perms, allow, deny) == (perms \ deny) \cup allow

(* Mutated form: what one role denies, another does not allow.              *)
OverRolesDenied(perms, roles) ==
    (perms \cup UNION {o.allow : o \in roles}) \ UNION {o.deny : o \in roles}

OverRoles(perms, roles) ==
    Overlay(perms, UNION {o.allow : o \in roles}, UNION {o.deny : o \in roles})

Effective(g, s) ==
    IF g.owner \/ g.admin THEN Perms
    ELSE LET open == Overlay(g.base, s.everyone.allow, s.everyone.deny)
         IN  Overlay(OverRoles(open, s.roles), s.member.allow, s.member.deny)

(* An overwrite that grants Administrator is not among Overwrites: Discord  *)
(* offers none.                                                             *)
CanPost(g, s) == Perms \subseteq Effective(g, s)

(* Discord's own rule: the most specific overwrite that has an opinion.     *)
Grants(g, s, p) ==
    \/ g.owner \/ g.admin
    \/ p \in s.member.allow
    \/ /\ p \notin s.member.deny
       /\ \/ \E o \in s.roles : p \in o.allow
          \/ /\ \A o \in s.roles : p \notin o.deny
             /\ p \in s.everyone.allow \/ (p \in g.base /\ p \notin s.everyone.deny)

MayPostIn(g, listing) ==
    {c \in DOMAIN listing : \A p \in Perms : Grants(g, listing[c], p)}

ChannelsOf(g) == {c \in Channels : GuildOf[c] = g}

(* Bound: one channel of a listing has overwrites.                          *)
Listing(g, d, s) == [[c \in ChannelsOf(g) |-> Plain] EXCEPT ![d] = s]
Listings(g) == {Listing(g, d, s) : d \in ChannelsOf(g), s \in Situations}

-----------------------------------------------------------------------------
Go(r) == w' = r /\ UNCHANGED <<joined, runs>>
To(pc) == Go(IF pc = "off" THEN Off ELSE [w EXCEPT !.pc = pc])

(* A key is set in its place, or added.                                     *)
Upsert(key, value) == env' = [env EXCEPT ![key] = value]

(* What is left of base after an answer.                                    *)
Answered(enter) == IF enter THEN w.base ELSE None

(* No agent's file is broken here: it is there or not.                      *)
Parses(n) == md[n] # None

(* A run begins: a checkpoint that cannot be used is none.                  *)
Begin ==
    /\ w.pc = "off" /\ runs < MaxRuns
    /\ runs' = runs + 1
    /\ LET mem == IF ckpt = None THEN NoProgress ELSE ckpt
       IN  w' = [Off EXCEPT !.pc = "name", !.mem = mem, !.base = Binding,
                   !.agreed = env.guild = mem.guild /\ env.channel = mem.channel,
                   !.resuming = mem.agent # None /\ Parses(mem.agent)]
    /\ UNCHANGED <<kept, joined>>

(* Ctrl-C, or the terminal is closed.                                       *)
Interrupt ==
    /\ w.pc # "off"
    /\ To("off") /\ UNCHANGED kept

DefaultName ==
    LET there == {n \in Names : md[n] # None}
    IN  IF w.resuming THEN w.mem.agent
        ELSE IF Cardinality(there) = 1 THEN CHOOSE n \in there : TRUE
        ELSE Starter

Name(n) ==
    /\ w.pc = "name"
    /\ Go([w EXCEPT !.pc = "model", !.name = n, !.resuming = FALSE,
             !.base = Answered(n = DefaultName)])
    /\ UNCHANGED kept

(* The models on offer are the provider's, or the known ones when it does   *)
(* not answer, refuses the key or has none.                                 *)
Offers == SUBSET Models \ {{}}

DefaultModel(offered) ==
    IF Flagship \in offered THEN Flagship
    ELSE IF md[w.name] \in offered THEN md[w.name]
    ELSE CHOOSE m \in offered : TRUE

Model(m, offered) ==
    /\ w.pc = "model" /\ m \in offered
    /\ Go([w EXCEPT !.pc = "write", !.model = m,
             !.base = Answered(m = DefaultModel(offered))])
    /\ UNCHANGED kept

Write ==
    /\ w.pc = "write"
    /\ md' = [md EXCEPT ![w.name] = w.model]
    /\ Go([w EXCEPT !.pc = "save agent", !.model = None])
    /\ UNCHANGED <<env, ckpt>>

WriteFails ==
    /\ w.pc = "write"
    /\ To("off") /\ UNCHANGED kept

(* The checkpoint is saved; the token in .env is what Enter keeps.          *)
Save(pc, mem) ==
    /\ ckpt' = mem
    /\ Go([w EXCEPT !.pc = pc, !.mem = mem, !.name = None,
             !.existing = IF pc = "token" THEN env.token ELSE None,
             !.token = None, !.pasted = FALSE, !.guild = None])
    /\ UNCHANGED <<env, md>>

SaveAgent ==
    w.pc = "save agent" /\ Save("token", [w.mem EXCEPT !.agent = w.name])

-----------------------------------------------------------------------------
(* Discord.  Without a token there is nothing to discover.                  *)
PasteToken(t) ==
    /\ w.pc = "token"
    /\ Go([w EXCEPT !.pc = "verify", !.token = t, !.pasted = TRUE,
             !.base = None])
    /\ UNCHANGED kept

KeepToken ==
    /\ w.pc = "token"
    /\ Go([w EXCEPT !.pc = IF w.existing = None THEN "save discord" ELSE "verify",
             !.token = w.existing, !.pasted = FALSE])
    /\ UNCHANGED kept

(* It is asked for again, and Enter does not keep it.                       *)
TokenRefused ==
    /\ w.pc = "verify" /\ w.token \notin Accepted
    /\ Go([w EXCEPT !.pc = "token", !.existing = None, !.token = None])
    /\ UNCHANGED kept

(* Discord takes it, or cannot be asked right now.                          *)
TokenTaken(asked) ==
    /\ w.pc = "verify" /\ (asked => w.token \in Accepted)
    /\ IF w.pasted THEN Upsert("token", w.token) ELSE UNCHANGED env
    /\ To("poll") /\ UNCHANGED <<ckpt, md>>

PollAnswered ==
    /\ w.pc = "poll" /\ w.token \in Accepted /\ joined # {}
    /\ Go([w EXCEPT !.pc = "guild", !.list = joined, !.clock = 0])
    /\ UNCHANGED kept

PollRefused ==
    /\ w.pc = "poll" /\ w.token \notin Accepted
    /\ Go([w EXCEPT !.pc = "save discord", !.clock = 0])
    /\ UNCHANGED kept

(* Mutated form: only a deadline that is over ends the poll.                *)
GivesUpLate(now, wait) == now > PollTimeout

GivesUp(now, wait) == now + wait > PollTimeout

(* The bot is in no guild, or Discord is not there: the next look is after  *)
(* the interval; or it asks for a wait of its own.                          *)
PollWaits(took, wait) ==
    /\ w.pc = "poll"
    /\ LET now == w.clock + took
       IN  Go(IF GivesUp(now, wait)
              THEN [w EXCEPT !.pc = "save discord", !.clock = 0]
              ELSE [w EXCEPT !.clock = now + wait])
    /\ UNCHANGED kept

(* Mutated form: the first guild that is listed.                            *)
DefaultGuildFirst(list) == CHOOSE g \in list : TRUE

DefaultGuild(list) ==
    IF w.mem.guild \in list THEN w.mem.guild ELSE CHOOSE g \in list : TRUE

Guild(g) ==
    /\ w.pc = "guild" /\ g \in w.list
    /\ Upsert("guild", g)
    /\ Go([w EXCEPT !.pc = "channel", !.guild = g, !.list = {},
             !.base = Answered(g = DefaultGuild(w.list) /\ w.mem.guild \in w.list)])
    /\ UNCHANGED <<ckpt, md>>

(* The listing fails, or the bot may post nowhere.                          *)
NoChannel ==
    /\ w.pc = "channel"
    /\ Go([w EXCEPT !.pc = "save discord", !.mem.guild = w.guild])
    /\ UNCHANGED kept

DefaultChannel(offered) ==
    IF w.mem.channel \in offered THEN w.mem.channel
    ELSE CHOOSE c \in offered : TRUE

Channel(g, listing, c) ==
    /\ w.pc = "channel" /\ w.token \in Accepted /\ w.guild \in joined
    /\ LET offered == {d \in DOMAIN listing : CanPost(g, listing[d])}
       IN  /\ c \in offered
           /\ Go([w EXCEPT !.pc = "save discord", !.mem.guild = w.guild,
                    !.mem.channel = c, !.mem.discord = TRUE,
                    !.bound = [channel |-> c, right |-> offered = MayPostIn(g, listing)],
                    !.base = Answered(/\ c = DefaultChannel(offered)
                                      /\ w.mem.channel \in offered)])
    /\ Upsert("channel", c)
    /\ UNCHANGED <<ckpt, md>>

SaveDiscord == w.pc = "save discord" /\ Save("broker", w.mem)

-----------------------------------------------------------------------------
(* The broker: Enter is the local one; asked for a URL, Enter keeps what    *)
(* .env has.                                                                *)
Broker(b) ==
    /\ w.pc = "broker"
    /\ Upsert("broker", b)
    /\ Go([w EXCEPT !.pc = "save broker", !.base = Answered(b = Local)])
    /\ UNCHANGED <<ckpt, md>>

SaveBroker ==
    w.pc = "save broker" /\ Save("open", [w.mem EXCEPT !.broker = TRUE])

(* The live finish: the workspace is opened, the agent clocks in.  It ends  *)
(* early without an install or supervisor, and when either fails.           *)
Open == w.pc = "open" /\ To("clock in") /\ UNCHANGED kept

FinishEndsEarly ==
    /\ w.pc \in {"open", "clock in"}
    /\ To("off") /\ UNCHANGED kept

ClockIn ==
    /\ w.pc = "clock in"
    /\ Go([w EXCEPT !.pc = "watch", !.watcher = "connecting"])
    /\ UNCHANGED kept

(* The watcher is a task of the wizard's loop, which the prompt blocks.     *)
Watcher(from, to) ==
    /\ w.pc \in {"watch", "await"} /\ w.watcher = from
    /\ Go([w EXCEPT !.watcher = to])
    /\ UNCHANGED kept

Connected == Watcher("connecting", "watching")
WatcherRaises == \E pc \in {"connecting", "watching"} : Watcher(pc, "raised")
WatchEnds == \E seen \in {"seen", "missed"} : Watcher("watching", seen)

(* Mutated form: only a watcher that is ready is waited for.                *)
GoesOnWhenReady(watcher) == watcher \in {"watching", "seen", "missed"}

(* The wait for it to be ready races its end.                               *)
GoesOn(watcher) == watcher # "connecting"

Prompt ==
    /\ w.pc = "watch" /\ GoesOn(w.watcher)
    /\ To("confirm") /\ UNCHANGED kept

Confirm == w.pc = "confirm" /\ To("await") /\ UNCHANGED kept

(* The celebration, or the hint to look for the cause.                      *)
Told ==
    /\ w.pc = "await" /\ w.watcher \in {"seen", "missed", "raised"}
    /\ To("off") /\ UNCHANGED kept

-----------------------------------------------------------------------------
(* Beside it the bot is invited and removed, and the checkpoint is lost,    *)
(* garbled or left by another version.                                      *)
Invited(g) == joined' = joined \cup {g} /\ UNCHANGED <<kept, w, runs>>
Removed(g) == joined' = joined \ {g} /\ UNCHANGED <<kept, w, runs>>

Spoiled ==
    /\ w.pc = "off" /\ ckpt' = None
    /\ UNCHANGED <<env, md, joined, w, runs>>

Prompts ==
    \/ \E n \in Names : Name(n)
    \/ \E offered \in Offers, m \in Models : Model(m, offered)
    \/ (\E t \in Tokens : PasteToken(t)) \/ KeepToken
    \/ \E g \in Guilds : Guild(g)
    \/ \E b \in Urls \cup {Local, env.broker} : Broker(b)
    \/ Confirm

(* A channel is picked at a prompt, too, out of what Discord has listed.    *)
PickChannel ==
    \E g \in Standings, c \in Channels :
      \E listing \in Listings(w.guild) : Channel(g, listing, c)

(* What the wizard does by itself.                                          *)
Works ==
    \/ Write \/ WriteFails \/ SaveAgent
    \/ TokenRefused \/ (\E asked \in BOOLEAN : TokenTaken(asked))
    \/ PollAnswered \/ PollRefused
    \/ \E took \in RequestTimes, wait \in RetryAfters \cup {PollInterval} :
         PollWaits(took, wait)
    \/ NoChannel \/ SaveDiscord \/ SaveBroker
    \/ Open \/ FinishEndsEarly \/ ClockIn
    \/ Connected \/ WatcherRaises \/ WatchEnds \/ Prompt \/ Told

Next ==
    \/ Begin \/ Interrupt \/ Prompts \/ PickChannel \/ Works
    \/ \E g \in Guilds : Invited(g) \/ Removed(g)
    \/ Spoiled

(* The wizard and the tasks of its loop are scheduled; nothing is assumed   *)
(* of the operator or of Discord.                                           *)
Spec == Init /\ [][Next]_vars /\ WF_vars(Works)

-----------------------------------------------------------------------------
(* A run that is answered by Enter with the saved answers on offer changes  *)
(* nothing of the token and the binding, provided that .env and the         *)
(* checkpoint agreed of the guild and the channel when it began.  They need *)
(* not: a run that is cut off after it wrote them to .env and before it     *)
(* saved leaves the checkpoint behind (init.py, "non-destructive").         *)
EnterKeepsBinding == w.base # None /\ w.agreed => Binding = w.base

(* Enter keeps the binding of .env wherever the runs before were cut off:   *)
(* "defaults a re-run to the saved (working) guild/channel binding rather   *)
(* than clobbering it" (init.py:48-50).  The code takes the default from    *)
(* the checkpoint, which may be behind .env.                                *)
EnterKeepsNewest == w.base # None => Binding = w.base

(* Once a channel is picked .env holds it together with its guild, whatever *)
(* an earlier run left there, and it was picked from the channels in which  *)
(* Discord's rule lets the bot post, all of them and no other (init.py,     *)
(* _run_discord; discord_discovery.py).                                     *)
BoundWhereItMayPost ==
    w.bound # None =>
      /\ env.channel = w.bound.channel /\ env.guild = GuildOf[env.channel]
      /\ w.bound.right

(* No wait of the wizard is for good, though the bot never joins, Discord   *)
(* does not answer or the watcher ends before it is ready (init.py,         *)
(* _finish_live; discord_discovery.py, poll_until_joined).                  *)
WaitsEnd == \A pc \in {"poll", "watch", "await"} : w.pc = pc ~> w.pc # pc

-----------------------------------------------------------------------------
(* What makes the two invariants inductive.                                 *)

(* While nothing but Enter was answered, .env and the checkpoint agree if   *)
(* they did.                                                                *)
SavedIsBound ==
    w.base # None /\ w.agreed =>
      env.guild = w.mem.guild /\ env.channel = w.mem.channel

(* A token that was pasted is no Enter.                                     *)
PastedIsNoEnter == w.pc = "verify" /\ w.pasted => w.base = None

(* The guild is in .env before the channel is asked for.                    *)
GuildIsWritten == w.pc = "channel" => env.guild = w.guild

(* Nothing of the binding is asked for after the channel.                   *)
BoundLast ==
    w.bound # None => w.pc \in Pcs \ {"off", "name", "model", "write",
      "save agent", "token", "verify", "poll", "guild", "channel"}

IInv == TypeOK /\ EnterKeepsBinding /\ SavedIsBound /\ PastedIsNoEnter
        /\ GuildIsWritten /\ BoundLast /\ BoundWhereItMayPost

=============================================================================
