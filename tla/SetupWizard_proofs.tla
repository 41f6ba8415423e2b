-------------------------- MODULE SetupWizard_proofs --------------------------
(***************************************************************************)
(* Proofs about SetupWizard, for any agents, models, tokens, guilds,       *)
(* channels, permissions and overwrites: it is typed, Enter keeps a        *)
(* binding that .env and the checkpoint agree on, and the channel that is  *)
(* bound is one the bot may post in.                                       *)
(***************************************************************************)
EXTENDS SetupWizard, TLAPS

(* The code's computation over the overwrites of a channel is Discord's     *)
(* rule, for every standing of the bot and every situation of a channel     *)
(* (discord_discovery.py, _effective_channel_permissions).                  *)
THEOREM CanPostIsDiscordsRule ==
  ASSUME NEW g \in Standings, NEW s \in Situations
  PROVE  CanPost(g, s) <=> \A p \in Perms : Grants(g, s, p)
<1> SUFFICES ASSUME NEW p \in Perms
             PROVE  p \in Effective(g, s) <=> Grants(g, s, p)
  BY DEF CanPost
<1>1. CASE g.owner \/ g.admin
  BY <1>1 DEF Effective, Grants
<1>2. CASE ~(g.owner \/ g.admin)
  <2> DEFINE open == (g.base \ s.everyone.deny) \cup s.everyone.allow
             roled == (open \ UNION {o.deny : o \in s.roles})
                        \cup UNION {o.allow : o \in s.roles}
  <2>1. Effective(g, s) = (roled \ s.member.deny) \cup s.member.allow
    BY <1>2 DEF Effective, OverRoles, Overlay
  <2>2. p \in UNION {o.deny : o \in s.roles} <=> \E o \in s.roles : p \in o.deny
    OBVIOUS
  <2>3. p \in UNION {o.allow : o \in s.roles} <=> \E o \in s.roles : p \in o.allow
    OBVIOUS
  <2>4. p \in open <=> \/ p \in s.everyone.allow
                       \/ p \in g.base /\ p \notin s.everyone.deny
    OBVIOUS
  <2>5. p \in roled <=> \/ \E o \in s.roles : p \in o.allow
                        \/ (\A o \in s.roles : p \notin o.deny) /\ p \in open
    BY <2>2, <2>3
  <2> HIDE DEF open, roled
  <2>6. p \in Effective(g, s) <=> \/ p \in s.member.allow
                                  \/ p \notin s.member.deny /\ p \in roled
    BY <2>1
  <2> QED BY <1>2, <2>4, <2>5, <2>6 DEF Grants
<1> QED BY <1>1, <1>2

(* Those on offer are the channels of the listing in which it may post.     *)
LEMMA OfferedIsRight ==
  ASSUME NEW g \in Standings, NEW home,
         NEW listing \in [ChannelsOf(home) -> Situations]
  PROVE  {d \in DOMAIN listing : CanPost(g, listing[d])} = MayPostIn(g, listing)
  BY CanPostIsDiscordsRule DEF MayPostIn

LEMMA ListingsTyped ==
  ASSUME NEW home, NEW listing \in Listings(home)
  PROVE  listing \in [ChannelsOf(home) -> Situations]
<1>1. PICK d \in ChannelsOf(home), s \in Situations : listing = Listing(home, d, s)
  BY DEF Listings
<1>2. Plain \in Situations
  BY DEF Plain, Situations, NoOverwrite
<1> QED BY <1>1, <1>2 DEF Listing

-----------------------------------------------------------------------------
LEMMA OrNoneHas == \A S : None \in OrNone(S) /\ \A x \in S : x \in OrNone(S)
  BY DEF OrNone

LEMMA OffTyped == /\ Off \in Wizards /\ Off.pc = "off"
                  /\ Off.base = None /\ Off.bound = None
  BY SetupAssumption DEF Off, Wizards, Pcs, Checkpoints, NoProgress, OrNone,
     WatcherPcs

LEMMA InitIInv == Init => IInv
<1> SUFFICES ASSUME Init PROVE IInv
  OBVIOUS
<1>1. TypeOK
  BY OffTyped, SetupAssumption DEF Init, TypeOK, Envs, OrNone
<1> QED BY <1>1, OffTyped DEF Init, IInv, EnterKeepsBinding, SavedIsBound,
           PastedIsNoEnter, GuildIsWritten, BoundLast, BoundWhereItMayPost

(* The wizard is over: there is nothing left to say of the binding.         *)
LEMMA OverKeeps ==
  ASSUME IInv, w' = Off, TypeOK'
  PROVE  IInv'
  BY OffTyped DEF IInv, EnterKeepsBinding, SavedIsBound, PastedIsNoEnter,
     GuildIsWritten, BoundLast, BoundWhereItMayPost

(* A step that changes neither the binding nor what is known of it.         *)
LEMMA QuietKeeps ==
  ASSUME IInv, TypeOK',
         env'.token = env.token, env'.guild = env.guild,
         env'.channel = env.channel,
         w'.base = w.base \/ w'.base = None,
         w'.agreed = w.agreed, w'.bound = w.bound,
         w'.mem.guild = w.mem.guild, w'.mem.channel = w.mem.channel,
         w'.pc # "channel", w'.pc = "verify" => ~w'.pasted,
         w.bound # None => BoundLast'
  PROVE  IInv'
  BY DEF IInv, EnterKeepsBinding, SavedIsBound, PastedIsNoEnter,
     GuildIsWritten, BoundLast, BoundWhereItMayPost, Binding

(* A step of the wizard itself; the checkpoint and the files are typed by   *)
(* what is said of them.                                                    *)
LEMMA TypedKeeps ==
  ASSUME IInv, w' \in Wizards, env' \in Envs, ckpt' \in OrNone(Checkpoints),
         md' \in [Names -> OrNone(Models)], joined' = joined, runs' = runs
  PROVE  TypeOK'
  BY DEF IInv, TypeOK

LEMMA Kept ==
  ASSUME IInv, UNCHANGED kept
  PROVE  /\ env' \in Envs /\ ckpt' \in OrNone(Checkpoints)
         /\ md' \in [Names -> OrNone(Models)]
         /\ env' = env
  BY DEF IInv, TypeOK, kept

LEMMA AnsweredTyped ==
  ASSUME w \in Wizards, NEW enter
  PROVE  /\ Answered(enter) \in OrNone(Bindings)
         /\ Answered(enter) \in {w.base, None}
  BY DEF Answered, Wizards, OrNone

(* To another prompt or call, or to the end of the run.                     *)
LEMMA ToTyped ==
  ASSUME w \in Wizards, NEW pc \in Pcs, To(pc)
  PROVE  /\ w' \in Wizards /\ w'.pc = pc
         /\ joined' = joined /\ runs' = runs
         /\ w' = Off \/ w' = [w EXCEPT !.pc = pc]
  BY OffTyped DEF To, Go, Wizards

LEMMA EndsQuietly ==
  ASSUME IInv, To("off"), UNCHANGED kept
  PROVE  IInv'
<1>1. w' = Off /\ joined' = joined /\ runs' = runs
  BY DEF To, Go
<1> QED BY <1>1, Kept, OffTyped, TypedKeeps, OverKeeps

LEMMA BeginKeeps ==
  ASSUME IInv, Begin
  PROVE  IInv'
<1> DEFINE mem == IF ckpt = None THEN NoProgress ELSE ckpt
           same == env.guild = mem.guild /\ env.channel = mem.channel
<1>1. mem \in Checkpoints /\ Binding \in Bindings /\ runs + 1 \in 0..MaxRuns
  BY SetupAssumption DEF IInv, TypeOK, OrNone, NoProgress, Checkpoints, Binding,
     Bindings, Envs, Begin
<1>2. w' = [Off EXCEPT !.pc = "name", !.mem = mem, !.base = Binding,
              !.agreed = same,
              !.resuming = mem.agent # None /\ Parses(mem.agent)]
  BY Zenon DEF Begin
<1> HIDE DEF mem
<1>3. /\ w' \in Wizards /\ w'.pc = "name" /\ w'.mem = mem
      /\ w'.base = Binding /\ w'.agreed = same /\ w'.bound = None
  BY <1>1, <1>2, OffTyped, OrNoneHas DEF Wizards, Pcs, Off
<1>4. TypeOK'
  BY <1>1, <1>3 DEF IInv, TypeOK, Begin, kept
<1> QED BY <1>3, <1>4 DEF IInv, EnterKeepsBinding, SavedIsBound,
           PastedIsNoEnter, GuildIsWritten, BoundLast, BoundWhereItMayPost,
           Begin, kept, Binding

-----------------------------------------------------------------------------
(* The agent: nothing of .env is written.                                   *)
LEMMA NameKeeps ==
  ASSUME IInv, NEW n \in Names, Name(n)
  PROVE  IInv'
<1>1. w \in Wizards /\ UNCHANGED kept
  BY DEF IInv, TypeOK, Name
<1>2. /\ joined' = joined /\ runs' = runs
      /\ w' = [w EXCEPT !.pc = "model", !.name = n, !.resuming = FALSE,
                 !.base = Answered(n = DefaultName)]
  BY DEF Name, Go
<1>3. /\ w' \in Wizards /\ w'.pc = "model" /\ w'.base \in {w.base, None}
      /\ w'.agreed = w.agreed /\ w'.bound = w.bound /\ w'.mem = w.mem
  BY <1>1, <1>2, AnsweredTyped, OrNoneHas DEF Wizards, Pcs
<1>4. TypeOK' /\ w.bound = None
  BY <1>1, <1>2, <1>3, Kept, TypedKeeps DEF IInv, BoundLast, Name
<1> QED BY <1>1, <1>3, <1>4, Kept, QuietKeeps

LEMMA ModelKeeps ==
  ASSUME IInv, NEW offered \in Offers, NEW m \in Models, Model(m, offered)
  PROVE  IInv'
<1>1. w \in Wizards /\ UNCHANGED kept
  BY DEF IInv, TypeOK, Model
<1>2. /\ joined' = joined /\ runs' = runs
      /\ w' = [w EXCEPT !.pc = "write", !.model = m,
                 !.base = Answered(m = DefaultModel(offered))]
  BY DEF Model, Go
<1>3. /\ w' \in Wizards /\ w'.pc = "write" /\ w'.base \in {w.base, None}
      /\ w'.agreed = w.agreed /\ w'.bound = w.bound /\ w'.mem = w.mem
  BY <1>1, <1>2, AnsweredTyped, OrNoneHas DEF Wizards, Pcs
<1>4. TypeOK' /\ w.bound = None
  BY <1>1, <1>2, <1>3, Kept, TypedKeeps DEF IInv, BoundLast, Model
<1> QED BY <1>1, <1>3, <1>4, Kept, QuietKeeps

LEMMA WriteKeeps ==
  ASSUME IInv, Write
  PROVE  IInv'
<1>1. /\ w \in Wizards /\ env' = env /\ ckpt' = ckpt
      /\ md' \in [Names -> OrNone(Models)]
  BY DEF IInv, TypeOK, Write, Wizards
<1>2. /\ joined' = joined /\ runs' = runs
      /\ w' = [w EXCEPT !.pc = "save agent", !.model = None]
  BY DEF Write, Go
<1>3. /\ w' \in Wizards /\ w'.pc = "save agent" /\ w'.base = w.base
      /\ w'.agreed = w.agreed /\ w'.bound = w.bound /\ w'.mem = w.mem
  BY <1>1, <1>2, OrNoneHas DEF Wizards, Pcs
<1>4. TypeOK' /\ w.bound = None
  BY <1>1, <1>2, <1>3 DEF IInv, BoundLast, Write, TypeOK
<1> QED BY <1>1, <1>3, <1>4, QuietKeeps

(* A checkpoint that says of the binding what the one in memory says.       *)
LEMMA SaveKeeps ==
  ASSUME IInv, NEW mem \in Checkpoints,
         NEW pc \in {"token", "broker", "open"}, Save(pc, mem),
         mem.guild = w.mem.guild, mem.channel = w.mem.channel,
         w.bound # None => pc # "token"
  PROVE  IInv'
<1>1. /\ w \in Wizards /\ env' = env /\ md' = md /\ env \in Envs
      /\ ckpt' \in OrNone(Checkpoints)
  BY OrNoneHas DEF IInv, TypeOK, Save
<1>2. /\ joined' = joined /\ runs' = runs
      /\ w' = [w EXCEPT !.pc = pc, !.mem = mem, !.name = None,
                 !.existing = IF pc = "token" THEN env.token ELSE None,
                 !.token = None, !.pasted = FALSE, !.guild = None]
  BY DEF Save, Go
<1>3. /\ w' \in Wizards /\ w'.pc = pc /\ w'.base = w.base
      /\ w'.agreed = w.agreed /\ w'.bound = w.bound /\ w'.mem = mem
  BY <1>1, <1>2, OrNoneHas DEF Wizards, Pcs, Envs
<1>4. TypeOK'
  BY <1>1, <1>2, <1>3 DEF IInv, TypeOK
<1>5. w.bound # None => BoundLast'
  BY <1>3 DEF BoundLast, Pcs
<1> QED BY <1>1, <1>3, <1>4, <1>5, QuietKeeps

-----------------------------------------------------------------------------
(* Discord.                                                                 *)
LEMMA PasteTokenKeeps ==
  ASSUME IInv, NEW t \in Tokens, PasteToken(t)
  PROVE  IInv'
<1>1. w \in Wizards /\ UNCHANGED kept
  BY DEF IInv, TypeOK, PasteToken
<1>2. /\ joined' = joined /\ runs' = runs
      /\ w' = [w EXCEPT !.pc = "verify", !.token = t, !.pasted = TRUE,
                 !.base = None]
  BY DEF PasteToken, Go
<1>3. /\ w' \in Wizards /\ w'.pc = "verify" /\ w'.base = None
      /\ w'.agreed = w.agreed /\ w'.bound = w.bound /\ w'.mem = w.mem
  BY <1>1, <1>2, OrNoneHas DEF Wizards, Pcs
<1>4. TypeOK' /\ w.bound = None
  BY <1>1, <1>2, <1>3, Kept, TypedKeeps DEF IInv, BoundLast, PasteToken
<1> QED BY <1>1, <1>3, <1>4, Kept DEF IInv, EnterKeepsBinding, SavedIsBound,
       PastedIsNoEnter, GuildIsWritten, BoundLast, BoundWhereItMayPost

LEMMA KeepTokenKeeps ==
  ASSUME IInv, KeepToken
  PROVE  IInv'
<1> DEFINE pc == IF w.existing = None THEN "save discord" ELSE "verify"
<1>1. w \in Wizards /\ UNCHANGED kept
  BY DEF IInv, TypeOK, KeepToken
<1>2. /\ joined' = joined /\ runs' = runs
      /\ w' = [w EXCEPT !.pc = pc, !.token = w.existing, !.pasted = FALSE]
  BY DEF KeepToken, Go
<1>3. /\ w' \in Wizards /\ w'.pc = pc /\ w'.base = w.base
      /\ w'.agreed = w.agreed
      /\ w'.bound = w.bound /\ w'.mem = w.mem /\ ~w'.pasted
  BY <1>1, <1>2 DEF Wizards, Pcs
<1>4. TypeOK' /\ w.bound = None
  BY <1>1, <1>2, <1>3, Kept, TypedKeeps DEF IInv, BoundLast, KeepToken
<1> QED BY <1>1, <1>3, <1>4, Kept, QuietKeeps

LEMMA TokenRefusedKeeps ==
  ASSUME IInv, TokenRefused
  PROVE  IInv'
<1>1. w \in Wizards /\ UNCHANGED kept
  BY DEF IInv, TypeOK, TokenRefused
<1>2. /\ joined' = joined /\ runs' = runs
      /\ w' = [w EXCEPT !.pc = "token", !.existing = None, !.token = None]
  BY DEF TokenRefused, Go
<1>3. /\ w' \in Wizards /\ w'.pc = "token" /\ w'.base = w.base
      /\ w'.agreed = w.agreed /\ w'.bound = w.bound /\ w'.mem = w.mem
  BY <1>1, <1>2, OrNoneHas DEF Wizards, Pcs
<1>4. TypeOK' /\ w.bound = None
  BY <1>1, <1>2, <1>3, Kept, TypedKeeps DEF IInv, BoundLast, TokenRefused
<1> QED BY <1>1, <1>3, <1>4, Kept, QuietKeeps

(* A token goes into .env only if it was pasted, and then base is None.     *)
LEMMA TokenTakenKeeps ==
  ASSUME IInv, NEW asked \in BOOLEAN, TokenTaken(asked)
  PROVE  IInv'
<1>1. w \in Wizards /\ env \in Envs
  BY DEF IInv, TypeOK
<1>2. /\ w' \in Wizards /\ w'.pc = "poll" /\ joined' = joined /\ runs' = runs
      /\ w'.base = w.base /\ w'.agreed = w.agreed
      /\ w'.bound = w.bound /\ w'.mem = w.mem
  BY <1>1, ToTyped DEF TokenTaken, To, Go, Pcs, Wizards
<1>3. /\ env' \in Envs /\ env'.guild = env.guild /\ env'.channel = env.channel
      /\ w.base # None => env' = env
  BY <1>1 DEF TokenTaken, Upsert, Envs, Wizards, IInv, PastedIsNoEnter
<1>4. TypeOK' /\ w.bound = None
  BY <1>2, <1>3 DEF IInv, TypeOK, BoundLast, TokenTaken
<1> QED BY <1>2, <1>3, <1>4 DEF IInv, EnterKeepsBinding, SavedIsBound,
       PastedIsNoEnter, GuildIsWritten, BoundLast, BoundWhereItMayPost, Binding

LEMMA PollKeeps ==
  ASSUME IInv,
         \/ PollAnswered \/ PollRefused
         \/ \E took \in RequestTimes, wait \in RetryAfters \cup {PollInterval} :
              PollWaits(took, wait)
  PROVE  IInv'
<1>1. /\ w \in Wizards /\ UNCHANGED kept /\ joined \subseteq Guilds
      /\ joined' = joined /\ runs' = runs /\ w.pc = "poll"
  BY DEF IInv, TypeOK, PollAnswered, PollRefused, PollWaits, Go
<1>2. 0 \in 0..PollTimeout
  BY SetupAssumption
<1>3. /\ w' \in Wizards /\ w'.pc \in {"guild", "poll", "save discord"}
      /\ w'.base = w.base /\ w'.agreed = w.agreed
      /\ w'.bound = w.bound /\ w'.mem = w.mem
  <2>1. CASE PollAnswered
    BY <1>1, <1>2, <2>1 DEF PollAnswered, Go, Wizards, Pcs
  <2>2. CASE PollRefused
    BY <1>1, <1>2, <2>2 DEF PollRefused, Go, Wizards, Pcs
  <2>3. ASSUME NEW took \in RequestTimes,
               NEW wait \in RetryAfters \cup {PollInterval},
               PollWaits(took, wait)
        PROVE  /\ w' \in Wizards /\ w'.pc \in {"guild", "poll", "save discord"}
               /\ w'.base = w.base /\ w'.agreed = w.agreed
               /\ w'.bound = w.bound /\ w'.mem = w.mem
    <3> DEFINE now == w.clock + took
    <3>1. now \in Nat /\ wait \in Nat /\ w.clock \in 0..PollTimeout
      BY <1>1, SetupAssumption DEF Wizards
    <3>2. CASE GivesUp(now, wait)
      <4>1. w' = [w EXCEPT !.pc = "save discord", !.clock = 0]
        BY <2>3, <3>2 DEF PollWaits, Go
      <4> QED BY <1>1, <1>2, <4>1 DEF Wizards, Pcs
    <3>3. CASE ~GivesUp(now, wait)
      <4>1. w' = [w EXCEPT !.clock = now + wait]
        BY <2>3, <3>3 DEF PollWaits, Go
      <4>2. now + wait \in 0..PollTimeout
        BY <3>1, <3>3, SetupAssumption DEF GivesUp
      <4> QED BY <1>1, <4>1, <4>2 DEF Wizards, Pcs
    <3> QED BY <3>2, <3>3
  <2> QED BY <2>1, <2>2, <2>3
<1>4. TypeOK' /\ w.bound = None
  BY <1>1, <1>3, Kept, TypedKeeps DEF IInv, BoundLast
<1> QED BY <1>1, <1>3, <1>4, Kept, QuietKeeps

(* While base is there, the guild that is picked is the checkpoint's, and   *)
(* so the one in .env if the two agreed.                                    *)
LEMMA GuildKeeps ==
  ASSUME IInv, NEW g \in Guilds, Guild(g)
  PROVE  IInv'
<1> DEFINE enter == g = DefaultGuild(w.list) /\ w.mem.guild \in w.list
<1>1. w \in Wizards /\ env \in Envs /\ ckpt' = ckpt /\ md' = md
  BY DEF IInv, TypeOK, Guild
<1>2. /\ joined' = joined /\ runs' = runs
      /\ w' = [w EXCEPT !.pc = "channel", !.guild = g, !.list = {},
                 !.base = Answered(enter)]
  BY DEF Guild, Go
<1>3. /\ w' \in Wizards /\ w'.pc = "channel" /\ w'.guild = g
      /\ w'.base = Answered(enter) /\ w'.agreed = w.agreed
      /\ w'.bound = w.bound /\ w'.mem = w.mem
  BY <1>1, <1>2, AnsweredTyped, OrNoneHas DEF Wizards, Pcs
<1>4. /\ env' \in Envs /\ env'.guild = g
      /\ env'.token = env.token /\ env'.channel = env.channel
  BY <1>1, OrNoneHas DEF Guild, Upsert, Envs
<1>5. TypeOK' /\ w.bound = None
  BY <1>1, <1>2, <1>3, <1>4 DEF IInv, TypeOK, BoundLast, Guild
<1>6. /\ w'.base # None => w'.base = w.base
      /\ w'.base # None /\ w.agreed => g = env.guild
  BY <1>3 DEF Answered, DefaultGuild, IInv, SavedIsBound
<1> QED BY <1>3, <1>4, <1>5, <1>6 DEF IInv, EnterKeepsBinding, SavedIsBound,
       PastedIsNoEnter, GuildIsWritten, BoundLast, BoundWhereItMayPost, Binding

LEMMA NoChannelKeeps ==
  ASSUME IInv, NoChannel
  PROVE  IInv'
<1>1. w \in Wizards /\ UNCHANGED kept
  BY DEF IInv, TypeOK, NoChannel
<1>2. /\ joined' = joined /\ runs' = runs
      /\ w' = [w EXCEPT !.pc = "save discord", !.mem.guild = w.guild]
  BY DEF NoChannel, Go
<1>3. /\ w' \in Wizards /\ w'.pc = "save discord" /\ w'.base = w.base
      /\ w'.agreed = w.agreed
      /\ w'.bound = w.bound /\ w'.mem = [w.mem EXCEPT !.guild = w.guild]
  BY <1>1, <1>2 DEF Wizards, Pcs, Checkpoints
<1>4. w'.mem.guild = w.guild /\ w'.mem.channel = w.mem.channel
  BY <1>1, <1>3 DEF Wizards, Checkpoints
<1>5. TypeOK' /\ w.bound = None
  BY <1>1, <1>2, <1>3, Kept, TypedKeeps DEF IInv, BoundLast, NoChannel
<1> QED BY <1>1, <1>3, <1>4, <1>5, Kept DEF IInv, EnterKeepsBinding,
       SavedIsBound, PastedIsNoEnter, GuildIsWritten, BoundLast,
       BoundWhereItMayPost, Binding, NoChannel

(* The channel that is picked is on offer, and so in the guild in .env.     *)
LEMMA ChannelKeeps ==
  ASSUME IInv, NEW g \in Standings, NEW listing \in Listings(w.guild),
         NEW c \in Channels, Channel(g, listing, c)
  PROVE  IInv'
<1> DEFINE offered == {d \in DOMAIN listing : CanPost(g, listing[d])}
           right == offered = MayPostIn(g, listing)
           enter == c = DefaultChannel(offered) /\ w.mem.channel \in offered
           pick == [channel |-> c, right |-> right]
<1>1. /\ w \in Wizards /\ env \in Envs /\ ckpt' = ckpt /\ md' = md
      /\ w.pc = "channel" /\ env.guild = w.guild
  BY DEF IInv, TypeOK, Channel, GuildIsWritten
<1>2. /\ c \in offered /\ joined' = joined /\ runs' = runs
      /\ w' = [w EXCEPT !.pc = "save discord", !.mem.guild = w.guild,
                 !.mem.channel = c, !.mem.discord = TRUE, !.bound = pick,
                 !.base = Answered(enter)]
  BY DEF Channel, Go
<1>3. right /\ GuildOf[c] = w.guild
  <2>1. listing \in [ChannelsOf(w.guild) -> Situations]
    BY ListingsTyped
  <2>2. right
    BY <2>1, OfferedIsRight
  <2>3. c \in DOMAIN listing
    BY <1>2
  <2> QED BY <2>1, <2>2, <2>3 DEF ChannelsOf
<1>4. pick \in Picks /\ pick.channel = c /\ pick.right
  BY <1>3 DEF Picks
<1> HIDE DEF pick, enter, right, offered
<1> DEFINE mem == [w.mem EXCEPT !.guild = w.guild, !.channel = c, !.discord = TRUE]
<1>5. mem \in Checkpoints /\ mem.guild = w.guild /\ mem.channel = c
  BY <1>1, OrNoneHas DEF Wizards, Checkpoints
<1>6. w' = [w EXCEPT !.pc = "save discord", !.mem = mem, !.bound = pick,
              !.base = Answered(enter)]
  BY <1>1, <1>2 DEF Wizards, Checkpoints
<1>7. pick \in OrNone(Picks) /\ Answered(enter) \in OrNone(Bindings)
  BY <1>1, <1>4, AnsweredTyped, OrNoneHas
<1> HIDE DEF mem
<1>8. /\ w' \in Wizards /\ w'.pc = "save discord"
      /\ w'.base = Answered(enter) /\ w'.agreed = w.agreed /\ w'.bound = pick
      /\ w'.mem.guild = w.guild /\ w'.mem.channel = c
  BY <1>1, <1>5, <1>6, <1>7 DEF Wizards, Pcs
<1>9. /\ env' \in Envs /\ env'.channel = c
      /\ env'.token = env.token /\ env'.guild = env.guild
  BY <1>1, OrNoneHas DEF Channel, Upsert, Envs
<1>10. TypeOK'
  BY <1>1, <1>2, <1>8, <1>9 DEF IInv, TypeOK
<1>11. /\ w'.base # None => w'.base = w.base
       /\ w'.base # None /\ w.agreed => c = env.channel
  BY <1>8 DEF Answered, DefaultChannel, IInv, SavedIsBound, enter
<1> QED BY <1>1, <1>3, <1>4, <1>8, <1>9, <1>10, <1>11 DEF IInv,
       EnterKeepsBinding, SavedIsBound, PastedIsNoEnter, GuildIsWritten,
       BoundLast, BoundWhereItMayPost, Binding, Pcs

-----------------------------------------------------------------------------
(* The broker and the live finish: nothing of the binding is written.       *)
LEMMA BrokerKeeps ==
  ASSUME IInv, NEW b \in Urls \cup {Local, env.broker}, Broker(b)
  PROVE  IInv'
<1>1. /\ w \in Wizards /\ env \in Envs /\ ckpt' = ckpt /\ md' = md
      /\ b \in OrNone(Urls \cup {Local})
  BY DEF IInv, TypeOK, Broker, Envs, OrNone
<1>2. /\ joined' = joined /\ runs' = runs
      /\ w' = [w EXCEPT !.pc = "save broker", !.base = Answered(b = Local)]
  BY DEF Broker, Go
<1>3. /\ w' \in Wizards /\ w'.pc = "save broker" /\ w'.base \in {w.base, None}
      /\ w'.agreed = w.agreed /\ w'.bound = w.bound /\ w'.mem = w.mem
  BY <1>1, <1>2, AnsweredTyped, OrNoneHas DEF Wizards, Pcs
<1>4. /\ env' \in Envs /\ env'.guild = env.guild
      /\ env'.token = env.token /\ env'.channel = env.channel
  BY <1>1 DEF Broker, Upsert, Envs
<1>5. TypeOK' /\ BoundLast'
  BY <1>1, <1>2, <1>3, <1>4 DEF IInv, TypeOK, BoundLast, Pcs
<1> QED BY <1>1, <1>3, <1>4, <1>5, QuietKeeps

LEMMA FinishKeeps ==
  ASSUME IInv, Open \/ ClockIn \/ Prompt \/ Confirm
  PROVE  IInv'
<1>1. w \in Wizards /\ UNCHANGED kept
  BY DEF IInv, TypeOK, Open, ClockIn, Prompt, Confirm
<1>2. joined' = joined /\ runs' = runs
  BY DEF Open, ClockIn, Prompt, Confirm, To, Go
<1>3. /\ w' \in Wizards /\ w'.pc \in {"clock in", "watch", "confirm", "await"}
      /\ w'.base = w.base /\ w'.agreed = w.agreed
      /\ w'.bound = w.bound /\ w'.mem = w.mem
  <2>1. ASSUME NEW pc \in {"clock in", "confirm", "await"}, To(pc)  PROVE <1>3
    BY <1>1, <2>1 DEF To, Go, Wizards, Pcs
  <2>2. CASE ClockIn
    BY <1>1, <2>2 DEF ClockIn, Go, Wizards, Pcs, WatcherPcs
  <2> QED BY <2>1, <2>2 DEF Open, Prompt, Confirm
<1>4. TypeOK' /\ BoundLast'
  BY <1>1, <1>2, <1>3, Kept, TypedKeeps DEF BoundLast, Pcs
<1> QED BY <1>1, <1>3, <1>4, Kept, QuietKeeps

LEMMA WatcherKeeps ==
  ASSUME IInv, Connected \/ WatcherRaises \/ WatchEnds
  PROVE  IInv'
<1>1. PICK to \in WatcherPcs :
        /\ w.pc \in {"watch", "await"} /\ UNCHANGED kept
        /\ w' = [w EXCEPT !.watcher = to] /\ joined' = joined /\ runs' = runs
  BY DEF Connected, WatcherRaises, WatchEnds, Watcher, Go, WatcherPcs
<1>2. w \in Wizards
  BY DEF IInv, TypeOK
<1>3. /\ w' \in Wizards /\ w'.pc = w.pc /\ w'.base = w.base
      /\ w'.agreed = w.agreed /\ w'.bound = w.bound /\ w'.mem = w.mem
  BY <1>1, <1>2 DEF Wizards
<1>4. TypeOK' /\ BoundLast'
  BY <1>1, <1>3, Kept, TypedKeeps DEF BoundLast, Pcs
<1> QED BY <1>1, <1>3, <1>4, Kept, QuietKeeps

(* What happens beside the wizard.                                          *)
LEMMA BesideKeeps ==
  ASSUME IInv, (\E g \in Guilds : Invited(g) \/ Removed(g)) \/ Spoiled
  PROVE  IInv'
<1>1. w' = w /\ env' = env /\ TypeOK'
  BY OrNoneHas DEF IInv, TypeOK, Invited, Removed, Spoiled, kept
<1> QED BY <1>1 DEF IInv, EnterKeepsBinding, SavedIsBound, PastedIsNoEnter,
       GuildIsWritten, BoundLast, BoundWhereItMayPost, Binding

-----------------------------------------------------------------------------
LEMMA SavesKeep ==
  ASSUME IInv, SaveAgent \/ SaveDiscord \/ SaveBroker
  PROVE  IInv'
<1>1. w \in Wizards
  BY DEF IInv, TypeOK
<1>2. w.mem \in Checkpoints /\ w.name \in OrNone(Names)
  BY <1>1 DEF Wizards
<1>3. CASE SaveAgent
  <2>1. /\ [w.mem EXCEPT !.agent = w.name] \in Checkpoints
        /\ [w.mem EXCEPT !.agent = w.name].guild = w.mem.guild
        /\ [w.mem EXCEPT !.agent = w.name].channel = w.mem.channel
    BY <1>2 DEF Checkpoints
  <2>2. w.bound = None
    BY <1>3 DEF IInv, BoundLast, SaveAgent
  <2> QED BY <1>3, <2>1, <2>2, SaveKeeps DEF SaveAgent
<1>4. CASE SaveDiscord
  BY <1>2, <1>4, SaveKeeps DEF SaveDiscord
<1>5. CASE SaveBroker
  <2>1. /\ [w.mem EXCEPT !.broker = TRUE] \in Checkpoints
        /\ [w.mem EXCEPT !.broker = TRUE].guild = w.mem.guild
        /\ [w.mem EXCEPT !.broker = TRUE].channel = w.mem.channel
    BY <1>2 DEF Checkpoints
  <2> QED BY <1>5, <2>1, SaveKeeps DEF SaveBroker
<1> QED BY <1>3, <1>4, <1>5

LEMMA WorksKeeps ==
  ASSUME IInv, Works
  PROVE  IInv'
<1>1. CASE WriteFails \/ FinishEndsEarly \/ Told
  BY <1>1, EndsQuietly DEF WriteFails, FinishEndsEarly, Told
<1> QED BY <1>1, WriteKeeps, SavesKeep, TokenRefusedKeeps, TokenTakenKeeps,
       PollKeeps, NoChannelKeeps, FinishKeeps, WatcherKeeps DEF Works

LEMMA PromptsKeep ==
  ASSUME IInv, Prompts \/ PickChannel
  PROVE  IInv'
<1>1. CASE PickChannel
  BY <1>1, ChannelKeeps DEF PickChannel
<1>2. CASE Prompts
  BY <1>2, NameKeeps, ModelKeeps, PasteTokenKeeps, KeepTokenKeeps, GuildKeeps,
     BrokerKeeps, FinishKeeps DEF Prompts
<1> QED BY <1>1, <1>2

LEMMA NextIInv == IInv /\ [Next]_vars => IInv'
<1> SUFFICES ASSUME IInv, [Next]_vars PROVE IInv'
  OBVIOUS
<1>1. CASE UNCHANGED vars
  BY <1>1 DEF vars, kept, IInv, TypeOK, EnterKeepsBinding, SavedIsBound,
     PastedIsNoEnter, GuildIsWritten, BoundLast, BoundWhereItMayPost, Binding
<1>2. CASE Interrupt
  BY <1>2, EndsQuietly DEF Interrupt
<1>3. CASE Next /\ ~Interrupt
  BY <1>3, BeginKeeps, PromptsKeep, WorksKeeps, BesideKeeps DEF Next
<1> QED BY <1>1, <1>2, <1>3

(* The inductive invariant of the wizard.                                   *)
THEOREM Invariance == Spec => []IInv
  BY InitIInv, NextIInv, PTL DEF Spec

(* The wizard's state is typed, for any agents, models, tokens, guilds,     *)
(* channels and permissions, and its poll never waits beyond its time.      *)
THEOREM TypeCorrect == Spec => []TypeOK
<1>1. IInv => TypeOK
  BY DEF IInv
<1> QED BY <1>1, Invariance, PTL

(* Of a run that began with .env and the checkpoint agreed of the guild and *)
(* the channel, Enter with the saved answers on offer changes nothing of    *)
(* the token and the binding (init.py).  Without the agreement it is false: *)
(* see EnterKeepsNewest.                                                    *)
THEOREM EnterKeeps == Spec => []EnterKeepsBinding
<1>1. IInv => EnterKeepsBinding
  BY DEF IInv
<1> QED BY <1>1, Invariance, PTL

(* The channel that is bound is in the guild in .env, and was picked from   *)
(* exactly those in which Discord lets the bot post (discord_discovery.py). *)
THEOREM BoundIsRight == Spec => []BoundWhereItMayPost
<1>1. IInv => BoundWhereItMayPost
  BY DEF IInv
<1> QED BY <1>1, Invariance, PTL

=============================================================================
