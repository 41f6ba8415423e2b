---------------------------- MODULE BridgeHealth ----------------------------
(***************************************************************************)
(* The bridge's readiness signal.  The bridge process writes a heartbeat   *)
(* file when Discord is ready and then every Interval seconds, as long as  *)
(* the gateway is connected; the supervisor's probe calls the bridge       *)
(* healthy while the last beat is at most TTL seconds old.  The process    *)
(* may die and is started again; the file outlives it.                     *)
(*                                                                         *)
(* Time passes in whole seconds and is kept as ages, which stop counting   *)
(* where nothing depends on them any more.                                 *)
(*                                                                         *)
(* Names that every module has bear the component's, so that one module of *)
(* proofs can extend this one and others.                                  *)
(***************************************************************************)
EXTENDS Naturals

CONSTANTS
    TTL,        \* _DEFAULT_TTL_SECONDS
    Interval,   \* _DEFAULT_INTERVAL_SECONDS
    MaxLate,    \* bound: how late the event loop wakes the refresher
    MaxMissed   \* consecutive beats that may be missed

ASSUME HealthAssumption ==
    /\ TTL \in Nat /\ Interval \in Nat \ {0}
    /\ MaxLate \in Nat /\ MaxMissed \in Nat
    /\ (MaxMissed + 1) * (Interval + MaxLate) <= TTL

VARIABLES
    alive,      \* the bridge process runs
    connected,  \* its _connected
    everReady,  \* this process has been ready
    refreshing, \* its refresher task runs
    slept,      \* seconds since the refresher's last tick
    missed,     \* beats missed since the process last wrote one
    beatAge,    \* age of the beat in the file; Old also if there is none
    gatewayAge  \* seconds since a bridge process was last connected

healthVars == <<alive, connected, everReady, refreshing, slept, missed, beatAge,
          gatewayAge>>

Old == TTL + 1
Unknown == MaxMissed + 1
Period == Interval + MaxLate

HealthTypeOK ==
    /\ alive \in BOOLEAN /\ connected \in BOOLEAN /\ everReady \in BOOLEAN
    /\ refreshing \in BOOLEAN
    /\ slept \in 0..Period
    /\ missed \in 0..Unknown
    /\ beatAge \in 0..Old /\ gatewayAge \in 0..Old
    /\ connected => alive /\ everReady

HealthInit ==
    /\ alive = FALSE /\ connected = FALSE /\ everReady = FALSE
    /\ refreshing = FALSE /\ slept = 0
    /\ missed = Unknown
    /\ beatAge = Old /\ gatewayAge = Old

UpTo(bound, n) == IF n > bound THEN bound ELSE n

-----------------------------------------------------------------------------
(* Mutated form: the gateway takes itself for connected from the start.     *)
ConnectedAtStartTrue == TRUE

ConnectedAtStart == FALSE

(* The supervisor starts the process; its refresher ticks at once and finds *)
(* nothing to beat for.                                                     *)
Start ==
    /\ ~alive
    /\ alive' = TRUE /\ connected' = ConnectedAtStart /\ everReady' = FALSE
    /\ refreshing' = TRUE /\ slept' = 0
    /\ missed' = Unknown
    /\ UNCHANGED <<beatAge, gatewayAge>>

Die ==
    /\ alive
    /\ alive' = FALSE /\ connected' = FALSE /\ everReady' = FALSE
    /\ refreshing' = FALSE /\ slept' = 0
    /\ missed' = Unknown
    /\ UNCHANGED <<beatAge, gatewayAge>>

WriteBeat == beatAge' = 0 /\ missed' = 0

WriteFails == missed' = UpTo(Unknown, missed + 1) /\ UNCHANGED beatAge

(* _on_ready: the first beat is written before anything slow.               *)
OnReadyBeats ==
    /\ alive
    /\ connected' = TRUE /\ everReady' = TRUE /\ gatewayAge' = 0
    /\ WriteBeat \/ WriteFails
    /\ UNCHANGED <<alive, refreshing, slept>>

(* _on_disconnect and _on_resumed write nothing.                            *)
OnDisconnect ==
    /\ connected
    /\ connected' = FALSE
    /\ UNCHANGED <<alive, everReady, refreshing, slept, missed, beatAge,
                   gatewayAge>>

OnResumed ==
    /\ alive /\ everReady /\ ~connected
    /\ connected' = TRUE /\ gatewayAge' = 0
    /\ UNCHANGED <<alive, everReady, refreshing, slept, missed, beatAge>>

(* Mutated form: a failed write ends the refresher task.                    *)
SurvivesFailureNot == FALSE

SurvivesFailure == TRUE

(* Mutated form: the beat is not gated on the connection.                   *)
IsHealthyAlways == alive

IsHealthy == connected

TickDue == refreshing /\ slept >= Interval

(* One iteration of run_refresher: refresh_once, whatever becomes of it.    *)
RefreshWrites ==
    /\ TickDue /\ IsHealthy
    /\ WriteBeat
    /\ slept' = 0
    /\ UNCHANGED <<alive, connected, everReady, refreshing, gatewayAge>>

RefreshFails ==
    /\ TickDue /\ IsHealthy
    /\ WriteFails
    /\ slept' = 0 /\ refreshing' = SurvivesFailure
    /\ UNCHANGED <<alive, connected, everReady, gatewayAge>>

RefreshSkips ==
    /\ TickDue /\ ~IsHealthy
    /\ missed' = Unknown
    /\ slept' = 0
    /\ UNCHANGED <<alive, connected, everReady, refreshing, beatAge,
                   gatewayAge>>

(* A second passes; the event loop may let the refresher sleep MaxLate      *)
(* seconds longer than it asked for.                                        *)
Second ==
    /\ refreshing => slept < Period
    /\ slept' = IF refreshing THEN slept + 1 ELSE slept
    /\ beatAge' = UpTo(Old, beatAge + 1)
    /\ gatewayAge' = IF connected THEN 0 ELSE UpTo(Old, gatewayAge + 1)
    /\ UNCHANGED <<alive, connected, everReady, refreshing, missed>>

-----------------------------------------------------------------------------
Refresh == RefreshWrites \/ RefreshFails \/ RefreshSkips

HealthNext == Start \/ Die \/ OnReadyBeats \/ OnDisconnect \/ OnResumed \/ Refresh
        \/ Second

(* Time passes, the loop runs the refresher, and a fault of the disk does   *)
(* not last: of infinitely many writes infinitely many succeed.             *)
HealthSpec ==
    /\ HealthInit /\ [][HealthNext]_healthVars
    /\ WF_healthVars(Second) /\ WF_healthVars(Refresh) /\ SF_healthVars(RefreshWrites)

-----------------------------------------------------------------------------
(* Mutated form: the boundary of the time to live is exclusive.             *)
FreshExclusive == beatAge < TTL

(* healthcheck's verdict on the bridge.                                     *)
Fresh == beatAge <= TTL

(* The probe is right both ways.  While it says healthy, some bridge        *)
(* process was connected to Discord at most TTL seconds ago, so a dropped   *)
(* gateway or a dead process shows (refresher.py, refresh_once); and a      *)
(* bridge that stays connected does not flap though it wakes up late and    *)
(* misses MaxMissed beats in a row (heartbeat.py, the TTL pinned to the     *)
(* refresh interval).                                                       *)
VerdictIsRight ==
    /\ Fresh => gatewayAge <= TTL
    /\ connected /\ missed <= MaxMissed => Fresh

(* A bridge that stays connected is found healthy again and again, however  *)
(* often its writes failed before (refresher.py, run_refresher).            *)
ConnectedGetsHealthy == <>[]connected => []<>Fresh

-----------------------------------------------------------------------------
(* The refresher lives as long as its process, and a process that has not   *)
(* written a beat counts as one that has missed them all.                   *)
RefresherLives == refreshing = alive /\ (~alive => missed = Unknown)

(* No beat is younger than the connection, and none is older than the       *)
(* missed ticks and the sleep since the last of them account for.           *)
BeatsTellTheTime ==
    /\ connected => gatewayAge = 0
    /\ gatewayAge <= beatAge
    /\ missed <= MaxMissed => beatAge <= missed * Period + slept

(* The inductive invariant.                                                 *)
HealthIInv == HealthTypeOK /\ RefresherLives /\ BeatsTellTheTime

=============================================================================
