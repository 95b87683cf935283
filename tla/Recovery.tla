------------------------------- MODULE Recovery -------------------------------
(***************************************************************************)
(* The guided repair of recovery/recovery.cpp.  `repairnode` arms a repair *)
(* by leaving a marker in the data directory; the wipe it asks for runs    *)
(* when the process stops, or at its next start.  A ledger and a           *)
(* quarantine sentinel, which no wipe touches, carry the state of a repair *)
(* from one process to the next.                                           *)
(*                                                                         *)
(* RPC handlers, the scheduler's tick and block validation run side by     *)
(* side; the ledger is read and written without a lock; the process may    *)
(* die between any two steps, and a target of the wipe may refuse to go.   *)
(***************************************************************************)
EXTENDS Integers, FiniteSets

CONSTANTS
    Targets,        \* the directories and files a full wipe removes
    AttemptsMax,    \* REPAIR_ATTEMPTS_MAX
    WipesMax,       \* REPAIR_WIPES_MAX
    MaxArms,        \* bound on the calls of `repairnode` that arm
    MaxDisarms,     \* bound on the calls that disarm
    MaxMishaps,     \* bound on the crashes, failed removals and days together
    HaveWallet,     \* a wallet is loaded
    NoMarker

VARIABLES
    proc,       \* what the process is doing
    park,       \* ParkOnFault: the process parks on a fault instead of exiting
    present,    \* the targets at their live paths
    tombs,      \* some target lies in a tombstone
    marker,     \* the repair marker
    ledger,     \* the ledger: attempts and wipes in their windows, the state
    sentinel,   \* the quarantine sentinel exists
    abortFile,  \* the note AbortNode leaves for the next start
    mem,        \* the fields of RecoveryManager that the repair reads
    node,       \* what a tick sees of the node: synced, rebuilding witnesses
    arm,        \* the call of RepairArm in progress
    disarm,     \* the call of RepairDisarm in progress
    tick,       \* the scheduler tick in progress
    wipe,       \* the wipe in progress
    past,       \* history, for the properties
    used        \* how much of each bound is used up

disk    == <<present, tombs, marker, ledger, sentinel, abortFile>>
threads == <<arm, disarm, tick>>
vars == <<proc, park, present, tombs, marker, ledger, sentinel, abortFile,
          mem, node, arm, disarm, tick, wipe, past, used>>

Scopes  == {"full", "network"}
States  == {"idle", "armed", "wiped", "syncing", "rebuilding_witnesses",
            "verifying", "done", "failed"}
Phases  == {"none", "armed", "syncing", "rebuilding_witnesses", "verifying",
            "done", "failed"}
Ledgers == [attempts : 0..AttemptsMax, wipes : Nat, state : States]
Markers == [scope : Scopes, force : BOOLEAN, stale : BOOLEAN]

ASSUME RecoveryAssumption ==
    /\ IsFiniteSet(Targets)
    /\ AttemptsMax \in Nat \ {0} /\ WipesMax \in Nat \ {0}
    /\ MaxArms \in Nat /\ MaxDisarms \in Nat /\ MaxMishaps \in Nat
    /\ HaveWallet \in BOOLEAN /\ NoMarker \notin Markers

(* The findings that only a new process, or for the first one a successful *)
(* call of RepairArm, takes off the list.                                  *)
Findings == {"rate_limited", "standing"}

Managers == [phase : Phases, inFlight : BOOLEAN, quarantined : BOOLEAN,
             findings : SUBSET Findings, triggered : BOOLEAN]
Nodes    == [synced : BOOLEAN, rebuilding : BOOLEAN, advanced : BOOLEAN]
Arms     == [at : {"idle", "guard", "fail", "marker", "ledger", "phase"},
             scope : Scopes, force : BOOLEAN, ledger : Ledgers]
Disarms  == [at : {"idle", "read", "write", "phase"}, ledger : Ledgers]
Ticks    == [at : {"idle", "collected", "read", "write"}, state : States, ledger : Ledgers]
Wipes    == [at : {"none", "targets", "ledger", "sentinel", "sweep", "over"},
             scope : Scopes, todo : SUBSET Targets, kept : BOOLEAN]
Pasts    == [tainted : SUBSET Targets, waived : BOOLEAN, crossed : BOOLEAN,
             full : Nat, forced : Nat, lost : Nat]

NewManager == [phase |-> "none", inFlight |-> FALSE, quarantined |-> FALSE,
               findings |-> {}, triggered |-> FALSE]
NewNode    == [synced |-> FALSE, rebuilding |-> FALSE, advanced |-> FALSE]
NewLedger  == [attempts |-> 0, wipes |-> 0, state |-> "idle"]

NoArm    == [at |-> "idle", scope |-> "full", force |-> FALSE, ledger |-> NewLedger]
NoDisarm == [at |-> "idle", ledger |-> NewLedger]
NoTick   == [at |-> "idle", state |-> "idle", ledger |-> NewLedger]
NoWipe   == [at |-> "none", scope |-> "full", todo |-> {}, kept |-> FALSE]

Up        == proc \in {"held", "duty"}
CallsDone == arm.at = "idle" /\ disarm.at = "idle" /\ tick.at = "idle"

TypeOK ==
    /\ proc \in {"down", "starting", "loading", "rebuilding", "held", "duty",
                "stopping", "stopped"}
    /\ park \in BOOLEAN
    /\ present \subseteq Targets /\ tombs \in BOOLEAN
    /\ marker \in Markers \cup {NoMarker} /\ ledger \in Ledgers
    /\ sentinel \in BOOLEAN /\ abortFile \in BOOLEAN
    /\ mem \in Managers /\ node \in Nodes
    /\ arm \in Arms /\ disarm \in Disarms /\ tick \in Ticks /\ wipe \in Wipes
    /\ past \in Pasts /\ used \in [arms : Nat, disarms : Nat, mishaps : Nat]

(* A data directory no repair has touched, one that the first repair has   *)
(* just wiped, or one whose process was killed before it could wipe.       *)
Init ==
    /\ proc = "down" /\ park = TRUE /\ tombs = FALSE
    /\ \/ present = Targets /\ marker = NoMarker /\ ledger = NewLedger
       \/ /\ present = {} /\ marker = NoMarker
          /\ ledger = [attempts |-> 1, wipes |-> 1, state |-> "wiped"]
       \/ /\ present = Targets
          /\ marker = [scope |-> "full", force |-> FALSE, stale |-> FALSE]
          /\ ledger = [attempts |-> 1, wipes |-> 0, state |-> "armed"]
    /\ sentinel = FALSE /\ abortFile = FALSE
    /\ mem = NewManager /\ node = NewNode
    /\ arm = NoArm /\ disarm = NoDisarm /\ tick = NoTick /\ wipe = NoWipe
    /\ past = [tainted |-> {}, waived |-> FALSE, crossed |-> FALSE,
               full |-> ledger.wipes, forced |-> 0, lost |-> 0]
    /\ used = [arms |-> 0, disarms |-> 0, mishaps |-> 0]

-----------------------------------------------------------------------------
(* `repairnode`: RepairArm.  The ledger it writes is the one it read.      *)

BeginArm ==
    /\ Up /\ arm.at = "idle" /\ mem.phase # "armed" /\ used.arms < MaxArms
    /\ \E s \in Scopes, f \in BOOLEAN :
          /\ f => s = "full"
          /\ arm' = [NoArm EXCEPT !.at = "guard", !.scope = s, !.force = f]
    /\ used' = [used EXCEPT !.arms = @ + 1]
    /\ past' = [past EXCEPT !.crossed = @ \/ disarm.at # "idle"]
    /\ UNCHANGED <<proc, park, disk, mem, node, disarm, tick, wipe>>

(* Mutant: one attempt too many. *)
ExhaustedLate(l) == l.attempts > AttemptsMax

Exhausted(l) == l.attempts >= AttemptsMax

(* Mutant: one wipe too many. *)
RateLimitedLate(l) == arm.scope = "full" /\ l.wipes > WipesMax /\ ~arm.force

RateLimited(l) == arm.scope = "full" /\ l.wipes >= WipesMax /\ ~arm.force

ArmExhausted ==
    /\ arm.at = "guard" /\ Exhausted(ledger)
    /\ IF mem.inFlight
       THEN arm' = NoArm /\ UNCHANGED mem
       ELSE arm' = [arm EXCEPT !.at = "fail"] /\ mem' = [mem EXCEPT !.phase = "failed"]
    /\ UNCHANGED <<proc, park, disk, node, disarm, tick, wipe, past, used>>

ArmFails ==
    /\ arm.at = "fail"
    /\ ledger' = [ledger EXCEPT !.state = "failed"]
    /\ arm' = NoArm
    /\ UNCHANGED <<proc, park, present, tombs, marker, sentinel, abortFile, mem,
                   node, disarm, tick, wipe, past, used>>

ArmRateLimited ==
    /\ arm.at = "guard" /\ ~Exhausted(ledger) /\ RateLimited(ledger)
    /\ mem' = [mem EXCEPT !.findings = @ \cup {"rate_limited"}]
    /\ arm' = NoArm
    /\ UNCHANGED <<proc, park, disk, node, disarm, tick, wipe, past, used>>

ArmAdmitted ==
    /\ arm.at = "guard" /\ ~Exhausted(ledger) /\ ~RateLimited(ledger)
    /\ arm' = [arm EXCEPT !.at = "marker", !.ledger = ledger]
    /\ UNCHANGED <<proc, park, disk, mem, node, disarm, tick, wipe, past, used>>

WriteMarker ==
    /\ arm.at = "marker"
    /\ marker' = [scope |-> arm.scope, force |-> arm.force, stale |-> FALSE]
    /\ arm' = [arm EXCEPT !.at = "ledger"]
    /\ UNCHANGED <<proc, park, present, tombs, ledger, sentinel, abortFile, mem,
                   node, disarm, tick, wipe, past, used>>

RecordAttempt ==
    /\ arm.at = "ledger"
    /\ ledger' = [arm.ledger EXCEPT !.attempts = @ + 1, !.state = "armed"]
    /\ arm' = [arm EXCEPT !.at = "phase"]
    /\ UNCHANGED <<proc, park, present, tombs, marker, sentinel, abortFile, mem,
                   node, disarm, tick, wipe, past, used>>

Armed ==
    /\ arm.at = "phase"
    /\ mem' = [mem EXCEPT !.phase = "armed", !.findings = @ \ {"rate_limited"}]
    /\ arm' = NoArm
    /\ UNCHANGED <<proc, park, disk, node, disarm, tick, wipe, past, used>>

RepairArm == \/ ArmExhausted \/ ArmFails \/ ArmRateLimited \/ ArmAdmitted
             \/ WriteMarker \/ RecordAttempt \/ Armed

-----------------------------------------------------------------------------
(* `repairnode` with disarm: RepairDisarm.                                 *)

BeginDisarm ==
    /\ Up /\ disarm.at = "idle" /\ used.disarms < MaxDisarms
    /\ disarm' = [NoDisarm EXCEPT !.at = IF marker # NoMarker THEN "read" ELSE "phase"]
    /\ marker' = NoMarker
    /\ used' = [used EXCEPT !.disarms = @ + 1]
    /\ past' = [past EXCEPT !.crossed = @ \/ arm.at # "idle"]
    /\ UNCHANGED <<proc, park, present, tombs, ledger, sentinel, abortFile, mem,
                   node, arm, tick, wipe>>

(* The cancelled attempt is given back; the state of a repair in flight is *)
(* kept.                                                                   *)
DisarmRead ==
    /\ disarm.at = "read"
    /\ disarm' = [disarm EXCEPT !.at = "write",
            !.ledger = [ledger EXCEPT !.attempts = IF @ > 0 THEN @ - 1 ELSE 0,
                                      !.state = IF mem.inFlight THEN @ ELSE "idle"]]
    /\ UNCHANGED <<proc, park, disk, mem, node, arm, tick, wipe, past, used>>

DisarmWrite ==
    /\ disarm.at = "write"
    /\ ledger' = disarm.ledger
    /\ disarm' = [disarm EXCEPT !.at = "phase"]
    /\ UNCHANGED <<proc, park, present, tombs, marker, sentinel, abortFile, mem,
                   node, arm, tick, wipe, past, used>>

Disarmed ==
    /\ disarm.at = "phase"
    /\ mem' = [mem EXCEPT !.phase = IF @ = "armed" THEN "none" ELSE @]
    /\ disarm' = NoDisarm
    /\ UNCHANGED <<proc, park, disk, node, arm, tick, wipe, past, used>>

RepairDisarm == DisarmRead \/ DisarmWrite \/ Disarmed

-----------------------------------------------------------------------------
(* SchedulerTick.  It does nothing to a repair while the node is           *)
(* quarantined; it moves the phase under the lock and writes the ledger    *)
(* after it has let the lock go.                                           *)

CollectSignals ==
    /\ proc = "duty" /\ tick.at = "idle" /\ ~mem.quarantined /\ mem.inFlight
    /\ tick' = [NoTick EXCEPT !.at = "collected"]
    /\ UNCHANGED <<proc, park, disk, mem, node, arm, disarm, wipe, past, used>>

(* The phase becomes p, and the ledger is to say so. *)
Enter(p) ==
    /\ mem' = [mem EXCEPT !.phase = p]
    /\ tick' = [tick EXCEPT !.at = "read", !.state = p]

StayIn == tick' = NoTick /\ UNCHANGED mem

AdvanceSyncing ==
    /\ ~node.synced
    /\ IF mem.phase = "syncing" THEN StayIn ELSE Enter("syncing")
    /\ UNCHANGED node

(* Mutant: the stage does not remember that it was triggered. *)
AdvanceWitnessesAgain ==
    /\ node.synced /\ HaveWallet
    /\ mem' = [mem EXCEPT !.phase = "rebuilding_witnesses"]
    /\ tick' = [tick EXCEPT !.at = "read", !.state = "rebuilding_witnesses"]
    /\ node' = [node EXCEPT !.rebuilding = TRUE]

(* A wallet is loaded: its witnesses are rebuilt, whatever it thinks. *)
AdvanceWitnesses ==
    /\ node.synced /\ HaveWallet
    /\ IF mem.triggered
       THEN /\ node.rebuilding
            /\ IF mem.phase = "rebuilding_witnesses" THEN StayIn
               ELSE Enter("rebuilding_witnesses")
            /\ UNCHANGED node
       ELSE /\ mem' = [mem EXCEPT !.phase = "rebuilding_witnesses", !.triggered = TRUE]
            /\ tick' = [tick EXCEPT !.at = "read", !.state = "rebuilding_witnesses"]
            /\ node' = [node EXCEPT !.rebuilding = TRUE]

WitnessesDone == node.synced /\ (HaveWallet => mem.triggered /\ ~node.rebuilding)

AdvanceToVerifying ==
    /\ WitnessesDone /\ mem.phase \notin {"verifying", "done"}
    /\ Enter("verifying")
    /\ node' = [node EXCEPT !.advanced = FALSE]

AdvanceVerified(drift) ==
    /\ WitnessesDone /\ mem.phase = "verifying"
    /\ IF ~drift /\ node.advanced /\ mem.findings = {}
       THEN /\ mem' = [mem EXCEPT !.phase = "done", !.inFlight = FALSE]
            /\ tick' = [tick EXCEPT !.at = "read", !.state = "done"]
       ELSE IF drift
       THEN /\ mem' = [mem EXCEPT !.phase = "failed", !.inFlight = FALSE]
            /\ tick' = [tick EXCEPT !.at = "read", !.state = "failed"]
       ELSE StayIn
    /\ UNCHANGED node

AdvanceRepairPhases ==
    /\ tick.at = "collected"
    /\ \/ AdvanceSyncing
       \/ AdvanceWitnesses
       \/ AdvanceToVerifying
       \/ \E drift \in BOOLEAN : AdvanceVerified(drift)
    /\ UNCHANGED <<proc, park, disk, arm, disarm, wipe, past, used>>

TickReadsLedger ==
    /\ tick.at = "read"
    /\ tick' = [tick EXCEPT !.at = "write", !.ledger = ledger]
    /\ UNCHANGED <<proc, park, disk, mem, node, arm, disarm, wipe, past, used>>

(* SetLedgerRepairState, or FinalizeVerifiedHealthLedger when the repair   *)
(* is done: the attempts are forgotten and the sentinel is removed.        *)
TickWritesLedger ==
    /\ tick.at = "write"
    /\ ledger' = [tick.ledger EXCEPT !.state = tick.state,
                                     !.attempts = IF tick.state = "done" THEN 0 ELSE @]
    /\ IF tick.state = "done"
       THEN /\ sentinel' = FALSE
            /\ past' = [past EXCEPT !.waived = @ \/ (sentinel /\ past.tainted # {})]
       ELSE UNCHANGED <<sentinel, past>>
    /\ tick' = NoTick
    /\ UNCHANGED <<proc, park, present, tombs, marker, abortFile, mem, node, arm,
                   disarm, wipe, used>>

SchedulerTick == AdvanceRepairPhases \/ TickReadsLedger \/ TickWritesLedger

(* What the ticks wait for: the end of initial block download, of the      *)
(* rebuild of the witnesses, and a new tip.                                *)
NodeSyncs ==
    /\ proc = "duty" /\ mem.inFlight /\ ~mem.quarantined /\ ~node.synced
    /\ node' = [node EXCEPT !.synced = TRUE]
    /\ UNCHANGED <<proc, park, disk, mem, threads, wipe, past, used>>

WitnessesRebuilt ==
    /\ proc = "duty" /\ node.rebuilding
    /\ node' = [node EXCEPT !.rebuilding = FALSE]
    /\ UNCHANGED <<proc, park, disk, mem, threads, wipe, past, used>>

TipAdvances ==
    /\ proc = "duty" /\ ~mem.quarantined /\ mem.phase = "verifying" /\ ~node.advanced
    /\ node' = [node EXCEPT !.advanced = TRUE]
    /\ UNCHANGED <<proc, park, disk, mem, threads, wipe, past, used>>

NodeProgress == NodeSyncs \/ WitnessesRebuilt \/ TipAdvances

-----------------------------------------------------------------------------
(* A fault found at run time.  A process that parks is quarantined, and    *)
(* the sentinel says so to the next ones; one that does not park stops.    *)

EnterQuarantine ==
    /\ proc = "duty" /\ park /\ ~mem.quarantined
    /\ mem' = [mem EXCEPT !.quarantined = TRUE, !.findings = @ \cup {"standing"}]
    /\ sentinel' = TRUE
    /\ past' = [past EXCEPT !.tainted = present, !.waived = FALSE]
    /\ UNCHANGED <<proc, park, present, tombs, marker, ledger, abortFile, node,
                   threads, wipe, used>>

NoteHeadlessFaultShutdown ==
    /\ proc = "duty" /\ ~park
    /\ proc' = "stopping"
    /\ abortFile' = TRUE
    /\ mem' = [mem EXCEPT !.quarantined = TRUE]
    /\ UNCHANGED <<park, present, tombs, marker, ledger, sentinel, node, threads,
                   wipe, past, used>>

-----------------------------------------------------------------------------
(* The end of a process.  Shutdown waits for the calls in progress.        *)

Stop ==
    /\ Up
    /\ proc' = "stopping"
    /\ UNCHANGED <<park, disk, mem, node, threads, wipe, past, used>>

(* Mutant: the wait goes on while a repair of an earlier process is in     *)
(* flight.                                                                 *)
RunCrippledWaitInFlight ==
    /\ proc = "held" /\ mem.phase = "armed" /\ ~mem.inFlight
    /\ proc' = "stopping"
    /\ UNCHANGED <<park, disk, mem, node, threads, wipe, past, used>>

RunCrippledWait ==
    /\ proc = "held" /\ mem.phase = "armed"
    /\ proc' = "stopping"
    /\ UNCHANGED <<park, disk, mem, node, threads, wipe, past, used>>

(* StopHTTPServer and the end of the scheduler: no handler and no tick     *)
(* reads the manager any more.                                             *)
PrepareShutdown ==
    /\ proc = "stopping" /\ CallsDone
    /\ proc' = "stopped"
    /\ mem' = NewManager /\ node' = NewNode
    /\ UNCHANGED <<park, disk, threads, wipe, past, used>>

WipeOver == wipe.at = "over" \/ (wipe.at = "none" /\ marker = NoMarker)

Exit ==
    /\ proc = "stopped" /\ WipeOver
    /\ proc' = "down" /\ park' = TRUE /\ wipe' = NoWipe
    /\ UNCHANGED <<disk, mem, node, threads, past, used>>

(* A wipe is lost to the ledger when the process dies after the marker is  *)
(* consumed and before the wipe is recorded.                               *)
Crash ==
    /\ proc # "down" /\ used.mishaps < MaxMishaps
    /\ proc' = "down"
    /\ used' = [used EXCEPT !.mishaps = @ + 1]
    /\ past' = [past EXCEPT !.lost = @ + IF wipe.at = "ledger" THEN 1 ELSE 0]
    /\ park' = TRUE /\ mem' = NewManager /\ node' = NewNode
    /\ arm' = NoArm /\ disarm' = NoDisarm /\ tick' = NoTick /\ wipe' = NoWipe
    /\ UNCHANGED disk

(* A day passes: REPAIR_MARKER_MAX_AGE_SECS, and more than the window of   *)
(* the attempts.                                                           *)
DayPasses ==
    /\ used.mishaps < MaxMishaps /\ CallsDone
    /\ marker' = IF marker = NoMarker THEN NoMarker ELSE [marker EXCEPT !.stale = TRUE]
    /\ ledger' = [ledger EXCEPT !.attempts = 0]
    /\ used' = [used EXCEPT !.mishaps = @ + 1]
    /\ UNCHANGED <<proc, park, present, tombs, sentinel, abortFile, mem, node,
                   threads, wipe, past>>

-----------------------------------------------------------------------------
(* ExecuteMarkerWipe, at the end of Shutdown or at the start of a process. *)

Wiping == proc \in {"starting", "stopped"}

TooOld == proc = "starting" /\ ~tombs /\ marker.stale

RejectMarker ==
    /\ Wiping /\ wipe.at = "none" /\ marker # NoMarker /\ TooOld
    /\ marker' = NoMarker
    /\ ledger' = [ledger EXCEPT !.state = "failed"]
    /\ wipe' = [NoWipe EXCEPT !.at = "over"]
    /\ UNCHANGED <<proc, park, present, tombs, sentinel, abortFile, mem, node,
                   threads, past, used>>

BeginWipe ==
    /\ Wiping /\ wipe.at = "none" /\ marker # NoMarker /\ ~TooOld
    /\ wipe' = [at |-> "targets", scope |-> marker.scope, kept |-> FALSE,
                todo |-> IF marker.scope = "full" THEN present ELSE {}]
    /\ UNCHANGED <<proc, park, disk, mem, node, threads, past, used>>

(* A target goes to a tombstone, is removed where it is, or stays.  *)
RemoveTarget(t) ==
    /\ wipe.at = "targets" /\ t \in wipe.todo
    /\ \/ /\ present' = present \ {t}
          /\ tombs' \in {tombs, TRUE}
          /\ past' = [past EXCEPT !.tainted = @ \ {t}]
          /\ wipe' = [wipe EXCEPT !.todo = @ \ {t}]
          /\ UNCHANGED used
       \/ /\ used.mishaps < MaxMishaps
          /\ used' = [used EXCEPT !.mishaps = @ + 1]
          /\ wipe' = [wipe EXCEPT !.todo = @ \ {t}, !.kept = TRUE]
          /\ UNCHANGED <<present, tombs, past>>
    /\ UNCHANGED <<proc, park, marker, ledger, sentinel, abortFile, mem, node, threads>>

WipeIncomplete ==
    /\ wipe.at = "targets" /\ wipe.todo = {} /\ wipe.kept
    /\ ledger' = [ledger EXCEPT !.state = "failed"]
    /\ wipe' = [NoWipe EXCEPT !.at = "over"]
    /\ UNCHANGED <<proc, park, present, tombs, marker, sentinel, abortFile, mem,
                   node, threads, past, used>>

ConsumeMarker ==
    /\ wipe.at = "targets" /\ wipe.todo = {} /\ ~wipe.kept
    /\ marker' = NoMarker
    /\ wipe' = [wipe EXCEPT !.at = "ledger"]
    /\ past' = [past EXCEPT
            !.full   = @ + IF marker.scope = "full" THEN 1 ELSE 0,
            !.forced = @ + IF marker.scope = "full" /\ marker.force THEN 1 ELSE 0]
    /\ UNCHANGED <<proc, park, present, tombs, ledger, sentinel, abortFile, mem,
                   node, threads, used>>

RecordWipe ==
    /\ wipe.at = "ledger"
    /\ ledger' = [ledger EXCEPT !.wipes = @ + 1,
                                !.state = IF wipe.scope = "network" THEN "idle" ELSE "wiped"]
    /\ wipe' = [wipe EXCEPT !.at = "sentinel"]
    /\ UNCHANGED <<proc, park, present, tombs, marker, sentinel, abortFile, mem,
                   node, threads, past, used>>

(* Mutant: a wipe of the network state lifts the quarantine too. *)
ClearSentinelAnyScope ==
    /\ wipe.at = "sentinel"
    /\ sentinel' = FALSE
    /\ wipe' = [wipe EXCEPT !.at = "sweep"]
    /\ UNCHANGED <<proc, park, present, tombs, marker, ledger, abortFile, mem,
                   node, threads, past, used>>

ClearSentinel ==
    /\ wipe.at = "sentinel"
    /\ sentinel' = (sentinel /\ wipe.scope # "full")
    /\ wipe' = [wipe EXCEPT !.at = "sweep"]
    /\ UNCHANGED <<proc, park, present, tombs, marker, ledger, abortFile, mem,
                   node, threads, past, used>>

SweepWipeTombstones ==
    /\ wipe.at = "sweep"
    /\ tombs' = FALSE
    /\ wipe' = [NoWipe EXCEPT !.at = "over"]
    /\ UNCHANGED <<proc, park, present, marker, ledger, sentinel, abortFile, mem,
                   node, threads, past, used>>

ExecuteMarkerWipe ==
    \/ RejectMarker \/ BeginWipe \/ WipeIncomplete \/ ConsumeMarker
    \/ RecordWipe \/ ClearSentinel \/ SweepWipeTombstones
    \/ \E t \in Targets : RemoveTarget(t)

-----------------------------------------------------------------------------
(* The start of a process.                                                 *)

Start ==
    /\ proc = "down"
    /\ proc' = "starting"
    /\ park' \in BOOLEAN
    /\ UNCHANGED <<disk, mem, node, threads, wipe, past, used>>

(* The rest of RunStartupRepairTasks: a rebuild flag lifts the quarantine, *)
(* and the tombstones are swept whatever became of the wipe.               *)
RunStartupRepairTasks ==
    /\ proc = "starting" /\ WipeOver
    /\ \E rebuild \in BOOLEAN :
          /\ proc' = IF rebuild THEN "rebuilding" ELSE "loading"
          /\ sentinel' = (sentinel /\ ~rebuild)
          /\ past' = [past EXCEPT
                  !.waived = @ \/ (rebuild /\ sentinel /\ past.tainted # {})]
    /\ tombs' = FALSE
    /\ wipe' = NoWipe
    /\ UNCHANGED <<park, present, marker, ledger, abortFile, mem, node, threads, used>>

(* The constructor of RecoveryManager. *)
Resumed ==
    [NewManager EXCEPT
        !.inFlight = ledger.state \in {"wiped", "syncing", "rebuilding_witnesses", "verifying"},
        !.phase = IF ledger.state \in {"wiped", "syncing", "rebuilding_witnesses", "verifying"}
                  THEN "syncing"
                  ELSE IF ledger.state = "failed" THEN "failed" ELSE "none",
        !.quarantined = sentinel,
        !.findings = IF sentinel \/ abortFile THEN {"standing"} ELSE {}]

(* The databases are opened, and rebuilt if the operator asks.  The node   *)
(* goes to duty unless they do not load, they have drifted, or an earlier  *)
(* process was quarantined: then it parks, or exits.                       *)
Load ==
    /\ proc \in {"loading", "rebuilding"}
    /\ present' = Targets
    /\ mem' = Resumed
    /\ abortFile' = FALSE
    /\ past' = [past EXCEPT !.tainted = IF proc = "rebuilding" THEN {} ELSE @]
    /\ \E fault \in BOOLEAN :
          proc' = IF ~fault /\ ~sentinel THEN "duty"
                  ELSE IF park THEN "held" ELSE "stopping"
    /\ UNCHANGED <<park, tombs, marker, ledger, sentinel, node, threads, wipe, used>>

-----------------------------------------------------------------------------
MainThread == \/ RunCrippledWait \/ PrepareShutdown \/ Exit \/ ExecuteMarkerWipe \/ Start
              \/ RunStartupRepairTasks \/ Load

Next ==
    \/ BeginArm \/ RepairArm \/ BeginDisarm \/ RepairDisarm
    \/ CollectSignals \/ SchedulerTick
    \/ NodeProgress
    \/ EnterQuarantine \/ NoteHeadlessFaultShutdown
    \/ Stop \/ Crash \/ DayPasses
    \/ MainThread

Spec == Init /\ [][Next]_vars

(* A call that has begun goes on, the scheduler ticks, the main thread     *)
(* takes its steps, and whoever manages the node starts it again.          *)
FairSpec ==
    /\ Spec
    /\ WF_vars(RepairArm \/ RepairDisarm)
    /\ WF_vars(CollectSignals \/ SchedulerTick) /\ WF_vars(NodeProgress)
    /\ WF_vars(MainThread)

-----------------------------------------------------------------------------
(* A quarantined node stays out of duty.  The databases a process found to *)
(* have drifted are not served by a later one, whatever crashes, partial   *)
(* wipes, failed removals and network repairs lie between, until all of    *)
(* them are gone.  Only a rebuild the operator asked for, or the           *)
(* verified-health step of a tick that was already on its way, takes the   *)
(* sentinel away from databases that are still there.                      *)
QuarantineHolds ==
    proc = "duty" /\ ~mem.quarantined /\ past.tainted # {} => past.waived

(* The wipe-rate guard.  No more full wipes are carried out than the guard *)
(* allows, but for those the operator forced and those a crash took before *)
(* the ledger had them.                                                    *)
WipeGuard == past.full <= WipesMax + past.forced + past.lost

(* A repair in flight comes to an end while its process is on duty: the    *)
(* ticks take it through the witness stage to verified health or to        *)
(* failure, unless a finding that only a restart clears is on the list.    *)
RepairConcludes ==
    (proc = "duty" /\ mem.inFlight) ~>
        \/ ~mem.inFlight \/ proc # "duty" \/ mem.quarantined \/ mem.findings # {}

(* A repair armed on a parked node is carried out: the node leaves         *)
(* crippled_wait by itself, and after that process and the next ones the   *)
(* marker is consumed or refused, or the failure is on record.  A disarm   *)
(* that crosses the call that arms may undo half of it.                    *)
ParkedRepairRuns ==
    (proc = "held" /\ mem.phase = "armed") ~>
        (marker = NoMarker \/ ledger.state = "failed" \/ past.crossed)
=============================================================================
