---------------------------- MODULE RecoveryProofs ----------------------------
(***************************************************************************)
(* The recovery manager for every bound on attempts, wipes and crashes:    *)
(* types, the quarantine that outlives restarts, and the bound on full     *)
(* wipes.  The inductive invariants are Base (types, admitted calls, life  *)
(* cycle) and, on top of it, Sentinel and Guarded.                         *)
(***************************************************************************)
EXTENDS Recovery, TLAPS

(* A call that arms was admitted on a ledger with room for its attempt. *)
Admitted == arm.at \in {"marker", "ledger"} => arm.ledger.attempts < AttemptsMax

USE DEF disk, threads

LEMMA NewOK ==
    /\ NewManager \in Managers /\ NewNode \in Nodes /\ NewLedger \in Ledgers
    /\ NoArm \in Arms /\ NoDisarm \in Disarms /\ NoTick \in Ticks /\ NoWipe \in Wipes
BY RecoveryAssumption DEF NewManager, NewNode, NewLedger, NoArm, NoDisarm, NoTick, NoWipe,
   Managers, Nodes, Ledgers, Arms, Disarms, Ticks, Wipes, Phases, States, Scopes, Findings

(* The updates of a record keep its type. *)
LEMMA LedgerUpdates ==
    ASSUME NEW l \in Ledgers, NEW s \in States
    PROVE  /\ [l EXCEPT !.state = s] \in Ledgers
           /\ [l EXCEPT !.attempts = 0] \in Ledgers
           /\ [l EXCEPT !.state = s, !.attempts = 0] \in Ledgers
           /\ [l EXCEPT !.attempts = IF @ > 0 THEN @ - 1 ELSE 0, !.state = s] \in Ledgers
           /\ [l EXCEPT !.wipes = @ + 1, !.state = s] \in Ledgers
           /\ l.attempts < AttemptsMax =>
                [l EXCEPT !.attempts = @ + 1, !.state = s] \in Ledgers
<1> USE DEF Ledgers
<1>1. /\ l.attempts \in 0..AttemptsMax /\ 0 \in 0..AttemptsMax
      /\ l.attempts > 0 => l.attempts - 1 \in 0..AttemptsMax
      /\ l.attempts < AttemptsMax => l.attempts + 1 \in 0..AttemptsMax
  BY RecoveryAssumption
<1>2. \A a \in 0..AttemptsMax : [l EXCEPT !.attempts = a, !.state = s] \in Ledgers
  BY Zenon
<1>3. /\ [l EXCEPT !.attempts = IF @ > 0 THEN @ - 1 ELSE 0, !.state = s] \in Ledgers
      /\ l.attempts < AttemptsMax =>
            [l EXCEPT !.attempts = @ + 1, !.state = s] \in Ledgers
  BY Zenon, <1>1, <1>2
<1>4. /\ [l EXCEPT !.state = s] \in Ledgers
      /\ [l EXCEPT !.attempts = 0] \in Ledgers
      /\ [l EXCEPT !.state = s, !.attempts = 0] \in Ledgers
  BY Zenon, <1>1
<1>5. [l EXCEPT !.wipes = @ + 1, !.state = s] \in Ledgers
  <2>1. \A w \in Nat : [l EXCEPT !.wipes = w, !.state = s] \in Ledgers
    BY Zenon
  <2>2. l.wipes + 1 \in Nat
    OBVIOUS
  <2> QED BY Zenon, <2>1, <2>2
<1> QED BY <1>3, <1>4, <1>5

LEMMA PastUpdates ==
    ASSUME NEW p \in Pasts, NEW b \in BOOLEAN, NEW t \in SUBSET Targets,
           NEW i \in Nat, NEW j \in Nat
    PROVE  /\ [p EXCEPT !.crossed = b] \in Pasts
           /\ [p EXCEPT !.waived = b] \in Pasts
           /\ [p EXCEPT !.tainted = t] \in Pasts
           /\ [p EXCEPT !.tainted = t, !.waived = b] \in Pasts
           /\ [p EXCEPT !.lost = i] \in Pasts
           /\ [p EXCEPT !.full = i, !.forced = j] \in Pasts
BY Zenon DEF Pasts

LEMMA ManagerUpdates ==
    ASSUME NEW m \in Managers, NEW p \in Phases, NEW b \in BOOLEAN,
           NEW f \in SUBSET Findings
    PROVE  /\ [m EXCEPT !.phase = p] \in Managers
           /\ [m EXCEPT !.quarantined = b] \in Managers
           /\ [m EXCEPT !.findings = f] \in Managers
           /\ [m EXCEPT !.phase = p, !.findings = f] \in Managers
           /\ [m EXCEPT !.quarantined = b, !.findings = f] \in Managers
           /\ [m EXCEPT !.phase = p, !.triggered = b] \in Managers
           /\ [m EXCEPT !.phase = p, !.inFlight = b] \in Managers
BY Zenon DEF Managers

LEMMA ThreadUpdates ==
    /\ \A a \in Arms, w \in {"fail", "marker", "ledger", "phase"}, l \in Ledgers :
          /\ [a EXCEPT !.at = w] \in Arms
          /\ [a EXCEPT !.at = w, !.ledger = l] \in Arms
    /\ \A d \in Disarms, w \in {"read", "write", "phase"}, l \in Ledgers :
          /\ [d EXCEPT !.at = w] \in Disarms
          /\ [d EXCEPT !.at = w, !.ledger = l] \in Disarms
    /\ \A t \in Ticks, s \in States, l \in Ledgers :
          /\ [t EXCEPT !.at = "read", !.state = s] \in Ticks
          /\ [t EXCEPT !.at = "write", !.ledger = l] \in Ticks
          /\ [t EXCEPT !.at = "collected"] \in Ticks
<1>1. \A a \in Arms, w \in {"fail", "marker", "ledger", "phase"}, l \in Ledgers :
          /\ [a EXCEPT !.at = w] \in Arms
          /\ [a EXCEPT !.at = w, !.ledger = l] \in Arms
  BY Zenon DEF Arms
<1>2. \A d \in Disarms, w \in {"read", "write", "phase"}, l \in Ledgers :
          /\ [d EXCEPT !.at = w] \in Disarms
          /\ [d EXCEPT !.at = w, !.ledger = l] \in Disarms
  BY Zenon DEF Disarms
<1>3. \A t \in Ticks, s \in States, l \in Ledgers :
          /\ [t EXCEPT !.at = "read", !.state = s] \in Ticks
          /\ [t EXCEPT !.at = "write", !.ledger = l] \in Ticks
          /\ [t EXCEPT !.at = "collected"] \in Ticks
  BY Zenon DEF Ticks
<1> QED BY Zenon, <1>1, <1>2, <1>3

LEMMA UsedUpdates ==
    ASSUME NEW u \in [arms : Nat, disarms : Nat, mishaps : Nat]
    PROVE  /\ [u EXCEPT !.arms = @ + 1] \in [arms : Nat, disarms : Nat, mishaps : Nat]
           /\ [u EXCEPT !.disarms = @ + 1] \in [arms : Nat, disarms : Nat, mishaps : Nat]
           /\ [u EXCEPT !.mishaps = @ + 1] \in [arms : Nat, disarms : Nat, mishaps : Nat]
OBVIOUS

LEMMA WipeUpdates ==
    ASSUME NEW w \in Wipes
    PROVE  /\ \A t \in SUBSET Targets : [w EXCEPT !.todo = t] \in Wipes
           /\ \A t \in SUBSET Targets, b \in BOOLEAN :
                 [w EXCEPT !.todo = t, !.kept = b] \in Wipes
           /\ \A a \in {"ledger", "sentinel", "sweep", "over"} : [w EXCEPT !.at = a] \in Wipes
BY Zenon DEF Wipes

LEMMA ArmType ==
    TypeOK /\ Admitted /\ (BeginArm \/ RepairArm) => TypeOK' /\ Admitted'
<1> SUFFICES ASSUME TypeOK, Admitted, BeginArm \/ RepairArm PROVE TypeOK' /\ Admitted'
  BY SMTT(60)
<1> USE NewOK
<1>1. CASE BeginArm
  <2>1. past' \in Pasts
    <3>1. (past.crossed \/ disarm.at # "idle") \in BOOLEAN
      BY SMTT(60)
    <3> QED BY <1>1, <3>1, PastUpdates, Zenon DEF BeginArm, TypeOK
  <2>2. arm' \in Arms /\ arm'.at = "guard"
    BY ZenonT(60), <1>1 DEF BeginArm, Arms, NoArm, Scopes
  <2>3. used' \in [arms : Nat, disarms : Nat, mishaps : Nat]
    BY Zenon, <1>1, UsedUpdates DEF BeginArm, TypeOK
  <2> QED BY ZenonT(60), <1>1, <2>1, <2>2, <2>3 DEF BeginArm, TypeOK, Admitted
<1>2. CASE ArmExhausted
  <2>1. mem' \in Managers
    BY Zenon, <1>2, ManagerUpdates DEF ArmExhausted, TypeOK, Phases
  <2>2. arm' \in Arms /\ arm'.at \in {"idle", "fail"}
    BY ZenonT(60), <1>2 DEF ArmExhausted, TypeOK, Arms, NoArm
  <2> QED BY SMTT(60), <1>2, <2>1, <2>2 DEF ArmExhausted, TypeOK, Admitted
<1>3. CASE ArmFails
  <2>1. ledger' \in Ledgers
    BY Zenon, <1>3, LedgerUpdates DEF ArmFails, TypeOK, States
  <2> QED BY <1>3, <2>1 DEF ArmFails, TypeOK, Admitted, NoArm
<1>4. CASE ArmRateLimited
  <2>1. mem' \in Managers
    BY <1>4 DEF ArmRateLimited, TypeOK, Managers, Findings
  <2> QED BY <1>4, <2>1 DEF ArmRateLimited, TypeOK, Admitted, NoArm
<1>5. CASE ArmAdmitted
  <2>1. arm' \in Arms /\ arm'.ledger = ledger
    BY ZenonT(60), <1>5, ThreadUpdates DEF ArmAdmitted, TypeOK, Arms
  <2>2. ledger.attempts < AttemptsMax
    BY <1>5, RecoveryAssumption DEF ArmAdmitted, Exhausted, TypeOK, Ledgers
  <2> QED BY <1>5, <2>1, <2>2 DEF ArmAdmitted, TypeOK, Admitted
<1>6. CASE WriteMarker
  <2>1. arm' \in Arms /\ arm'.ledger = arm.ledger
    BY ZenonT(60), <1>6, ThreadUpdates DEF WriteMarker, TypeOK, Arms
  <2>2. marker' \in Markers
    BY <1>6 DEF WriteMarker, TypeOK, Arms, Markers
  <2> QED BY <1>6, <2>1, <2>2 DEF WriteMarker, TypeOK, Admitted
<1>7. CASE RecordAttempt
  <2>1. arm.ledger \in Ledgers /\ arm.ledger.attempts < AttemptsMax
    BY <1>7 DEF RecordAttempt, TypeOK, Admitted, Arms
  <2>2. ledger' \in Ledgers
    BY Zenon, <1>7, <2>1, LedgerUpdates DEF RecordAttempt, States
  <2>3. arm' \in Arms /\ arm'.at = "phase"
    BY ZenonT(60), <1>7, ThreadUpdates DEF RecordAttempt, TypeOK, Arms
  <2> QED BY <1>7, <2>2, <2>3 DEF RecordAttempt, TypeOK, Admitted
<1>8. CASE Armed
  <2>1. mem' \in Managers
    <3>1. mem.findings \ {"rate_limited"} \in SUBSET Findings
      BY DEF TypeOK, Managers
    <3> QED BY Zenon, <1>8, <3>1, ManagerUpdates DEF Armed, TypeOK, Phases
  <2> QED BY <1>8, <2>1 DEF Armed, TypeOK, Admitted, NoArm
<1> QED BY <1>1, <1>2, <1>3, <1>4, <1>5, <1>6, <1>7, <1>8 DEF RepairArm

LEMMA DisarmType ==
    TypeOK /\ Admitted /\ (BeginDisarm \/ RepairDisarm) => TypeOK' /\ Admitted'
<1> SUFFICES ASSUME TypeOK, Admitted, BeginDisarm \/ RepairDisarm
             PROVE  TypeOK' /\ Admitted'
  OBVIOUS
<1> USE NewOK
<1>1. CASE BeginDisarm
  <2>1. past' \in Pasts
    <3>1. (past.crossed \/ arm.at # "idle") \in BOOLEAN
      OBVIOUS
    <3> QED BY <1>1, <3>1, PastUpdates, Zenon DEF BeginDisarm, TypeOK
  <2>2. disarm' \in Disarms
    BY <1>1 DEF BeginDisarm, Disarms, NoDisarm
  <2>3. used' \in [arms : Nat, disarms : Nat, mishaps : Nat]
    BY <1>1, UsedUpdates DEF BeginDisarm, TypeOK
  <2> QED BY <1>1, <2>1, <2>2, <2>3 DEF BeginDisarm, TypeOK, Admitted
<1>2. CASE DisarmRead
  <2> DEFINE s == IF mem.inFlight THEN ledger.state ELSE "idle"
  <2>1. s \in States
    BY SMTT(60) DEF TypeOK, Ledgers, States
  <2>2. [ledger EXCEPT !.attempts = IF @ > 0 THEN @ - 1 ELSE 0, !.state = s] \in Ledgers
    BY ZenonT(60), <2>1, LedgerUpdates DEF TypeOK
  <2>3. disarm' \in Disarms
    BY Zenon, <1>2, <2>2, ThreadUpdates DEF DisarmRead, TypeOK
  <2> QED BY <1>2, <2>3 DEF DisarmRead, TypeOK, Admitted
<1>3. CASE DisarmWrite
  <2>1. ledger' \in Ledgers /\ disarm' \in Disarms
    BY Zenon, <1>3, ThreadUpdates DEF DisarmWrite, TypeOK, Disarms
  <2> QED BY SMTT(60), <1>3, <2>1 DEF DisarmWrite, TypeOK, Admitted
<1>4. CASE Disarmed
  <2>1. mem' \in Managers
    BY <1>4 DEF Disarmed, TypeOK, Managers, Phases
  <2> QED BY <1>4, <2>1 DEF Disarmed, TypeOK, Admitted
<1> QED BY <1>1, <1>2, <1>3, <1>4 DEF RepairDisarm

LEMMA TickType ==
    TypeOK /\ Admitted /\ (CollectSignals \/ SchedulerTick \/ NodeProgress)
        => TypeOK' /\ Admitted'
<1> SUFFICES ASSUME TypeOK, Admitted, CollectSignals \/ SchedulerTick \/ NodeProgress
             PROVE  TypeOK' /\ Admitted'
  OBVIOUS
<1> USE NewOK
<1>1. CASE CollectSignals
  <2>1. tick' \in Ticks
    BY <1>1 DEF CollectSignals, NoTick, Ticks, States
  <2> QED BY <1>1, <2>1 DEF CollectSignals, TypeOK, Admitted
<1>2. CASE AdvanceRepairPhases
  <2>1. \A s \in States : [tick EXCEPT !.at = "read", !.state = s] \in Ticks
    BY Zenon, ThreadUpdates, RecoveryAssumption DEF TypeOK
  <2>2. \A p \in Phases, b \in BOOLEAN :
           /\ [mem EXCEPT !.phase = p] \in Managers
           /\ [mem EXCEPT !.phase = p, !.triggered = b] \in Managers
           /\ [mem EXCEPT !.phase = p, !.inFlight = b] \in Managers
    BY ZenonT(60) DEF TypeOK, Managers
  <2>3. \A b \in BOOLEAN : /\ [node EXCEPT !.rebuilding = b] \in Nodes
                           /\ [node EXCEPT !.advanced = b] \in Nodes
    BY DEF TypeOK, Nodes
  <2>4. mem' \in Managers /\ tick' \in Ticks /\ node' \in Nodes
    <3> USE DEF Enter, StayIn, TypeOK, States, Phases
    <3>1. CASE AdvanceSyncing
      BY Zenon, <3>1, <2>1, <2>2 DEF AdvanceSyncing
    <3>2. CASE AdvanceWitnesses
      BY ZenonT(60), <3>2, <2>1, <2>2, <2>3 DEF AdvanceWitnesses
    <3>3. CASE AdvanceToVerifying
      BY ZenonT(60), <3>3, <2>1, <2>2, <2>3 DEF AdvanceToVerifying
    <3>4. ASSUME NEW drift \in BOOLEAN, AdvanceVerified(drift)
          PROVE  mem' \in Managers /\ tick' \in Ticks /\ node' \in Nodes
      BY Zenon, <3>4, <2>1, <2>2 DEF AdvanceVerified
    <3> QED BY <1>2, <3>1, <3>2, <3>3, <3>4 DEF AdvanceRepairPhases
  <2> QED BY SMTT(60), <1>2, <2>4 DEF AdvanceRepairPhases, TypeOK, Admitted
<1>3. CASE TickReadsLedger
  <2>1. tick' \in Ticks
    BY Zenon, <1>3 DEF TickReadsLedger, TypeOK, Ticks
  <2> QED BY <1>3, <2>1 DEF TickReadsLedger, TypeOK, Admitted
<1>4. CASE TickWritesLedger
  <2>1. tick.ledger \in Ledgers /\ tick.state \in States
    BY DEF TypeOK, Ticks
  <2>2. ledger' \in Ledgers
    <3>1. \A a \in 0..AttemptsMax :
             [tick.ledger EXCEPT !.state = tick.state, !.attempts = a] \in Ledgers
      BY Zenon, <2>1 DEF Ledgers
    <3>2. 0 \in 0..AttemptsMax /\ tick.ledger.attempts \in 0..AttemptsMax
      BY <2>1, RecoveryAssumption DEF Ledgers
    <3> QED BY Zenon, <1>4, <3>1, <3>2 DEF TickWritesLedger
  <2>3. past' \in Pasts
    <3>1. (past.waived \/ (sentinel /\ past.tainted # {})) \in BOOLEAN
      OBVIOUS
    <3> QED BY <1>4, <3>1, PastUpdates, Zenon DEF TickWritesLedger, TypeOK
  <2> QED BY ZenonT(60), <1>4, <2>2, <2>3 DEF TickWritesLedger, TypeOK, Admitted
<1>5. CASE NodeProgress
  <2>1. node' \in Nodes
    BY ZenonT(60), <1>5 DEF NodeProgress, NodeSyncs, WitnessesRebuilt, TipAdvances, TypeOK, Nodes
  <2> QED BY ZenonT(60), <1>5, <2>1 DEF NodeProgress, NodeSyncs, WitnessesRebuilt, TipAdvances,
                            TypeOK, Admitted
<1> QED BY <1>1, <1>2, <1>3, <1>4, <1>5 DEF SchedulerTick

LEMMA ProcessType ==
    TypeOK /\ Admitted /\ (\/ EnterQuarantine \/ NoteHeadlessFaultShutdown \/ Stop
                          \/ Crash \/ DayPasses \/ RunCrippledWait \/ PrepareShutdown
                          \/ Exit \/ Start)
        => TypeOK' /\ Admitted'
<1> SUFFICES ASSUME TypeOK, Admitted,
                    \/ EnterQuarantine \/ NoteHeadlessFaultShutdown \/ Stop
                    \/ Crash \/ DayPasses \/ RunCrippledWait \/ PrepareShutdown
                    \/ Exit \/ Start
             PROVE  TypeOK' /\ Admitted'
  OBVIOUS
<1> USE NewOK
<1>1. CASE EnterQuarantine
  <2>1. mem' \in Managers
    BY Zenon, <1>1 DEF EnterQuarantine, TypeOK, Managers, Findings
  <2>2. past' \in Pasts
    BY Zenon, <1>1 DEF EnterQuarantine, TypeOK, Pasts
  <2> QED BY <1>1, <2>1, <2>2 DEF EnterQuarantine, TypeOK, Admitted
<1>2. CASE NoteHeadlessFaultShutdown
  <2>1. mem' \in Managers
    BY Zenon, <1>2 DEF NoteHeadlessFaultShutdown, TypeOK, Managers
  <2> QED BY <1>2, <2>1 DEF NoteHeadlessFaultShutdown, TypeOK, Admitted
<1>3. CASE Stop \/ RunCrippledWait \/ Start
  BY ZenonT(60), <1>3 DEF Stop, RunCrippledWait, Start, TypeOK, Admitted
<1>4. CASE PrepareShutdown \/ Exit
  BY ZenonT(60), <1>4 DEF PrepareShutdown, Exit, TypeOK, Admitted
<1>5. CASE Crash
  <2>1. past' \in Pasts
    <3>1. past.lost + (IF wipe.at = "ledger" THEN 1 ELSE 0) \in Nat
      BY DEF TypeOK, Pasts
    <3> QED BY Zenon, <1>5, <3>1, PastUpdates DEF Crash, TypeOK
  <2>2. used' \in [arms : Nat, disarms : Nat, mishaps : Nat]
    BY <1>5, UsedUpdates DEF Crash, TypeOK
  <2> QED BY <1>5, <2>1, <2>2 DEF Crash, TypeOK, Admitted, NoArm
<1>6. CASE DayPasses
  <2>1. ledger' \in Ledgers
    BY Zenon, <1>6, LedgerUpdates DEF DayPasses, TypeOK, Ledgers
  <2>2. marker' \in Markers \cup {NoMarker}
    BY Zenon, <1>6 DEF DayPasses, TypeOK, Markers
  <2>3. used' \in [arms : Nat, disarms : Nat, mishaps : Nat]
    BY <1>6, UsedUpdates DEF DayPasses, TypeOK
  <2> QED BY SMTT(60), <1>6, <2>1, <2>2, <2>3 DEF DayPasses, TypeOK, Admitted
<1> QED BY <1>1, <1>2, <1>3, <1>4, <1>5, <1>6

LEMMA WipeType ==
    TypeOK /\ Admitted /\ (ExecuteMarkerWipe \/ RunStartupRepairTasks \/ Load)
        => TypeOK' /\ Admitted'
<1> SUFFICES ASSUME TypeOK, Admitted, ExecuteMarkerWipe \/ RunStartupRepairTasks \/ Load
             PROVE  TypeOK' /\ Admitted'
  OBVIOUS
<1> USE NewOK
<1>0. \A a \in {"ledger", "sentinel", "sweep", "over"} :
         [wipe EXCEPT !.at = a] \in Wipes /\ [NoWipe EXCEPT !.at = a] \in Wipes
  BY Zenon, WipeUpdates DEF TypeOK
<1>1. CASE RejectMarker
  <2>1. ledger' \in Ledgers
    BY Zenon, <1>1, LedgerUpdates DEF RejectMarker, TypeOK, States
  <2> QED BY SMTT(60), <1>0, <1>1, <2>1 DEF RejectMarker, TypeOK, Admitted
<1>2. CASE BeginWipe
  <2>1. marker \in Markers
    BY <1>2 DEF BeginWipe, TypeOK
  <2>2. wipe' \in Wipes
    BY Zenon, <1>2, <2>1 DEF BeginWipe, TypeOK, Wipes, Markers
  <2> QED BY ZenonT(60), <1>2, <2>2 DEF BeginWipe, TypeOK, Admitted
<1>3. ASSUME NEW t \in Targets, RemoveTarget(t)
      PROVE  TypeOK' /\ Admitted'
  <2>1. wipe' \in Wipes
    <3>1. wipe.todo \ {t} \in SUBSET Targets
      BY DEF TypeOK, Wipes
    <3>2. /\ [wipe EXCEPT !.todo = wipe.todo \ {t}] \in Wipes
          /\ [wipe EXCEPT !.todo = wipe.todo \ {t}, !.kept = TRUE] \in Wipes
      BY Zenon, <3>1, WipeUpdates DEF TypeOK
    <3> QED BY ZenonT(60), <1>3, <3>2 DEF RemoveTarget
  <2>2. past' \in Pasts
    <3>1. past.tainted \ {t} \in SUBSET Targets
      BY DEF TypeOK, Pasts
    <3> QED BY ZenonT(60), <1>3, <3>1, PastUpdates DEF RemoveTarget, TypeOK
  <2>3. used' \in [arms : Nat, disarms : Nat, mishaps : Nat]
    BY Zenon, <1>3, UsedUpdates DEF RemoveTarget, TypeOK
  <2>4. present' \subseteq Targets /\ tombs' \in BOOLEAN
    BY Zenon, <1>3 DEF RemoveTarget, TypeOK
  <2> QED BY <1>3, <2>1, <2>2, <2>3, <2>4 DEF RemoveTarget, TypeOK, Admitted
<1>4. CASE WipeIncomplete
  <2>1. ledger' \in Ledgers
    BY Zenon, <1>4, LedgerUpdates DEF WipeIncomplete, TypeOK, States
  <2> QED BY <1>0, <1>4, <2>1 DEF WipeIncomplete, TypeOK, Admitted
<1>5. CASE ConsumeMarker
  <2>1. past' \in Pasts
    <3>1. /\ past.full + (IF marker.scope = "full" THEN 1 ELSE 0) \in Nat
          /\ past.forced + (IF marker.scope = "full" /\ marker.force THEN 1 ELSE 0) \in Nat
      BY DEF TypeOK, Pasts
    <3> QED BY ZenonT(60), <1>5, <3>1, PastUpdates DEF ConsumeMarker, TypeOK
  <2> QED BY SMTT(60), <1>0, <1>5, <2>1 DEF ConsumeMarker, TypeOK, Admitted
<1>6. CASE RecordWipe
  <2>1. ledger' \in Ledgers
    BY Zenon, <1>6, LedgerUpdates DEF RecordWipe, TypeOK, States
  <2> QED BY <1>0, <1>6, <2>1 DEF RecordWipe, TypeOK, Admitted
<1>7. CASE ClearSentinel \/ SweepWipeTombstones
  BY ZenonT(60), <1>0, <1>7 DEF ClearSentinel, SweepWipeTombstones, TypeOK, Admitted
<1>8. CASE RunStartupRepairTasks
  <2>1. PICK rebuild \in BOOLEAN :
           /\ proc' = IF rebuild THEN "rebuilding" ELSE "loading"
           /\ sentinel' = (sentinel /\ ~rebuild)
           /\ past' = [past EXCEPT
                   !.waived = @ \/ (rebuild /\ sentinel /\ past.tainted # {})]
    BY <1>8 DEF RunStartupRepairTasks
  <2>2. past' \in Pasts
    <3>1. (past.waived \/ (rebuild /\ sentinel /\ past.tainted # {})) \in BOOLEAN
      OBVIOUS
    <3> QED BY <2>1, <3>1, PastUpdates, Zenon DEF TypeOK
  <2>3. sentinel' \in BOOLEAN
    BY <2>1
  <2> QED BY Zenon, <1>8, <2>1, <2>2, <2>3 DEF RunStartupRepairTasks, TypeOK, Admitted
<1>9. CASE Load
  <2>1. mem' \in Managers
    <3>1. Resumed \in Managers
      <4> DEFINE going == ledger.state \in {"wiped", "syncing", "rebuilding_witnesses",
                                            "verifying"}
                 p == IF going THEN "syncing"
                      ELSE IF ledger.state = "failed" THEN "failed" ELSE "none"
                 f == IF sentinel \/ abortFile THEN {"standing"} ELSE {}
      <4>1. going \in BOOLEAN /\ p \in Phases /\ f \in SUBSET Findings
        BY DEF Phases, Findings
      <4> HIDE DEF going, p, f
      <4>2. [NewManager EXCEPT !.inFlight = going, !.phase = p, !.quarantined = sentinel,
                               !.findings = f] \in Managers
        BY Zenon, <4>1 DEF Managers, TypeOK
      <4> QED BY <4>2 DEF Resumed, going, p, f
    <3> QED BY <1>9, <3>1 DEF Load
  <2>2. past' \in Pasts
    BY <1>9 DEF Load, TypeOK, Pasts
  <2> QED BY Zenon, <1>9, <2>1, <2>2 DEF Load, TypeOK, Admitted
<1> QED BY <1>1, <1>2, <1>3, <1>4, <1>5, <1>6, <1>7, <1>8, <1>9 DEF ExecuteMarkerWipe

LEMMA TypeStep == TypeOK /\ Admitted /\ [Next]_vars => TypeOK' /\ Admitted'
<1>1. TypeOK /\ Admitted /\ UNCHANGED vars => TypeOK' /\ Admitted'
  BY DEF vars, TypeOK, Admitted
<1> QED BY <1>1, ArmType, DisarmType, TickType, ProcessType, WipeType DEF Next, MainThread

LEMMA InitOK == Init => TypeOK /\ Admitted
<1> SUFFICES ASSUME Init PROVE TypeOK /\ Admitted
  OBVIOUS
<1>1. ledger \in Ledgers
  BY RecoveryAssumption, NewOK DEF Init, Ledgers, States
<1>2. marker \in Markers \cup {NoMarker}
  <2>1. [scope |-> "full", force |-> FALSE, stale |-> FALSE] \in Markers
    BY DEF Markers, Scopes
  <2> QED BY Zenon, <2>1 DEF Init
<1>3. past \in Pasts
  <2>1. ledger.wipes \in Nat
    BY <1>1 DEF Ledgers
  <2> QED BY <2>1 DEF Init, Pasts
<1>4. used \in [arms : Nat, disarms : Nat, mishaps : Nat]
  BY DEF Init
<1> QED BY Zenon, <1>1, <1>2, <1>3, <1>4, NewOK DEF Init, TypeOK, Admitted, NoArm

(* Every variable keeps its type.  The attempts of the ledger never exceed *)
(* their maximum: RepairArm writes the number it read before it wrote the  *)
(* marker, and every other writer of the ledger only lowers it.            *)
THEOREM RecoveryType == Spec => []TypeOK
BY InitOK, TypeStep, PTL DEF Spec

-----------------------------------------------------------------------------
(* Who runs when: a call of the manager only in a process that has not     *)
(* ended, a wipe only at the ends of a process, and from the marker that   *)
(* is still on disk.                                                       *)
LifeCycle ==
    /\ proc \notin {"held", "duty", "stopping"} => CallsDone
    /\ wipe.at # "none" => proc \in {"starting", "stopped"}
    /\ wipe.at = "targets" => marker # NoMarker /\ marker.scope = wipe.scope
    /\ wipe.at \in {"ledger", "sentinel", "sweep"} => marker = NoMarker

Base == TypeOK /\ Admitted /\ LifeCycle

LEMMA LifeCycleStep == Base /\ [Next]_vars => LifeCycle'
<1> SUFFICES ASSUME TypeOK, LifeCycle, [Next]_vars PROVE LifeCycle'
  BY DEF Base
<1> USE DEF LifeCycle, CallsDone
<1>1. CASE BeginArm
  BY <1>1 DEF BeginArm, Up
<1>2. CASE RepairArm
  <2>1. arm.at # "idle"
    BY <1>2 DEF RepairArm, ArmExhausted, ArmFails, ArmRateLimited, ArmAdmitted,
       WriteMarker, RecordAttempt, Armed
  <2>2. proc \in {"held", "duty", "stopping"} /\ proc' = proc /\ wipe' = wipe
    BY Zenon, <1>2, <2>1 DEF TypeOK, RepairArm, ArmExhausted, ArmFails, ArmRateLimited,
       ArmAdmitted, WriteMarker, RecordAttempt, Armed
  <2> QED BY <2>2
<1>3. CASE BeginDisarm
  BY <1>3 DEF BeginDisarm, Up
<1>4. CASE RepairDisarm
  <2>1. disarm.at # "idle"
    BY <1>4 DEF RepairDisarm, DisarmRead, DisarmWrite, Disarmed
  <2>2. proc \in {"held", "duty", "stopping"} /\ proc' = proc /\ wipe' = wipe
    BY <1>4, <2>1 DEF TypeOK, RepairDisarm, DisarmRead, DisarmWrite, Disarmed
  <2> QED BY <2>2
<1>5. CASE CollectSignals
  BY <1>5 DEF CollectSignals
<1>6. CASE SchedulerTick
  <2>1. tick.at # "idle"
    BY <1>6 DEF SchedulerTick, AdvanceRepairPhases, TickReadsLedger, TickWritesLedger
  <2>2. proc \in {"held", "duty", "stopping"} /\ proc' = proc /\ wipe' = wipe
    BY <1>6, <2>1 DEF TypeOK, SchedulerTick, AdvanceRepairPhases, TickReadsLedger,
       TickWritesLedger
  <2> QED BY <2>2
<1>7. CASE NodeProgress
  BY <1>7 DEF NodeProgress, NodeSyncs, WitnessesRebuilt, TipAdvances
<1>8. CASE EnterQuarantine \/ NoteHeadlessFaultShutdown
  BY <1>8 DEF EnterQuarantine, NoteHeadlessFaultShutdown
<1>9. CASE Stop \/ RunCrippledWait \/ PrepareShutdown
  BY Zenon, <1>9 DEF Stop, RunCrippledWait, PrepareShutdown, Up
<1>10. CASE Exit \/ Crash
  BY <1>10 DEF Exit, Crash, NoArm, NoDisarm, NoTick, NoWipe
<1>11. CASE DayPasses
  <2>1. CASE marker = NoMarker
    BY <1>11, <2>1 DEF DayPasses
  <2>2. CASE marker # NoMarker
    <3>1. marker' \in Markers /\ marker'.scope = marker.scope
      BY Zenon, <1>11, <2>2 DEF DayPasses, TypeOK, Markers
    <3> QED BY Zenon, <1>11, <2>2, <3>1, RecoveryAssumption DEF DayPasses
  <2> QED BY <2>1, <2>2
<1>12. CASE RejectMarker \/ WipeIncomplete
  <2>1. wipe'.at = "over" /\ proc \in {"starting", "stopped"}
    BY <1>12 DEF RejectMarker, WipeIncomplete, NoWipe, Wiping
  <2> QED BY <1>12, <2>1 DEF RejectMarker, WipeIncomplete
<1>13. CASE BeginWipe
  BY <1>13 DEF BeginWipe, Wiping
<1>14. ASSUME NEW t \in Targets, RemoveTarget(t) PROVE LifeCycle'
  <2>1. wipe'.at = wipe.at /\ wipe'.scope = wipe.scope
    BY Zenon, <1>14 DEF RemoveTarget, TypeOK, Wipes
  <2> QED BY <1>14, <2>1 DEF RemoveTarget
<1>15. CASE ConsumeMarker
  <2>1. wipe'.at = "ledger"
    BY <1>15 DEF ConsumeMarker, TypeOK, Wipes
  <2> QED BY <1>15, <2>1 DEF ConsumeMarker
<1>16. CASE RecordWipe \/ ClearSentinel
  <2>1. wipe'.at \in {"sentinel", "sweep"}
    BY <1>16 DEF RecordWipe, ClearSentinel, TypeOK, Wipes
  <2> QED BY <1>16, <2>1 DEF RecordWipe, ClearSentinel
<1>17. CASE SweepWipeTombstones
  BY <1>17 DEF SweepWipeTombstones, NoWipe
<1>18. CASE Start
  BY <1>18 DEF Start
<1>19. CASE RunStartupRepairTasks
  BY <1>19 DEF RunStartupRepairTasks, NoWipe
<1>20. CASE Load
  BY <1>20 DEF Load
<1>21. CASE UNCHANGED vars
  BY Zenon, <1>21 DEF vars
<1> QED BY Zenon, <1>1, <1>2, <1>3, <1>4, <1>5, <1>6, <1>7, <1>8, <1>9, <1>10, <1>11, <1>12,
           <1>13, <1>14, <1>15, <1>16, <1>17, <1>18, <1>19, <1>20, <1>21
        DEF Next, MainThread, ExecuteMarkerWipe

LEMMA BaseInvariant == Spec => []Base
<1>1. Init => Base
  BY InitOK DEF Init, Base, LifeCycle, CallsDone, NoArm, NoDisarm, NoTick, NoWipe
<1>2. Base /\ [Next]_vars => Base'
  BY TypeStep, LifeCycleStep DEF Base
<1> QED BY <1>1, <1>2, PTL DEF Spec

-----------------------------------------------------------------------------
(* The quarantine.  While databases found to have drifted are still there, *)
(* the sentinel is, unless it was waived; and a wipe that is about to      *)
(* remove the sentinel has left none of them.                              *)
Sentinel ==
    /\ past.tainted \subseteq present
    /\ past.tainted # {} /\ ~past.waived => sentinel
    /\ proc = "duty" /\ past.tainted # {} /\ ~past.waived => mem.quarantined
    /\ wipe.at = "targets" /\ wipe.scope = "full" /\ ~wipe.kept
          => past.tainted \subseteq wipe.todo
    /\ wipe.at \in {"ledger", "sentinel"} /\ wipe.scope = "full" => past.tainted = {}

(* What Sentinel speaks of, left alone. *)
SentinelFrame ==
    /\ proc' = "duty" => proc = "duty" /\ mem'.quarantined = mem.quarantined
    /\ past'.tainted = past.tainted /\ past'.waived = past.waived
    /\ UNCHANGED <<present, sentinel>>
    /\ wipe' = wipe \/ wipe'.at \in {"none", "sweep", "over"}

LEMMA SentinelFramed == Sentinel /\ SentinelFrame => Sentinel'
BY DEF Sentinel, SentinelFrame

LEMMA SentinelStep == Base /\ Sentinel /\ [Next]_vars => Sentinel'
<1> SUFFICES ASSUME TypeOK, LifeCycle, Sentinel, [Next]_vars PROVE Sentinel'
  BY DEF Base
<1>0. past \in Pasts /\ mem \in Managers /\ wipe \in Wipes
  BY DEF TypeOK
<1>1. CASE BeginArm \/ BeginDisarm
  <2>1. past'.tainted = past.tainted /\ past'.waived = past.waived
    BY ZenonT(60), <1>0, <1>1 DEF BeginArm, BeginDisarm, Pasts
  <2>2. SentinelFrame
    BY Zenon, <1>1, <2>1 DEF BeginArm, BeginDisarm, SentinelFrame
  <2> QED BY SMTT(60), <2>2, SentinelFramed
<1>2. CASE RepairArm
  <2>1. mem'.quarantined = mem.quarantined
    BY Zenon, <1>0, <1>2 DEF RepairArm, ArmExhausted, ArmFails, ArmRateLimited, ArmAdmitted,
       WriteMarker, RecordAttempt, Armed, Managers
  <2>2. SentinelFrame
    BY Zenon, <1>2, <2>1 DEF SentinelFrame, RepairArm, ArmExhausted, ArmFails, ArmRateLimited,
       ArmAdmitted, WriteMarker, RecordAttempt, Armed
  <2> QED BY <2>2, SentinelFramed
<1>3. CASE RepairDisarm
  <2>1. mem'.quarantined = mem.quarantined
    BY <1>0, <1>3 DEF RepairDisarm, DisarmRead, DisarmWrite, Disarmed, Managers
  <2>2. SentinelFrame
    BY <1>3, <2>1 DEF SentinelFrame, RepairDisarm, DisarmRead, DisarmWrite, Disarmed
  <2> QED BY <2>2, SentinelFramed
<1>4. CASE AdvanceRepairPhases
  <2>1. mem'.quarantined = mem.quarantined
    BY Zenon, <1>0, <1>4 DEF AdvanceRepairPhases, AdvanceSyncing, AdvanceWitnesses,
       AdvanceToVerifying, AdvanceVerified, Enter, StayIn, Managers
  <2>2. SentinelFrame
    BY <1>4, <2>1 DEF SentinelFrame, AdvanceRepairPhases
  <2> QED BY <2>2, SentinelFramed
<1>5. CASE CollectSignals \/ TickReadsLedger \/ NodeProgress
  <2>1. SentinelFrame
    BY <1>5 DEF SentinelFrame, CollectSignals, TickReadsLedger, NodeProgress, NodeSyncs,
       WitnessesRebuilt, TipAdvances
  <2> QED BY <2>1, SentinelFramed
<1>6. CASE TickWritesLedger
  <2>1. CASE tick.state = "done"
    <3>1. /\ past'.tainted = past.tainted
          /\ past'.waived = (past.waived \/ (sentinel /\ past.tainted # {}))
      BY <1>0, <1>6, <2>1 DEF TickWritesLedger, Pasts
    <3> QED BY Zenon, <1>6, <2>1, <3>1 DEF Sentinel, TickWritesLedger
  <2>2. CASE tick.state # "done"
    BY <1>6, <2>2, SentinelFramed DEF SentinelFrame, TickWritesLedger
  <2> QED BY <2>1, <2>2
<1>7. CASE EnterQuarantine
  <2>1. past'.tainted = present /\ mem'.quarantined
    BY <1>0, <1>7 DEF EnterQuarantine, Pasts, Managers
  <2>2. wipe.at = "none"
    BY <1>7 DEF EnterQuarantine, LifeCycle
  <2> QED BY <1>7, <2>1, <2>2 DEF Sentinel, EnterQuarantine
<1>8. CASE \/ NoteHeadlessFaultShutdown \/ Stop \/ RunCrippledWait \/ PrepareShutdown
           \/ Exit \/ Start \/ DayPasses
  <2>1. SentinelFrame
    BY <1>8 DEF SentinelFrame, NoteHeadlessFaultShutdown, Stop, RunCrippledWait,
       PrepareShutdown, Exit, Start, DayPasses, NoWipe
  <2> QED BY <2>1, SentinelFramed
<1>9. CASE Crash
  <2>1. past'.tainted = past.tainted /\ past'.waived = past.waived
    BY <1>0, <1>9 DEF Crash, Pasts
  <2> QED BY <1>9, <2>1, SentinelFramed DEF SentinelFrame, Crash, NoWipe
<1>10. CASE RejectMarker \/ WipeIncomplete \/ SweepWipeTombstones
  <2>1. SentinelFrame
    BY <1>10 DEF SentinelFrame, RejectMarker, WipeIncomplete, SweepWipeTombstones, NoWipe
  <2> QED BY <2>1, SentinelFramed
<1>11. CASE BeginWipe
  BY Zenon, <1>11 DEF Sentinel, BeginWipe
<1>12. ASSUME NEW t \in Targets, RemoveTarget(t) PROVE Sentinel'
  <2>1. CASE present' = present \ {t} /\ past' = [past EXCEPT !.tainted = @ \ {t}]
             /\ wipe' = [wipe EXCEPT !.todo = @ \ {t}]
    <3>1. /\ past'.tainted = past.tainted \ {t} /\ past'.waived = past.waived
          /\ wipe'.todo = wipe.todo \ {t} /\ wipe'.at = wipe.at
          /\ wipe'.scope = wipe.scope /\ wipe'.kept = wipe.kept
      BY <1>0, <2>1 DEF Pasts, Wipes
    <3> QED BY <1>12, <2>1, <3>1 DEF Sentinel, RemoveTarget
  <2>2. CASE UNCHANGED <<present, past>> /\ wipe' = [wipe EXCEPT !.todo = @ \ {t}, !.kept = TRUE]
    <3>1. wipe'.at = wipe.at /\ wipe'.kept = TRUE
      BY <1>0, <2>2 DEF Wipes
    <3> QED BY <1>12, <2>2, <3>1 DEF Sentinel, RemoveTarget
  <2> QED BY Zenon, <1>12, <2>1, <2>2 DEF RemoveTarget
<1>13. CASE ConsumeMarker
  <2>1. /\ past'.tainted = past.tainted /\ past'.waived = past.waived
        /\ wipe'.at = "ledger" /\ wipe'.scope = wipe.scope
    BY <1>0, <1>13 DEF ConsumeMarker, Pasts, Wipes
  <2> QED BY <1>13, <2>1 DEF Sentinel, ConsumeMarker
<1>14. CASE RecordWipe
  <2>1. wipe'.at = "sentinel" /\ wipe'.scope = wipe.scope
    BY <1>0, <1>14 DEF RecordWipe, Wipes
  <2> QED BY <1>14, <2>1 DEF Sentinel, RecordWipe
<1>15. CASE ClearSentinel
  <2>1. wipe'.at = "sweep"
    BY <1>0, <1>15 DEF ClearSentinel, Wipes
  <2> QED BY Zenon, <1>15, <2>1 DEF Sentinel, ClearSentinel
<1>16. CASE RunStartupRepairTasks
  <2>1. PICK rebuild \in BOOLEAN :
           /\ proc' = IF rebuild THEN "rebuilding" ELSE "loading"
           /\ sentinel' = (sentinel /\ ~rebuild)
           /\ past' = [past EXCEPT
                   !.waived = @ \/ (rebuild /\ sentinel /\ past.tainted # {})]
    BY <1>16 DEF RunStartupRepairTasks
  <2>2. /\ past'.tainted = past.tainted
        /\ past'.waived = (past.waived \/ (rebuild /\ sentinel /\ past.tainted # {}))
    BY <1>0, <2>1 DEF Pasts
  <2> QED BY Zenon, <1>16, <2>1, <2>2 DEF Sentinel, RunStartupRepairTasks, NoWipe
<1>17. CASE Load
  <2>1. past'.tainted \subseteq past.tainted /\ past'.waived = past.waived
    BY <1>0, <1>17 DEF Load, Pasts
  <2>2. past.tainted \subseteq Targets /\ wipe.at = "none"
    BY <1>0, <1>17 DEF Pasts, Load, LifeCycle
  <2>3. proc' = "duty" => ~sentinel
    BY <1>17 DEF Load
  <2> QED BY <1>17, <2>1, <2>2, <2>3 DEF Sentinel, Load
<1>18. CASE UNCHANGED vars
  BY Zenon, <1>18 DEF vars, Sentinel
<1> QED BY Zenon, <1>1, <1>2, <1>3, <1>4, <1>5, <1>6, <1>7, <1>8, <1>9, <1>10, <1>11, <1>12,
           <1>13, <1>14, <1>15, <1>16, <1>17, <1>18
        DEF Next, MainThread, SchedulerTick, ExecuteMarkerWipe

(* A quarantined node stays out of duty, for any set of databases and any  *)
(* number of crashes, arms, disarms and failed removals: ExecuteMarkerWipe *)
(* removes the sentinel only after all the databases are gone, and Load    *)
(* does not go to duty past a sentinel.                                    *)
THEOREM RecoveryQuarantine == Spec => []QuarantineHolds
<1>1. Init => Sentinel
  BY DEF Init, Sentinel, NoWipe
<1>2. Sentinel => QuarantineHolds
  BY Zenon DEF Sentinel, QuarantineHolds
<1> QED BY <1>1, <1>2, BaseInvariant, SentinelStep, PTL DEF Spec

-----------------------------------------------------------------------------
(* The wipe-rate guard.  The ledger counts the full wipes that were        *)
(* carried out; no call in progress holds an older count; and a marker     *)
(* that was not forced is on disk only while there is room for its wipe.   *)
Unrecorded == IF wipe.at = "ledger" /\ wipe.scope = "full" THEN 1 ELSE 0

Counted ==
    /\ past.full <= ledger.wipes + past.lost + Unrecorded
    /\ arm.at \in {"marker", "ledger"} => arm.ledger.wipes = ledger.wipes
    /\ disarm.at = "write" => disarm.ledger.wipes = ledger.wipes
    /\ tick.at = "write" => tick.ledger.wipes = ledger.wipes

Room ==
    /\ arm.at = "marker" /\ arm.scope = "full" /\ ~arm.force => ledger.wipes < WipesMax
    /\ marker # NoMarker /\ marker.scope = "full" /\ ~marker.force
          => ledger.wipes < WipesMax

Guarded == Counted /\ Room /\ WipeGuard

(* The counts that Guarded speaks of, left alone. *)
CountFrame ==
    /\ ledger'.wipes = ledger.wipes
    /\ past'.full = past.full /\ past'.lost = past.lost /\ past'.forced = past.forced
    /\ Unrecorded' = Unrecorded

(* The calls in progress, but for one that begins or ends. *)
CallFrame ==
    /\ arm' = arm \/ arm'.at \notin {"marker", "ledger"}
    /\ disarm' = disarm \/ disarm'.at # "write"
    /\ tick' = tick \/ tick'.at # "write"

LEMMA GuardFramed ==
    ASSUME Guarded, CountFrame, CallFrame, marker' = marker \/ marker' = NoMarker
    PROVE  Guarded'
BY Zenon DEF Guarded, Counted, Room, WipeGuard, CountFrame, CallFrame

LEMMA GuardCalls ==
    Base /\ Guarded /\ (BeginArm \/ RepairArm \/ BeginDisarm \/ RepairDisarm) => Guarded'
<1> SUFFICES ASSUME TypeOK, Guarded, BeginArm \/ RepairArm \/ BeginDisarm \/ RepairDisarm
             PROVE  Guarded'
  BY DEF Base
<1>0. /\ past \in Pasts /\ arm \in Arms /\ disarm \in Disarms /\ ledger \in Ledgers
      /\ arm.ledger \in Ledgers /\ disarm.ledger \in Ledgers
  BY SMTT(60) DEF TypeOK, Arms, Disarms
<1>1. CASE BeginArm \/ BeginDisarm
  <2>1. CountFrame
    BY ZenonT(60), <1>0, <1>1 DEF CountFrame, BeginArm, BeginDisarm, Unrecorded, Pasts
  <2>2. CallFrame
    BY Zenon, <1>0, <1>1 DEF CallFrame, BeginArm, BeginDisarm, NoArm, NoDisarm
  <2> QED BY ZenonT(60), <1>1, <2>1, <2>2, GuardFramed DEF BeginArm, BeginDisarm
<1>2. CASE ArmExhausted \/ ArmFails \/ ArmRateLimited \/ Armed \/ Disarmed
  <2>1. CountFrame
    BY Zenon, <1>0, <1>2 DEF CountFrame, ArmExhausted, ArmFails, ArmRateLimited, Armed, Disarmed,
       Unrecorded, Ledgers
  <2>2. CallFrame
    BY <1>0, <1>2 DEF CallFrame, ArmExhausted, ArmFails, ArmRateLimited, Armed, Disarmed,
       NoArm, NoDisarm, Arms
  <2> QED BY Zenon, <1>2, <2>1, <2>2, GuardFramed
        DEF ArmExhausted, ArmFails, ArmRateLimited, Armed, Disarmed
<1>3. CASE ArmAdmitted
  <2>1. /\ arm'.at = "marker" /\ arm'.ledger = ledger
        /\ arm'.scope = arm.scope /\ arm'.force = arm.force
    BY <1>0, <1>3 DEF ArmAdmitted, Arms
  <2>2. arm.scope = "full" /\ ~arm.force => ledger.wipes < WipesMax
    BY <1>0, <1>3, RecoveryAssumption DEF ArmAdmitted, RateLimited, Ledgers
  <2> QED BY <1>3, <2>1, <2>2
        DEF ArmAdmitted, Guarded, Counted, Room, WipeGuard, Unrecorded
<1>4. CASE WriteMarker
  <2>1. arm'.at = "ledger" /\ arm'.ledger = arm.ledger
    BY <1>0, <1>4 DEF WriteMarker, Arms
  <2>2. marker'.scope = arm.scope /\ marker'.force = arm.force
    BY <1>4 DEF WriteMarker
  <2> QED BY <1>4, <2>1, <2>2
        DEF WriteMarker, Guarded, Counted, Room, WipeGuard, Unrecorded
<1>5. CASE RecordAttempt
  <2>1. ledger'.wipes = ledger.wipes
    BY <1>0, <1>5 DEF RecordAttempt, Ledgers, Guarded, Counted
  <2>2. CountFrame
    BY <1>5, <2>1 DEF CountFrame, RecordAttempt, Unrecorded
  <2>3. CallFrame
    BY <1>0, <1>5 DEF CallFrame, RecordAttempt, Arms
  <2> QED BY <1>5, <2>2, <2>3, GuardFramed DEF RecordAttempt
<1>6. CASE DisarmRead
  <2>1. disarm'.ledger.wipes = ledger.wipes
    BY Zenon, <1>0, <1>6 DEF DisarmRead, Disarms, Ledgers
  <2> QED BY <1>6, <2>1 DEF DisarmRead, Guarded, Counted, Room, WipeGuard, Unrecorded
<1>7. CASE DisarmWrite
  <2>1. CountFrame
    BY <1>7 DEF CountFrame, DisarmWrite, Unrecorded, Guarded, Counted
  <2>2. CallFrame
    BY <1>0, <1>7 DEF CallFrame, DisarmWrite, Disarms
  <2> QED BY <1>7, <2>1, <2>2, GuardFramed DEF DisarmWrite
<1> QED BY <1>1, <1>2, <1>3, <1>4, <1>5, <1>6, <1>7 DEF RepairArm, RepairDisarm

LEMMA GuardOther ==
    Base /\ Guarded /\ [Next]_vars
         /\ ~(BeginArm \/ RepairArm \/ BeginDisarm \/ RepairDisarm) => Guarded'
<1> SUFFICES ASSUME TypeOK, LifeCycle, Guarded, [Next]_vars,
                    ~(BeginArm \/ RepairArm \/ BeginDisarm \/ RepairDisarm)
             PROVE  Guarded'
  BY DEF Base
<1>0. /\ past \in Pasts /\ tick \in Ticks /\ ledger \in Ledgers /\ wipe \in Wipes
      /\ tick.ledger \in Ledgers /\ (marker # NoMarker => marker \in Markers)
  BY DEF TypeOK, Ticks
<1>1. CASE CollectSignals \/ AdvanceRepairPhases \/ NodeProgress
  <2>1. CountFrame /\ marker' = marker
    BY <1>1 DEF CountFrame, Unrecorded, CollectSignals, AdvanceRepairPhases, NodeProgress,
       NodeSyncs, WitnessesRebuilt, TipAdvances
  <2>2. tick' = tick \/ tick'.at # "write"
    <3>1. CASE CollectSignals \/ NodeProgress
      BY <3>1 DEF CollectSignals, NodeProgress, NodeSyncs, WitnessesRebuilt, TipAdvances,
         NoTick
    <3>2. CASE AdvanceRepairPhases
      <4>0. NoTick.at = "idle" /\ \A s : [tick EXCEPT !.at = "read", !.state = s].at = "read"
        BY <1>0 DEF NoTick, Ticks
      <4> USE DEF Enter, StayIn
      <4>1. AdvanceSyncing => tick'.at # "write"
        BY Zenon, <4>0 DEF AdvanceSyncing
      <4>2. AdvanceWitnesses => tick'.at # "write"
        BY Zenon, <4>0 DEF AdvanceWitnesses
      <4>3. AdvanceToVerifying => tick'.at # "write"
        BY <4>0 DEF AdvanceToVerifying
      <4>4. \A drift \in BOOLEAN : AdvanceVerified(drift) => tick'.at # "write"
        BY Zenon, <4>0 DEF AdvanceVerified
      <4> QED BY <3>2, <4>1, <4>2, <4>3, <4>4 DEF AdvanceRepairPhases
    <3> QED BY <1>1, <3>1, <3>2
  <2>3. CallFrame
    BY Zenon, <1>1, <2>2 DEF CallFrame, CollectSignals, AdvanceRepairPhases, NodeProgress,
       NodeSyncs, WitnessesRebuilt, TipAdvances
  <2> QED BY <2>1, <2>3, GuardFramed
<1>2. CASE TickReadsLedger
  <2>1. tick'.ledger = ledger
    BY <1>0, <1>2 DEF TickReadsLedger, Ticks
  <2> QED BY <1>2, <2>1 DEF TickReadsLedger, Guarded, Counted, Room, WipeGuard, Unrecorded
<1>3. CASE TickWritesLedger
  <2>1. ledger'.wipes = ledger.wipes
    BY <1>0, <1>3 DEF TickWritesLedger, Ledgers, Guarded, Counted
  <2>2. past'.full = past.full /\ past'.lost = past.lost /\ past'.forced = past.forced
    BY <1>0, <1>3 DEF TickWritesLedger, Pasts
  <2> QED BY <1>3, <2>1, <2>2, GuardFramed
        DEF TickWritesLedger, CountFrame, CallFrame, NoTick, Unrecorded
<1>4. CASE EnterQuarantine \/ NoteHeadlessFaultShutdown
  <2>1. past'.full = past.full /\ past'.lost = past.lost /\ past'.forced = past.forced
    BY Zenon, <1>0, <1>4 DEF EnterQuarantine, NoteHeadlessFaultShutdown, Pasts
  <2> QED BY <1>4, <2>1, GuardFramed
        DEF EnterQuarantine, NoteHeadlessFaultShutdown, CountFrame, CallFrame, Unrecorded
<1>5. CASE Stop \/ RunCrippledWait \/ PrepareShutdown \/ Start \/ UNCHANGED vars
  <2>1. CountFrame /\ CallFrame /\ marker' = marker
    BY Zenon, <1>5 DEF Stop, RunCrippledWait, PrepareShutdown, Start, vars, CountFrame,
       CallFrame, Unrecorded
  <2> QED BY <2>1, GuardFramed
<1>6. CASE Exit
  <2>1. Unrecorded = 0 /\ Unrecorded' = 0
    BY <1>6 DEF Exit, WipeOver, NoWipe, Unrecorded
  <2> QED BY <1>6, <2>1, GuardFramed DEF Exit, CountFrame, CallFrame
<1>7. CASE Crash
  <2>1. /\ past'.full = past.full /\ past'.forced = past.forced
        /\ past'.lost = past.lost + (IF wipe.at = "ledger" THEN 1 ELSE 0)
        /\ past.full \in Nat /\ past.lost \in Nat /\ past.forced \in Nat
        /\ ledger.wipes \in Nat
    BY <1>0, <1>7 DEF Crash, Pasts, Ledgers
  <2>2. Counted'
    BY <1>7, <2>1 DEF Crash, Guarded, Counted, Unrecorded, NoArm, NoDisarm, NoTick, NoWipe
  <2>3. Room'
    BY <1>7 DEF Crash, Guarded, Room, NoArm
  <2>4. WipeGuard'
    BY SMTT(60), <2>1, RecoveryAssumption DEF Guarded, WipeGuard
  <2> QED BY <2>2, <2>3, <2>4 DEF Guarded
<1>8. CASE DayPasses
  <2>1. ledger'.wipes = ledger.wipes
    BY <1>0, <1>8 DEF DayPasses, Ledgers
  <2>2. CountFrame /\ CallFrame
    BY <1>8, <2>1 DEF DayPasses, CountFrame, CallFrame, Unrecorded
  <2>3. marker' # NoMarker =>
           marker # NoMarker /\ marker'.scope = marker.scope /\ marker'.force = marker.force
    BY <1>0, <1>8 DEF DayPasses, Markers
  <2> QED BY ZenonT(60), <2>2, <2>3 DEF Guarded, Counted, Room, WipeGuard, CountFrame, CallFrame
<1>9. CASE RejectMarker \/ WipeIncomplete
  <2>1. ledger'.wipes = ledger.wipes
    BY <1>0, <1>9 DEF RejectMarker, WipeIncomplete, Ledgers
  <2>2. Unrecorded = 0 /\ Unrecorded' = 0
    BY <1>9 DEF RejectMarker, WipeIncomplete, NoWipe, Unrecorded
  <2> QED BY <1>9, <2>1, <2>2, GuardFramed
        DEF RejectMarker, WipeIncomplete, CountFrame, CallFrame
<1>10. CASE BeginWipe
  <2>1. Unrecorded = 0 /\ Unrecorded' = 0
    BY <1>10 DEF BeginWipe, Unrecorded
  <2> QED BY Zenon, <1>10, <2>1, GuardFramed DEF BeginWipe, CountFrame, CallFrame
<1>11. ASSUME NEW t \in Targets, RemoveTarget(t) PROVE Guarded'
  <2>1. past'.full = past.full /\ past'.lost = past.lost /\ past'.forced = past.forced
    BY Zenon, <1>0, <1>11 DEF RemoveTarget, Pasts
  <2>2. wipe.at = "targets" /\ wipe'.at = wipe.at
    BY Zenon, <1>0, <1>11 DEF RemoveTarget, Wipes
  <2>3. CountFrame
    BY <1>11, <2>1, <2>2 DEF RemoveTarget, CountFrame, Unrecorded
  <2> QED BY <1>11, <2>3, GuardFramed DEF RemoveTarget, CallFrame
<1>12. CASE ConsumeMarker
  <2>1. /\ past'.full = past.full + (IF marker.scope = "full" THEN 1 ELSE 0)
        /\ past'.forced = past.forced
                + (IF marker.scope = "full" /\ marker.force THEN 1 ELSE 0)
        /\ past'.lost = past.lost
    BY <1>0, <1>12 DEF ConsumeMarker, Pasts
  <2>2. /\ marker # NoMarker /\ marker.scope = wipe.scope
        /\ Unrecorded = 0 /\ Unrecorded' = IF wipe.scope = "full" THEN 1 ELSE 0
    BY <1>0, <1>12 DEF ConsumeMarker, LifeCycle, Unrecorded, Wipes
  <2>3. past.full \in Nat /\ past.lost \in Nat /\ past.forced \in Nat /\ ledger.wipes \in Nat
    BY <1>0 DEF Pasts, Ledgers
  <2>4. Counted'
    BY <1>12, <2>1, <2>2, <2>3 DEF ConsumeMarker, Guarded, Counted
  <2>5. Room'
    BY <1>12 DEF ConsumeMarker, Guarded, Room
  <2>6. WipeGuard'
    BY <2>1, <2>2, <2>3, RecoveryAssumption DEF Guarded, Counted, Room, WipeGuard
  <2> QED BY <2>4, <2>5, <2>6 DEF Guarded
<1>13. CASE RecordWipe
  <2>1. ledger'.wipes = ledger.wipes + 1 /\ wipe'.at = "sentinel"
    BY <1>0, <1>13 DEF RecordWipe, Ledgers, Wipes
  <2>2. CallsDone /\ marker = NoMarker
    BY <1>0, <1>13 DEF RecordWipe, LifeCycle
  <2>3. past.full \in Nat /\ past.lost \in Nat /\ ledger.wipes \in Nat
    BY <1>0 DEF Pasts, Ledgers
  <2>4. Counted'
    BY <1>13, <2>1, <2>2, <2>3 DEF RecordWipe, Guarded, Counted, Unrecorded, CallsDone
  <2>5. Room' /\ WipeGuard'
    BY <1>13, <2>2 DEF RecordWipe, Guarded, Room, WipeGuard, CallsDone
  <2> QED BY <2>4, <2>5 DEF Guarded
<1>14. CASE ClearSentinel \/ SweepWipeTombstones
  <2>1. Unrecorded = 0 /\ Unrecorded' = 0
    BY <1>0, <1>14 DEF ClearSentinel, SweepWipeTombstones, NoWipe, Wipes, Unrecorded
  <2> QED BY <1>14, <2>1, GuardFramed
        DEF ClearSentinel, SweepWipeTombstones, CountFrame, CallFrame
<1>15. CASE RunStartupRepairTasks
  <2>1. past'.full = past.full /\ past'.lost = past.lost /\ past'.forced = past.forced
    BY <1>0, <1>15 DEF RunStartupRepairTasks, Pasts
  <2>2. Unrecorded = 0 /\ Unrecorded' = 0
    BY <1>15 DEF RunStartupRepairTasks, WipeOver, NoWipe, Unrecorded
  <2> QED BY <1>15, <2>1, <2>2, GuardFramed DEF RunStartupRepairTasks, CountFrame, CallFrame
<1>16. CASE Load
  <2>1. past'.full = past.full /\ past'.lost = past.lost /\ past'.forced = past.forced
    BY <1>0, <1>16 DEF Load, Pasts
  <2> QED BY <1>16, <2>1, GuardFramed DEF Load, CountFrame, CallFrame, Unrecorded
<1> QED BY Zenon, <1>1, <1>2, <1>3, <1>4, <1>5, <1>6, <1>7, <1>8, <1>9, <1>10, <1>11, <1>12,
           <1>13, <1>14, <1>15, <1>16
        DEF Next, MainThread, SchedulerTick, ExecuteMarkerWipe

(* The wipe-rate guard holds for any limit and any number of calls: no     *)
(* call of RepairArm, RepairDisarm or the tick that straddles a wipe       *)
(* writes back a ledger from before it, because ExecuteMarkerWipe runs     *)
(* when no call is in progress.                                            *)
THEOREM RecoveryWipeGuard == Spec => []WipeGuard
<1>1. Init => Guarded
  BY RecoveryAssumption DEF Init, Guarded, Counted, Room, WipeGuard, Unrecorded, NewLedger,
     NoArm, NoDisarm, NoTick, NoWipe
<1>2. Guarded => WipeGuard
  BY DEF Guarded
<1> QED BY <1>1, <1>2, BaseInvariant, GuardCalls, GuardOther, PTL DEF Spec
=============================================================================
