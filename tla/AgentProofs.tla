----------------------------- MODULE AgentProofs -----------------------------
(***************************************************************************)
(* What the process guarantees, for all values of the constants of its two *)
(* parts: upgrades do not break the bridge's promise, nor do signals break *)
(* upgrades.  The steps of the parts keep the parts' invariants, by the    *)
(* proofs of PollLoopProofs and SelfUpdateProofs; what is left are the     *)
(* steps in which the parts meet.                                          *)
(***************************************************************************)
EXTENDS Agent, TLAPS

SP == INSTANCE SelfUpdateProofs
LP == INSTANCE PollLoopProofs

(***************************************************************************)
(* The parts as their proofs name them.                                    *)
(***************************************************************************)
LEMMA Assumptions == SP!UpdateAssumption /\ LP!EnvAssumption /\ LP!BackoffAssumption
  <1>1. SP!UpdateAssumption
    BY AgentAssumption
  <1>2. P!IsFiniteSet(Env) <=> LP!IsFiniteSet(Env)
    BY DEF P!IsFiniteSet, LP!IsFiniteSet
  <1>3. LP!EnvAssumption
    BY <1>2, AgentAssumption DEF P!Ops, LP!Ops
  <1>4. LP!BackoffAssumption
    BY AgentAssumption
  <1>5. QED
    BY <1>1, <1>3, <1>4

LEMMA LoopNames ==
    /\ P!Init <=> LP!Init
    /\ P!Core <=> LP!Core
    /\ P!Core' <=> LP!Core'
    /\ P!AnswerInv <=> LP!AnswerInv
    /\ P!AnswerInv' <=> LP!AnswerInv'
  <1>1. P!Init <=> LP!Init
    BY DEF P!Init, LP!Init
  <1>2. P!AnswerInv <=> LP!AnswerInv
    BY DEF P!AnswerInv, LP!AnswerInv, P!Verdicts, LP!Verdicts
  <1>3. P!AnswerInv' <=> LP!AnswerInv'
    BY DEF P!AnswerInv, LP!AnswerInv, P!Verdicts, LP!Verdicts
  <1>4. /\ P!TypeOK <=> LP!TypeOK
        /\ P!TypeOK' <=> LP!TypeOK'
    BY DEF P!TypeOK, LP!TypeOK, P!Verdicts, LP!Verdicts, P!LoopStates, LP!LoopStates,
           P!HandlerState, LP!HandlerState, P!Live, LP!Live
  <1>5. QED
    BY <1>1, <1>2, <1>3, <1>4
    DEF P!Core, LP!Core, P!PlaceInv, LP!PlaceInv, P!LifeInv, LP!LifeInv, P!CallInv, LP!CallInv,
        P!ResultInv, LP!ResultInv, P!KnownInv, LP!KnownInv, P!DeadlineInv, LP!DeadlineInv,
        P!AtMostOnce, LP!AtMostOnce, P!AnswerOrdersCalls, LP!AnswerOrdersCalls,
        P!EffectSet, LP!EffectSet, P!Live, LP!Live

LEMMA UpdateNames ==
    /\ S!Init <=> SP!Init
    /\ S!PlaceInv <=> SP!PlaceInv
    /\ S!PlaceInv' <=> SP!PlaceInv'
    /\ S!TypeOK <=> SP!TypeOK
    /\ S!TypeOK' <=> SP!TypeOK'
    /\ S!FilesInv <=> SP!FilesInv
    /\ S!FilesInv' <=> SP!FilesInv'
    /\ S!TurnInv <=> SP!TurnInv
    /\ S!TurnInv' <=> SP!TurnInv'
    /\ S!TimerInv <=> SP!TimerInv
    /\ S!TimerInv' <=> SP!TimerInv'
  <1>1. S!Init <=> SP!Init
    BY DEF S!Init, SP!Init
  <1>2. /\ S!TypeOK <=> SP!TypeOK
        /\ S!TypeOK' <=> SP!TypeOK'
    BY DEF S!TypeOK, SP!TypeOK, S!UpdSteps, SP!UpdSteps, S!Stale, SP!Stale, S!Trial, SP!Trial
  <1>3. /\ S!PlaceInv <=> SP!PlaceInv
        /\ S!PlaceInv' <=> SP!PlaceInv'
    BY DEF S!PlaceInv, SP!PlaceInv, S!Up, SP!Up, S!Applicable, SP!Applicable, S!Installing,
           SP!Installing
  <1>4. /\ S!FilesInv <=> SP!FilesInv
        /\ S!FilesInv' <=> SP!FilesInv'
    BY DEF S!FilesInv, SP!FilesInv, S!Up, SP!Up, S!Installing, SP!Installing, S!Stale, SP!Stale
  <1>5. /\ S!TurnInv <=> SP!TurnInv
        /\ S!TurnInv' <=> SP!TurnInv'
    BY DEF S!TurnInv, SP!TurnInv, S!Installing, SP!Installing
  <1>6. /\ S!TimerInv <=> SP!TimerInv
        /\ S!TimerInv' <=> SP!TimerInv'
    BY DEF S!TimerInv, SP!TimerInv
  <1>7. QED
    BY <1>1, <1>2, <1>3, <1>4, <1>5, <1>6

LEMMA LoopStepNames ==
    /\ P!Loop <=> LP!Loop
    /\ P!PollFails <=> LP!PollFails
    /\ P!Services <=> LP!Services
    /\ P!Signal <=> LP!Signal
    /\ P!MainExits <=> LP!MainExits
    /\ P!Restart <=> LP!Restart
    /\ P!ProcessEnds <=> LP!ProcessEnds
  BY DEF P!Loop, LP!Loop, P!LoopTop, LP!LoopTop, P!PollEmpty, LP!PollEmpty, P!PollEnvelope,
         LP!PollEnvelope, P!PollCancelled, LP!PollCancelled, P!Wake, LP!Wake, P!PollSucceeded,
         LP!PollSucceeded, P!NextBackoff, LP!NextBackoff, P!PollFails, LP!PollFails, P!Jitter,
         LP!Jitter, P!Services, LP!Services, P!CpPop, LP!CpPop, P!CpPush, LP!CpPush,
         P!VaultApplies, LP!VaultApplies, P!CpReceives, LP!CpReceives, P!Signal, LP!Signal,
         P!Running, LP!Running, P!MainExits, LP!MainExits, P!Restart, LP!Restart,
         P!ProcessEnds, LP!ProcessEnds, P!Live, LP!Live, P!cpVars, LP!cpVars, P!loopVars,
         LP!loopVars, P!handVars, LP!handVars, P!vaultVars, LP!vaultVars, P!histVars,
         LP!histVars

LEMMA HandlerStepNames ==
    ASSUME NEW e \in Env
    PROVE  /\ P!Handler(e) <=> LP!Handler(e)
           /\ P!HandlerFaults(e) <=> LP!HandlerFaults(e)
  BY DEF P!Handler, LP!Handler, P!HandleUnknown, LP!HandleUnknown, P!HandleCancelled,
         LP!HandleCancelled, P!HandleCall, LP!HandleCall, P!CallReturns, LP!CallReturns, P!Post,
         LP!Post, P!PostRefused, LP!PostRefused, P!PostEnds, LP!PostEnds, P!Ends, LP!Ends, P!HandlerFaults,
         LP!HandlerFaults, P!CallFails, LP!CallFails, P!PostFails, LP!PostFails, P!Elapse,
         LP!Elapse, P!Dispatched, LP!Dispatched, P!CtxDead, LP!CtxDead, P!Ops, LP!Ops,
         P!cpVars, LP!cpVars, P!loopVars, LP!loopVars, P!handVars, LP!handVars, P!vaultVars,
         LP!vaultVars, P!histVars, LP!histVars

LEMMA BootStepNames ==
    /\ S!Start <=> SP!Start
    /\ S!CheckNothing \/ S!CheckMarker <=> SP!CheckNothing \/ SP!CheckMarker
    /\ S!Restore \/ S!RestoreFails \/ S!Unmark <=> SP!Restore \/ SP!RestoreFails \/ SP!Unmark
    /\ S!ReportReverted <=> SP!ReportReverted
    /\ S!CleanMarker \/ S!CleanPrevious <=> SP!CleanMarker \/ SP!CleanPrevious
    /\ S!Crash <=> SP!Crash
    /\ S!Exec <=> SP!Exec
  <1> USE DEF S!diskVars, SP!diskVars, S!updVars, SP!updVars, S!bootVars, SP!bootVars,
              S!outVars, SP!outVars, S!histVars, SP!histVars, S!Up, SP!Up
  <1>1. S!Start <=> SP!Start
    BY DEF S!Start, SP!Start, S!Boots, SP!Boots, S!Runnable, SP!Runnable, S!Up, SP!Up
  <1>2. S!CheckNothing \/ S!CheckMarker <=> SP!CheckNothing \/ SP!CheckMarker
    BY DEF S!CheckNothing, SP!CheckNothing, S!CheckMarker, SP!CheckMarker, S!GoRun, SP!GoRun,
           S!Applicable, SP!Applicable, S!Trial, SP!Trial, S!Stale, SP!Stale
  <1>3. S!Restore \/ S!RestoreFails \/ S!Unmark <=> SP!Restore \/ SP!RestoreFails \/ SP!Unmark
    BY DEF S!Restore, SP!Restore, S!RestoreFails, SP!RestoreFails, S!Unmark, SP!Unmark,
           S!GoRun, SP!GoRun, S!Applicable, SP!Applicable, S!DiskFails, SP!DiskFails
  <1>4. S!ReportReverted <=> SP!ReportReverted
    BY DEF S!ReportReverted, SP!ReportReverted, S!Boots, SP!Boots
  <1>5. S!CleanMarker \/ S!CleanPrevious <=> SP!CleanMarker \/ SP!CleanPrevious
    BY DEF S!CleanMarker, SP!CleanMarker, S!CleanPrevious, SP!CleanPrevious
  <1>6. S!Crash <=> SP!Crash
    BY DEF S!Crash, SP!Crash, S!Boots, SP!Boots
  <1>7. S!Exec <=> SP!Exec
    BY DEF S!Exec, SP!Exec, S!Boots, SP!Boots, S!Runnable, SP!Runnable
  <1>8. QED
    BY <1>1, <1>2, <1>3, <1>4, <1>5, <1>6, <1>7

LEMMA UpdateStepNames ==
    /\ S!ManifestNew <=> SP!ManifestNew
    /\ S!Downloaded <=> SP!Downloaded
    /\ S!Probe \/ S!ManifestNothing \/ S!DownloadFails
            <=> SP!Probe \/ SP!ManifestNothing \/ SP!DownloadFails
    /\ S!CopyOpens \/ S!CopyEnds \/ S!CopyFails <=> SP!CopyOpens \/ SP!CopyEnds \/ SP!CopyFails
    /\ S!Replace \/ S!ReplaceFails \/ S!Mark \/ S!MarkFails
            <=> SP!Replace \/ SP!ReplaceFails \/ SP!Mark \/ SP!MarkFails
    /\ S!Reported \/ S!ExecFails <=> SP!Reported \/ SP!ExecFails
  <1> USE DEF S!diskVars, SP!diskVars, S!updVars, SP!updVars, S!bootVars, SP!bootVars,
              S!outVars, SP!outVars, S!histVars, SP!histVars, S!UpdGoes, SP!UpdGoes
  <1>1. (S!ManifestNew <=> SP!ManifestNew) /\ (S!Downloaded <=> SP!Downloaded)
    BY DEF S!ManifestNew, SP!ManifestNew, S!Downloaded, SP!Downloaded
  <1>2. S!Probe \/ S!ManifestNothing \/ S!DownloadFails
            <=> SP!Probe \/ SP!ManifestNothing \/ SP!DownloadFails
    BY DEF S!Probe, SP!Probe, S!ManifestNothing, SP!ManifestNothing, S!DownloadFails,
           SP!DownloadFails
  <1>3. S!CopyOpens \/ S!CopyEnds \/ S!CopyFails <=> SP!CopyOpens \/ SP!CopyEnds \/ SP!CopyFails
    BY DEF S!CopyOpens, SP!CopyOpens, S!CopyEnds, SP!CopyEnds, S!CopyFails, SP!CopyFails,
           S!DiskFails, SP!DiskFails
  <1>4. S!Replace \/ S!ReplaceFails \/ S!Mark \/ S!MarkFails
            <=> SP!Replace \/ SP!ReplaceFails \/ SP!Mark \/ SP!MarkFails
    BY DEF S!Replace, SP!Replace, S!ReplaceFails, SP!ReplaceFails, S!Mark, SP!Mark,
           S!MarkFails, SP!MarkFails, S!DiskFails, SP!DiskFails
  <1>5. S!Reported \/ S!ExecFails <=> SP!Reported \/ SP!ExecFails
    BY DEF S!Reported, SP!Reported, S!ExecFails, SP!ExecFails, S!Runnable, SP!Runnable
  <1>6. QED
    BY <1>1, <1>2, <1>3, <1>4, <1>5

LEMMA WorldStepNames ==
    /\ S!Tick <=> SP!Tick
    /\ \A v \in Version : S!Release(v) <=> SP!Release(v)
  <1>1. S!Limit(upd) = SP!Limit(upd)
    BY Zenon DEF S!Limit, SP!Limit
  <1>2. S!Tick <=> SP!Tick
    BY <1>1 DEF S!Tick, SP!Tick, S!Up, SP!Up, S!Stale, SP!Stale, S!outVars, SP!outVars,
                S!histVars, SP!histVars
  <1>3. \A v \in Version : S!Release(v) <=> SP!Release(v)
    BY DEF S!Release, SP!Release, S!Overlap, SP!Overlap, S!diskVars, SP!diskVars, S!updVars,
           SP!updVars, S!bootVars, SP!bootVars, S!histVars, SP!histVars
  <1>4. QED
    BY <1>2, <1>3

(***************************************************************************)
(* A step of the process is a step of each part, but where they meet.      *)
(***************************************************************************)
\* What is a step of the updater, or none of its business.
LEMMA UpdatePart ==
    ASSUME [Next]_vars
    PROVE  [SP!Next]_SP!vars \/ MainReturns \/ UpdaterStops \/ CleanupStops
  <1>1. UNCHANGED selfVars => UNCHANGED SP!vars
    BY DEF selfVars, fixVars, runVars, SP!vars, SP!diskVars, SP!updVars, SP!bootVars, SP!outVars,
           SP!histVars
  <1>2. CASE Start \/ Killed \/ Panics \/ Exec \/ BootStep
    BY <1>2, BootStepNames
    DEF Start, Killed, Panics, Exec, BootStep, SP!Next, SP!Boot, SP!Updater
  <1>3. CASE FetchStep \/ UpdateStep
    BY <1>3, UpdateStepNames DEF FetchStep, UpdateStep, SP!Next, SP!Updater
  <1>4. CASE Tick \/ \E v \in Version : Release(v)
    BY <1>4, WorldStepNames DEF Tick, Release, SP!Next
  <1>5. CASE Signal \/ PollStep \/ HandlerStep \/ ServiceStep \/ UNCHANGED vars
    BY <1>1, <1>5 DEF Signal, PollStep, HandlerStep, ServiceStep, vars
  <1>6. QED
    BY <1>2, <1>3, <1>4, <1>5 DEF Next

\* What is a step of the poll loop, or none of its business.
LEMMA LoopPart ==
    ASSUME LoopInv, [Next]_vars
    PROVE  [LP!Next]_LP!vars \/ Exec
  <1>1. UNCHANGED pollVars => UNCHANGED LP!vars
    BY DEF pollVars, LP!vars, LP!cpVars, LP!loopVars, LP!handVars, LP!vaultVars, LP!histVars
  <1>2. CASE Start \/ Signal \/ MainReturns
    BY <1>1, <1>2, LoopStepNames DEF Start, Signal, MainReturns, LP!Next, LP!Process
  <1>3. CASE Killed \/ Panics
    <2>1. P!ProcessEnds /\ loop # "down"
      BY <1>3 DEF Killed, Panics, LoopInv, S!Crash, S!ReportReverted
    <2>2. LP!MainExits \/ LP!Crash
      BY <2>1, LoopStepNames DEF LP!MainExits, LP!Crash, LP!Running
    <2>3. QED
      BY <2>2 DEF LP!Next, LP!Process
  <1>4. CASE PollStep \/ HandlerStep \/ ServiceStep
    BY <1>4, LoopStepNames, HandlerStepNames DEF PollStep, HandlerStep, ServiceStep, LP!Next
  <1>5. CASE BootStep \/ FetchStep \/ UpdateStep \/ UpdaterStops \/ CleanupStops \/ Tick
             \/ (\E v \in Version : Release(v)) \/ UNCHANGED vars
    BY <1>1, <1>5 DEF BootStep, FetchStep, UpdateStep, UpdaterStops, CleanupStops, Tick,
                      Release, vars
  <1>6. QED
    BY <1>2, <1>3, <1>4, <1>5 DEF Next

\* A step between those at which a process begins, ends or is told to.
Within ==
    /\ img' = img /\ (loop' = "down" => loop = "down")
    /\ late' <=> late
    /\ cut' <=> cut
    /\ cancelled' <=> cancelled

\* What the poll loop and its services do is nothing to the updater.
LEMMA LoopWithin == PollStep \/ HandlerStep \/ ServiceStep => Within /\ UNCHANGED selfVars
  BY DEF Within, PollStep, HandlerStep, ServiceStep, P!Loop, P!LoopTop, P!PollEmpty,
         P!PollEnvelope, P!PollSucceeded, P!PollCancelled, P!Wake, P!PollFails, P!Handler,
         P!HandlerFaults, P!HandleUnknown, P!HandleCancelled, P!HandleCall, P!CallReturns,
         P!Post, P!PostRefused, P!PostEnds, P!CallFails, P!PostFails, P!Elapse, P!Services,
         P!CpPop, P!CpPush, P!VaultApplies, P!CpReceives, P!loopVars, selfVars, runVars, history

\* The updater's work is nothing to the poll loop.
LEMMA UpdateWithin ==
    ASSUME \/ BootStep \/ FetchStep \/ UpdateStep \/ UpdaterStops \/ CleanupStops \/ Tick
           \/ \E v \in Version : Release(v)
    PROVE  Within
  <1> USE DEF Within, pollVars, history
  <1>1. CASE BootStep \/ Tick \/ \E v \in Version : Release(v)
    BY <1>1
    DEF BootStep, Tick, Release, S!CheckNothing, S!CheckMarker, S!Restore, S!RestoreFails,
        S!Unmark, S!CleanMarker, S!CleanPrevious, S!Tick, S!Release, S!bootVars
  <1>2. CASE FetchStep \/ UpdateStep
    <2>1. UNCHANGED <<pollVars, history>>
      BY <1>2 DEF FetchStep, UpdateStep
    <2>2. img' = img
      BY <1>2
      DEF FetchStep, UpdateStep, S!ManifestNew, S!Downloaded, S!Probe, S!ManifestNothing,
          S!DownloadFails, S!CopyOpens, S!CopyEnds, S!CopyFails, S!Replace, S!ReplaceFails,
          S!Mark, S!MarkFails, S!Reported, S!ExecFails, S!bootVars
    <2>3. QED
      BY <2>1, <2>2
  <1>3. CASE UpdaterStops \/ CleanupStops
    BY <1>3 DEF UpdaterStops, CleanupStops, runVars
  <1>4. QED
    BY <1>1, <1>2, <1>3

(***************************************************************************)
(* The poll loop through exec.                                             *)
(***************************************************************************)
LEMMA ExecEnds ==
    ASSUME Exec
    PROVE  /\ h' = [e \in Env |-> IF h[e] \in LP!Live THEN "killed" ELSE h[e]]
           /\ loop' = "top" /\ cancelled' = FALSE /\ backoff' = MinBackoff /\ pause' = 0
           /\ lasted' = [e \in Env |-> 0]
           /\ inbound' = None /\ replies' = {} /\ fails' = 0
           /\ UNCHANGED <<queue, pushed, postWire, answers, starts, result, wire, vault,
                          seen, effects, known>>
  BY DEF Exec, P!Live, LP!Live

LEMMA ExecLoop ==
    ASSUME LP!Core, LP!AnswerInv, Exec
    PROVE  LP!Core' /\ LP!AnswerInv'
  <1>1. LP!TypeOK /\ LP!EnvAssumption /\ LP!BackoffAssumption
    BY Assumptions DEF LP!Core
  <1>2. LP!TypeOK'
    BY <1>1, ExecEnds DEF LP!TypeOK, LP!LoopStates, LP!HandlerState, LP!Live
  <1>3. LP!Core'
    BY <1>1, <1>2, ExecEnds, LP!EndCore
  <1>4. \A e \in Env : h'[e] = h[e] \/ h'[e] = "killed"
    BY ExecEnds
  <1>5. LP!AnswerInv'
    BY <1>1, <1>4, ExecEnds, LP!AnswersUnchanged
  <1>6. QED
    BY <1>3, <1>5

LEMMA NextLoopInv == LoopInv /\ [Next]_vars => LoopInv'
  <1> SUFFICES ASSUME LoopInv, [Next]_vars PROVE LoopInv'
    OBVIOUS
  <1>1. LP!Core /\ LP!AnswerInv
    BY LoopNames DEF LoopInv
  <1>2. LP!Core' /\ LP!AnswerInv'
    BY <1>1, Assumptions, LoopPart, ExecLoop, LP!NextCore, LP!NextAnswerInv
  <1>3. S!Up' => loop' # "down"
    <2>1. CASE Start
      BY <2>1 DEF Start, P!Restart, LoopInv, pollVars, S!Start
    <2>2. CASE MainReturns \/ Killed \/ Panics
      BY <2>2 DEF MainReturns, Killed, Panics, S!Crash, S!ReportReverted, S!Boots, S!Up
    <2>3. CASE Exec
      BY <2>3, ExecEnds
    <2>4. CASE Signal \/ UNCHANGED vars
      BY <2>4 DEF Signal, P!Signal, LoopInv, selfVars, runVars, pollVars, vars, S!Up
    <2>5. CASE \/ PollStep \/ HandlerStep \/ ServiceStep \/ BootStep \/ FetchStep \/ UpdateStep
               \/ UpdaterStops \/ CleanupStops \/ Tick \/ \E v \in Version : Release(v)
      BY <2>5, LoopWithin, UpdateWithin DEF Within, LoopInv, S!Up
    <2>6. QED
      BY <2>1, <2>2, <2>3, <2>4, <2>5 DEF Next
  <1>4. QED
    BY <1>2, <1>3, LoopNames DEF LoopInv

(***************************************************************************)
(* The signal and the swap.                                                *)
(***************************************************************************)
\* Every way the process ends.
LEMMA ProcessDown == MainReturns \/ Killed \/ Panics => S!Boots(Down) /\ img' = Down
  BY DEF MainReturns, Killed, Panics, S!Crash, S!ReportReverted, S!Boots

LEMMA NextSwapInv == SwapInv /\ [Next]_vars => SwapInv'
  <1> SUFFICES ASSUME SwapInv, [Next]_vars PROVE SwapInv'
    OBVIOUS
  <1> USE DEF SwapInv, Swap, S!Up
  <1>1. CASE Start \/ Exec
    BY <1>1 DEF Start, Exec, S!Start, S!Exec, S!Boots
  <1>2. CASE Signal
    BY <1>2 DEF Signal, selfVars, runVars
  <1>3. CASE MainReturns \/ Killed \/ Panics
    BY <1>3, ProcessDown
  <1>4. CASE PollStep \/ HandlerStep \/ ServiceStep
    BY <1>4, LoopWithin DEF Within, selfVars
  <1>5. CASE BootStep \/ Tick \/ \E v \in Version : Release(v)
    <2>1. upd' = upd \/ upd' \in {"idle", "off"}
      BY <1>5
      DEF BootStep, Tick, Release, S!CheckNothing, S!CheckMarker, S!Restore, S!RestoreFails,
          S!Unmark, S!CleanMarker, S!CleanPrevious, S!GoRun, S!Tick, S!Release, S!updVars
    <2>2. QED
      BY <1>5, <2>1, UpdateWithin DEF Within
  <1>6. CASE FetchStep
    BY <1>6, UpdateWithin DEF Within, FetchStep
  <1>7. CASE UpdateStep
    <2>1. upd' \in Swap => upd \in Swap
      BY <1>7
      DEF UpdateStep, S!Probe, S!ManifestNothing, S!DownloadFails, S!CopyOpens, S!CopyEnds,
          S!CopyFails, S!Replace, S!ReplaceFails, S!Mark, S!MarkFails, S!Reported, S!ExecFails,
          S!UpdGoes
    <2>2. QED
      BY <1>7, <2>1, UpdateWithin DEF Within
  <1>8. CASE UpdaterStops \/ CleanupStops
    BY <1>8, UpdateWithin DEF Within, UpdaterStops, CleanupStops
  <1>9. CASE UNCHANGED vars
    BY <1>9 DEF vars, selfVars, runVars, pollVars, history
  <1>10. QED
    BY <1>1, <1>2, <1>3, <1>4, <1>5, <1>6, <1>7, <1>8, <1>9 DEF Next

\* exec forgets a signal only if it came during the swap (selfupdate.go:102, 132-157).
THEOREM SignalsOutliveDownloads == Spec => ForgottenOnlyInSwap
  <1>1. Init => SwapInv
    BY DEF Init, S!Init, SwapInv, S!Up
  <1>2. SwapInv /\ [Next]_vars =>
            [cancelled /\ S!Up /\ ~cancelled' /\ img' # Down => late]_vars
    <2> SUFFICES ASSUME SwapInv, Next, cancelled, S!Up, ~cancelled', img' # Down PROVE late
      OBVIOUS
    <2>1. Exec
      BY LoopWithin, UpdateWithin, ProcessDown DEF Within, Next, Start, S!Start, Signal, P!Signal
    <2>2. QED
      BY <2>1 DEF Exec, S!Exec, SwapInv, Swap
  <1>3. QED
    BY <1>1, <1>2, NextSwapInv, PTL DEF Spec, ForgottenOnlyInSwap

(***************************************************************************)
(* The updater beside the poll loop.                                       *)
(***************************************************************************)
\* main returns: for the updater a process ends, with no kill to count.
LEMMA ReturnUpdate ==
    ASSUME S!TypeOK, S!PlaceInv, MainReturns
    PROVE  /\ S!TypeOK' /\ S!PlaceInv' /\ world' = world
           /\ S!FilesInv => S!FilesInv'
           /\ S!TurnInv' /\ S!TimerInv'
  <1>1. /\ img' = Down /\ boot' = "check" /\ clean' = "off" /\ cleanIn' = 0 /\ upd' = "off"
        /\ probeIn' = 0 /\ spent' = 0 /\ target' = None /\ boots' = boots
        /\ UNCHANGED <<bin, backup, marker, age, world, latest, releases, crashes, proven,
                       reverted, panicked>>
    BY DEF MainReturns, S!Boots, fixVars
  <1>2. "off" \in S!UpdSteps /\ 0 \in 0..PollEvery /\ 0 \in 0..S!Trial
    BY AgentAssumption DEF S!UpdateAssumption, S!UpdSteps, S!Trial
  <1>3. S!TypeOK'
    BY <1>1, <1>2 DEF S!TypeOK
  <1>4. S!PlaceInv' /\ S!TurnInv' /\ S!TimerInv'
    BY <1>1 DEF S!PlaceInv, S!TurnInv, S!TimerInv, S!Up, S!Installing
  <1>5. S!FilesInv => S!FilesInv'
    BY <1>1 DEF S!FilesInv, S!Up, S!Installing
  <1>6. QED
    BY <1>1, <1>3, <1>4, <1>5

\* A goroutine that selects on the context stops.
LEMMA StopUpdate ==
    ASSUME S!TypeOK, S!PlaceInv, UpdaterStops \/ CleanupStops
    PROVE  /\ S!TypeOK' /\ S!PlaceInv' /\ world' = world
           /\ S!FilesInv => S!FilesInv'
           /\ S!TurnInv => S!TurnInv'
  <1>1. /\ UNCHANGED <<bin, backup, marker, age, world, latest, releases, crashes, proven,
                       reverted, panicked, img, boot, spent, target, boots>>
        /\ \/ upd = "idle" /\ upd' = "off" /\ probeIn' = 0 /\ UNCHANGED <<clean, cleanIn>>
           \/ clean = "timer" /\ clean' = "off" /\ cleanIn' = 0 /\ UNCHANGED <<upd, probeIn>>
    BY DEF UpdaterStops, CleanupStops, fixVars, runVars
  <1>2. "off" \in S!UpdSteps /\ 0 \in 0..PollEvery /\ 0 \in 0..S!Trial
    BY AgentAssumption DEF S!UpdateAssumption, S!UpdSteps, S!Trial
  <1>3. S!TypeOK'
    BY <1>1, <1>2 DEF S!TypeOK
  <1>4. S!PlaceInv'
    BY <1>1 DEF S!PlaceInv, S!Up, S!Installing, S!Applicable
  <1>5. S!FilesInv => S!FilesInv'
    BY <1>1 DEF S!FilesInv, S!Up, S!Installing
  <1>6. S!TurnInv => S!TurnInv'
    BY <1>1 DEF S!TurnInv, S!Installing
  <1>7. QED
    BY <1>1, <1>3, <1>4, <1>5, <1>6

\* The answer that starts an upgrade does not get through a context that is done.
LEMMA SignalledFetchesNothing ==
    ASSUME [Next]_vars, cancelled, SP!ManifestNew
    PROVE  FALSE
  <1>1. upd = "manifest" /\ upd' = "download"
    BY DEF SP!ManifestNew, SP!UpdGoes
  <1>2. ~FetchStep
    BY DEF FetchStep
  <1>3. ~(Start \/ Exec \/ MainReturns \/ Killed \/ Panics)
    BY <1>1, ProcessDown DEF Start, Exec, S!Start, S!Exec, S!Boots
  <1>4. ~(Signal \/ PollStep \/ HandlerStep \/ ServiceStep \/ UNCHANGED vars)
    BY <1>1, LoopWithin DEF Signal, selfVars, vars
  <1>5. ~(BootStep \/ Tick \/ \E v \in Version : Release(v))
    BY <1>1
    DEF BootStep, Tick, Release, S!CheckNothing, S!CheckMarker, S!Restore, S!RestoreFails,
        S!Unmark, S!CleanMarker, S!CleanPrevious, S!GoRun, S!Tick, S!Release, S!updVars
  <1>6. ~(UpdateStep \/ UpdaterStops \/ CleanupStops)
    BY <1>1
    DEF UpdateStep, UpdaterStops, CleanupStops, S!Probe, S!ManifestNothing, S!DownloadFails,
        S!CopyOpens, S!CopyEnds, S!CopyFails, S!Replace, S!ReplaceFails, S!Mark, S!MarkFails,
        S!Reported, S!ExecFails, S!UpdGoes
  <1>7. QED
    BY <1>2, <1>3, <1>4, <1>5, <1>6 DEF Next

\* The context is new when main is.
LEMMA ContextRenewed ==
    ASSUME [Next]_vars, cancelled, ~cancelled'
    PROVE  boot' = "check" /\ clean' = "off"
  <1>1. Start \/ Exec \/ MainReturns \/ Killed \/ Panics
    BY LoopWithin, UpdateWithin DEF Next, Within, Signal, P!Signal, vars, pollVars
  <1>2. QED
    BY <1>1, ProcessDown DEF Start, Exec, S!Start, S!Exec, S!Boots

LEMMA NextUpdateInv == UpdateInv /\ [Next]_vars => UpdateInv'
  <1> SUFFICES ASSUME UpdateInv, [Next]_vars PROVE UpdateInv'
    OBVIOUS
  <1>1. S!TypeOK /\ S!PlaceInv
    BY DEF UpdateInv
  <1>2. CASE MainReturns
    BY <1>1, <1>2, ReturnUpdate DEF UpdateInv
  <1>3. CASE UpdaterStops \/ CleanupStops
    <2>1. cancelled /\ cancelled'
      BY <1>3, UpdateWithin DEF Within, UpdaterStops, CleanupStops
    <2>2. QED
      BY <1>1, <1>3, <2>1, StopUpdate DEF UpdateInv
  <1>4. CASE [SP!Next]_SP!vars
    <2>1. S!TypeOK' /\ SP!TypeOK'
      BY <1>1, <1>4, Assumptions, UpdateNames, SP!NextTypeOK
    <2>2. S!PlaceInv'
      BY <1>1, <1>4, <2>1, Assumptions, UpdateNames, SP!NextPlaceInv
    <2>3. world' = world
      BY <1>4, Assumptions, SP!WorldStays
    <2>4. ASSUME world = "kind" PROVE S!FilesInv' /\ S!TurnInv'
      <3>1. SP!TypeOK /\ SP!PlaceInv /\ SP!FilesInv /\ SP!TurnInv
        BY <1>1, <2>4, UpdateNames DEF UpdateInv
      <3>2. SP!ManifestNew => SP!TimerInv
        BY <2>4, UpdateNames, SignalledFetchesNothing DEF UpdateInv
      <3>3. SP!FilesInv'
        BY <1>4, <2>1, <2>4, <3>1, Assumptions, SP!NextFilesInv
      <3>4. SP!TurnInv'
        BY <1>4, <2>4, <3>1, <3>2, Assumptions, SP!NextTurnInv
      <3>5. QED
        BY <3>3, <3>4, UpdateNames
    <2>5. ASSUME world = "kind", ~cancelled' PROVE S!TimerInv'
      <3>1. CASE cancelled
        BY <2>5, <3>1, ContextRenewed DEF S!TimerInv
      <3>2. CASE ~cancelled
        <4>1. SP!TypeOK /\ SP!PlaceInv /\ SP!FilesInv /\ SP!TurnInv /\ SP!TimerInv
          BY <1>1, <2>5, <3>2, UpdateNames DEF UpdateInv
        <4>2. SP!TimerInv'
          BY <1>4, <2>5, <4>1, Assumptions, SP!NextTimerInv
        <4>3. QED
          BY <4>2, UpdateNames
      <3>3. QED
        BY <3>1, <3>2
    <2>6. QED
      BY <2>1, <2>2, <2>3, <2>4, <2>5 DEF UpdateInv
  <1>5. QED
    BY <1>2, <1>3, <1>4, UpdatePart

(***************************************************************************)
(* Builds on trial.                                                        *)
(***************************************************************************)
\* The parts of TrialInv: broken builds are never proven, and a kind system that nothing
\* has cut short knows what it runs.
BrokenInv ==
    proven \cap Broken = {} /\ (img \in Broken /\ clean = "timer" => cleanIn = S!Trial)

Watched ==
    /\ bin \in proven \/ marker # None \/ upd = "mark"
    /\ S!Up /\ boot # "report" /\ img \notin proven => marker # None
    /\ marker # None => marker.from \in proven
    /\ upd \in S!Installing => img \in proven

LEMMA TrialParts ==
    /\ TrialInv <=> BrokenInv /\ cut \in BOOLEAN /\ (world = "kind" /\ ~cut => Watched)
    /\ TrialInv' <=> BrokenInv' /\ cut' \in BOOLEAN /\ (world' = "kind" /\ ~cut' => Watched')
  BY DEF TrialInv, BrokenInv, Watched

\* A broken build does not live to the end of its trial.
LEMMA NextBrokenInv ==
    ASSUME S!TypeOK, S!PlaceInv, BrokenInv, [Next]_vars
    PROVE  BrokenInv'
  <1> USE DEF BrokenInv
  <1>0. Down \notin Version /\ Broken \subseteq Version
    BY AgentAssumption DEF S!UpdateAssumption
  <1>1. CASE Start \/ Exec \/ MainReturns \/ Killed \/ Panics
    BY <1>1 DEF Start, Exec, MainReturns, Killed, Panics, S!Start, S!Exec, S!Crash,
                S!ReportReverted, S!Boots, fixVars
  <1>2. CASE Signal \/ PollStep \/ HandlerStep \/ ServiceStep \/ UNCHANGED vars
    BY <1>2, LoopWithin DEF Signal, selfVars, fixVars, runVars, vars
  <1>3. CASE BootStep
    <2>1. CASE S!CleanMarker
      <3>1. img \notin Broken
        BY <2>1 DEF S!CleanMarker, S!Trial
      <3>2. QED
        BY <2>1, <3>1 DEF S!CleanMarker
    <2>2. CASE S!CheckMarker
      BY <2>2 DEF S!CheckMarker, S!histVars
    <2>3. QED
      BY <1>3, <2>1, <2>2 DEF BootStep, S!CheckNothing, S!Restore, S!RestoreFails, S!Unmark,
                              S!CleanPrevious, S!histVars
  <1>4. CASE FetchStep \/ UpdateStep
    BY <1>4
    DEF FetchStep, UpdateStep, S!ManifestNew, S!Downloaded, S!Probe, S!ManifestNothing,
        S!DownloadFails, S!CopyOpens, S!CopyEnds, S!CopyFails, S!Replace, S!ReplaceFails,
        S!Mark, S!MarkFails, S!Reported, S!ExecFails, S!bootVars, S!histVars
  <1>5. CASE Tick
    BY <1>0, <1>5 DEF Tick, S!Tick, S!Up, S!histVars
  <1>6. CASE UpdaterStops \/ CleanupStops \/ \E v \in Version : Release(v)
    BY <1>6 DEF UpdaterStops, CleanupStops, Release, S!Release, fixVars, runVars, S!bootVars,
                S!histVars
  <1>7. QED
    BY <1>1, <1>2, <1>3, <1>4, <1>5, <1>6 DEF Next

\* The end of a process leaves the files as they are, and outside the one step that
\* counts they are accounted for.
LEMMA EndWatched ==
    ASSUME S!PlaceInv, Watched, MainReturns \/ Killed \/ Panics, ~cut'
    PROVE  Watched'
  <1>1. /\ UNCHANGED <<bin, marker, proven>>
        /\ img' = Down /\ upd' = "off"
    BY DEF MainReturns, Killed, Panics, S!Crash, S!ReportReverted, S!Boots, S!diskVars, fixVars
  <1>2. upd # "mark"
    BY DEF MainReturns, Killed, Panics, S!ReportReverted, S!PlaceInv
  <1>3. QED
    BY <1>1, <1>2 DEF Watched, S!Up, S!Installing

LEMMA BootWatched ==
    ASSUME S!TypeOK, S!PlaceInv, S!FilesInv, S!TurnInv, Watched, world = "kind",
           BootStep
    PROVE  Watched'
  <1> USE AgentAssumption DEF S!UpdateAssumption
  <1>1. CASE S!CheckNothing \/ S!CheckMarker
    BY <1>1 DEF S!CheckNothing, S!CheckMarker, S!GoRun, S!diskVars, S!histVars, Watched,
                S!PlaceInv, S!Installing, S!Up
  <1>2. CASE S!Restore \/ S!Unmark
    BY <1>2 DEF S!Restore, S!Unmark, S!outVars, S!updVars, S!histVars, Watched, S!PlaceInv,
                S!FilesInv, S!Installing, S!Up
  <1>3. CASE S!RestoreFails
    BY <1>3 DEF S!RestoreFails, S!DiskFails, S!FilesInv, S!PlaceInv, S!TypeOK
  <1>4. CASE S!CleanMarker
    BY <1>4 DEF S!CleanMarker, S!updVars, Watched, S!FilesInv, S!TurnInv, S!Installing, S!Up
  <1>5. CASE S!CleanPrevious
    BY <1>5 DEF S!CleanPrevious, S!updVars, S!histVars, Watched, S!Up
  <1>6. QED
    BY <1>1, <1>2, <1>3, <1>4, <1>5 DEF BootStep

LEMMA InstallWatched ==
    ASSUME S!TypeOK, S!PlaceInv, S!FilesInv, S!TurnInv, ~cancelled => S!TimerInv, Watched,
           world = "kind", FetchStep \/ UpdateStep
    PROVE  Watched'
  <1> USE AgentAssumption DEF S!UpdateAssumption, S!Installing, Watched
  <1>1. CASE FetchStep /\ S!ManifestNew
    <2>1. /\ upd = "manifest" /\ boot = "run" /\ S!Up /\ bin = img /\ latest # img /\ S!TimerInv
          /\ UNCHANGED <<bin, marker, proven, img, boot>> /\ upd' = "download"
      BY <1>1 DEF FetchStep, S!ManifestNew, S!UpdGoes, S!PlaceInv, S!FilesInv, S!Up, S!diskVars,
                  S!bootVars, S!histVars
    <2>2. marker = None
      BY <2>1 DEF S!TurnInv, S!TimerInv, S!FilesInv, S!TypeOK
    <2>3. img \in proven
      BY <2>1, <2>2
    <2>4. QED
      BY <2>1, <2>2, <2>3 DEF S!Up
  <1>2. CASE S!Downloaded \/ S!Probe \/ S!ManifestNothing \/ S!DownloadFails \/ S!CopyOpens
             \/ S!CopyEnds \/ S!Replace \/ S!Reported
    BY <1>2 DEF S!Downloaded, S!Probe, S!ManifestNothing, S!DownloadFails, S!CopyOpens,
                S!CopyEnds, S!Replace, S!Reported, S!UpdGoes, S!Up, S!diskVars, S!bootVars,
                S!histVars
  <1>3. CASE S!Mark
    <2>1. /\ upd = "mark" /\ upd' = "report success" /\ marker' = [from |-> img, to |-> target]
          /\ UNCHANGED <<bin, proven, img, boot>>
      BY <1>3 DEF S!Mark, S!UpdGoes, S!bootVars
    <2>2. img \in Version /\ target \in Version
      BY <2>1 DEF S!PlaceInv, S!TypeOK, S!Up
    <2>3. marker' \in [from : Version, to : Version] /\ marker'.from = img
      BY <2>1, <2>2
    <2>4. marker' # None
      BY <2>3
    <2>5. QED
      BY <2>1, <2>3, <2>4 DEF S!Up
  <1>4. CASE S!CopyFails \/ S!ReplaceFails \/ S!MarkFails \/ S!ExecFails
    BY <1>4 DEF S!CopyFails, S!ReplaceFails, S!MarkFails, S!ExecFails, S!DiskFails, S!Runnable,
                S!FilesInv
  <1>5. QED
    BY <1>1, <1>2, <1>3, <1>4 DEF FetchStep, UpdateStep

LEMMA NextTrialInv == UpdateInv /\ TrialInv /\ [Next]_vars => TrialInv'
  <1> SUFFICES ASSUME UpdateInv, TrialInv, [Next]_vars PROVE TrialInv'
    OBVIOUS
  <1>1. S!TypeOK /\ S!PlaceInv /\ BrokenInv /\ cut \in BOOLEAN
    BY TrialParts DEF UpdateInv
  <1>2. cut' \in BOOLEAN /\ (~cut' => ~cut)
    <2>1. CASE MainReturns \/ Killed
      BY <1>1, <2>1 DEF MainReturns, Killed
    <2>2. CASE ~(MainReturns \/ Killed)
      <3>1. cut' = cut
        BY <2>2 DEF Next, Start, Signal, Panics, Exec, PollStep, HandlerStep, ServiceStep,
                    BootStep, FetchStep, UpdateStep, UpdaterStops, CleanupStops, Tick, Release,
                    history, vars
      <3>2. QED
        BY <1>1, <3>1
    <2>3. QED
      BY <2>1, <2>2
  <1>3. world' = world
    BY Assumptions, UpdatePart, SP!WorldStays DEF MainReturns, UpdaterStops, CleanupStops, fixVars
  <1>4. ASSUME world = "kind", ~cut' PROVE Watched'
    <2>1. /\ Watched /\ S!FilesInv /\ S!TurnInv /\ (~cancelled => S!TimerInv)
      BY <1>2, <1>4, TrialParts DEF UpdateInv
    <2>2. CASE MainReturns \/ Killed \/ Panics
      BY <1>1, <1>4, <2>1, <2>2, EndWatched
    <2>3. CASE Start \/ Exec
      BY <1>1, <2>1, <2>3 DEF Start, Exec, S!Start, S!Exec, S!Boots, S!diskVars, S!PlaceInv,
                              S!Installing, Watched, S!Up
    <2>4. CASE BootStep
      BY <1>1, <1>4, <2>1, <2>4, BootWatched
    <2>5. CASE FetchStep \/ UpdateStep
      BY <1>1, <1>4, <2>1, <2>5, InstallWatched
    <2>6. CASE UpdaterStops \/ CleanupStops
      BY <2>1, <2>6 DEF UpdaterStops, CleanupStops, fixVars, runVars, Watched, S!Up, S!Installing
    <2>7. CASE Signal \/ PollStep \/ HandlerStep \/ ServiceStep \/ UNCHANGED vars
      BY <2>1, <2>7, LoopWithin DEF Signal, vars, selfVars, fixVars, runVars, Watched, S!Up
    <2>8. CASE Tick \/ \E v \in Version : Release(v)
      BY <2>1, <2>8 DEF Tick, Release, S!Tick, S!Release, S!outVars, S!diskVars, S!updVars,
                        S!bootVars, S!histVars, Watched, S!Up
    <2>9. QED
      BY <2>2, <2>3, <2>4, <2>5, <2>6, <2>7, <2>8 DEF Next
  <1>5. BrokenInv'
    BY <1>1, NextBrokenInv
  <1>6. QED
    BY <1>2, <1>3, <1>4, <1>5, TrialParts

(***************************************************************************)
(* What follows.                                                           *)
(***************************************************************************)
LEMMA InitInductive == Init => Inductive
  <1> SUFFICES ASSUME Init PROVE Inductive
    OBVIOUS
  <1>1. S!Init /\ P!Init /\ ~cut
    BY DEF Init
  <1>2. LoopInv
    BY <1>1, Assumptions, LoopNames, LP!InitCore, LP!InitAnswerInv DEF LoopInv, S!Init, S!Up
  <1>3. SwapInv
    BY <1>1 DEF SwapInv, S!Init, S!Up
  <1>4. UpdateInv
    <2>1. SP!Inductive
      BY <1>1, Assumptions, UpdateNames, SP!InitInductive
    <2>2. QED
      BY <2>1, UpdateNames DEF SP!Inductive, UpdateInv
  <1>5. TrialInv
    BY <1>1, AgentAssumption DEF S!UpdateAssumption, S!Init, S!Up, S!Installing, TrialInv, Init
  <1>6. QED
    BY <1>2, <1>3, <1>4, <1>5 DEF Inductive

\* Both parts keep what they rely on, and a build on trial is known for one, in every
\* reachable state of the process.
THEOREM AgentInductive == Spec => []Inductive
  <1>1. Inductive /\ [Next]_vars => Inductive'
    BY NextLoopInv, NextSwapInv, NextUpdateInv, NextTrialInv DEF Inductive
  <1>2. QED
    BY <1>1, InitInductive, PTL DEF Spec

\* However upgrades, signals and kills fall, no call reaches the vault twice, an answer "ok"
\* or "not_found" stands for a call the vault carried out, and calls follow the answers
\* their callers waited for (poll.go:117-177): PollLoop's invariants outlive the exec of a
\* new image, which PollLoop does not know of.
THEOREM UpgradesKeepCalls ==
    Spec => [](P!AtMostOnce /\ P!AnsweredMeansApplied /\ P!AnswerOrdersCalls)
  <1>1. Inductive => P!AtMostOnce /\ P!AnsweredMeansApplied /\ P!AnswerOrdersCalls
    BY DEF Inductive, LoopInv, P!Core, P!ResultInv, P!AnsweredMeansApplied
  <1>2. QED
    BY <1>1, AgentInductive, PTL

\* A return of main at any step of an upgrade leaves a marker that names the build on disk
\* and the one its backup holds (selfupdate.go:132-157).
THEOREM SignalsKeepMarkers == Spec => []S!MarkerTellsTruth
  <1>1. Inductive => S!MarkerTellsTruth
    BY DEF Inductive, UpdateInv, S!FilesInv, S!MarkerTellsTruth
  <1>2. QED
    BY <1>1, AgentInductive, PTL

\* Nor does it drop one too early: with signals as without them the marker goes only when
\* its backup is back in place or its build has lived through its trial
\* (selfupdate.go:175-195).
THEOREM SignalsDropNoMarker == Spec => S!MarkerGoesWithCause
  <1>1. Inductive /\ [Next]_vars =>
          [world = "kind" /\ marker # None /\ marker' = None =>
              \/ boot = "unmark" /\ bin = backup
              \/ clean = "timer" /\ img = bin /\ marker.to = img]_(S!vars)
    <2> SUFFICES ASSUME Inductive, Next, world = "kind", marker # None, marker' = None
                 PROVE  \/ boot = "unmark" /\ bin = backup
                        \/ clean = "timer" /\ img = bin /\ marker.to = img
      BY DEF vars, selfVars, fixVars
    <2>1. ~UNCHANGED marker
      OBVIOUS
    <2>2. S!Unmark \/ S!CleanMarker
      <3>1. ~(Start \/ Signal \/ MainReturns \/ Killed \/ Panics \/ Exec \/ PollStep
              \/ HandlerStep \/ ServiceStep)
        BY <2>1
        DEF Start, Signal, MainReturns, Killed, Panics, Exec, PollStep, HandlerStep,
            ServiceStep, selfVars, fixVars, S!Start, S!Crash, S!ReportReverted, S!Exec,
            S!diskVars
      <3>2. ~(UpdaterStops \/ CleanupStops \/ Tick \/ \E v \in Version : Release(v))
        BY <2>1 DEF UpdaterStops, CleanupStops, fixVars, Tick, Release, S!Tick, S!Release, S!diskVars
      <3>3. ~(FetchStep \/ UpdateStep)
        <4>1. ~S!Mark
          BY DEF S!Mark, S!UpdGoes, Inductive, UpdateInv, S!TurnInv
        <4>2. QED
          BY <2>1, <4>1
          DEF FetchStep, UpdateStep, S!Probe, S!ManifestNothing, S!ManifestNew, S!Downloaded,
              S!DownloadFails, S!CopyOpens, S!CopyEnds, S!CopyFails, S!Replace,
              S!ReplaceFails, S!MarkFails, S!Reported, S!ExecFails, S!diskVars
      <3>4. BootStep
        BY <3>1, <3>2, <3>3 DEF Next
      <3>5. QED
        BY <2>1, <3>4
        DEF BootStep, S!CheckNothing, S!CheckMarker, S!Restore, S!RestoreFails,
            S!CleanPrevious, S!diskVars
    <2>3. CASE S!Unmark
      BY <2>3 DEF S!Unmark, Inductive, UpdateInv, S!FilesInv
    <2>4. CASE S!CleanMarker
      <3>1. /\ S!Up /\ clean = "timer" /\ boot = "run" /\ S!FilesInv /\ S!TurnInv
        BY <2>4 DEF S!CleanMarker, Inductive, UpdateInv
      <3>2. upd \notin S!Installing
        BY <3>1 DEF S!TurnInv
      <3>3. QED
        BY <3>1, <3>2 DEF S!FilesInv, S!Installing
    <2>5. QED
      BY <2>2, <2>3, <2>4
  <1>2. QED
    BY <1>1, AgentInductive, PTL DEF Spec, S!MarkerGoesWithCause

\* On every kind of system a signal or a return of main, wherever it cuts an upgrade, leaves
\* a whole build in place: half a binary takes a rollback from half a backup
\* (selfupdate.go:142, 342-363).
THEOREM SignalsSwapWhole == Spec => []S!UpgradeSwapsWhole
  <1>1. S!UpgradeSwapsWhole <=> SP!UpgradeSwapsWhole
    BY DEF S!UpgradeSwapsWhole, SP!UpgradeSwapsWhole
  <1>2. S!UpgradeSwapsWhole' <=> SP!UpgradeSwapsWhole'
    BY DEF S!UpgradeSwapsWhole, SP!UpgradeSwapsWhole
  <1>3. Init => S!UpgradeSwapsWhole
    <2>1. Init => SP!Inductive
      BY Assumptions, UpdateNames, SP!InitInductive DEF Init
    <2>2. QED
      BY <1>1, <2>1 DEF SP!Inductive
  <1>4. Inductive /\ S!UpgradeSwapsWhole /\ [Next]_vars => S!UpgradeSwapsWhole'
    <2> SUFFICES ASSUME Inductive, S!UpgradeSwapsWhole, [Next]_vars PROVE SP!UpgradeSwapsWhole'
      BY <1>2
    <2>1. SP!TypeOK /\ SP!PlaceInv /\ SP!UpgradeSwapsWhole /\ (world = "kind" => SP!FilesInv)
      BY <1>1, UpdateNames DEF Inductive, UpdateInv
    <2>2. CASE [SP!Next]_SP!vars
      BY <2>1, <2>2, Assumptions, SP!NextSwapsWhole
    <2>3. CASE MainReturns \/ UpdaterStops \/ CleanupStops
      BY <2>1, <2>3 DEF MainReturns, UpdaterStops, CleanupStops, fixVars, SP!UpgradeSwapsWhole
    <2>4. QED
      BY <2>2, <2>3, UpdatePart
  <1>5. QED
    BY <1>3, <1>4, AgentInductive, PTL DEF Spec

\* A build that has not lived through its trial runs without a marker only if some process
\* ended in the one step between a swap and its marker; a kill or a signal at any other
\* step of an upgrade, a trial or a rollback costs no build its watch
\* (selfupdate.go:144-153, main.go:162-167).
THEOREM UntriedBuildsAreWatched == Spec => []UntriedBuildIsWatched
  <1>1. Inductive => UntriedBuildIsWatched
    BY DEF Inductive, TrialInv, UntriedBuildIsWatched, PollRuns
  <1>2. QED
    BY <1>1, AgentInductive, PTL

\* Upgrades, with the restarts and lost handlers they bring, leave the bridge's promise to
\* the control plane as it is (selfupdate.go:377).
THEOREM AgentImplementsBridge == Spec => ImplementsBridge
  <1>1. /\ P!Promise!Init <=> LP!Promise!Init
        /\ [P!Promise!Next]_P!Promise!bridgeVars <=> [LP!Promise!Next]_LP!Promise!bridgeVars
    <2>1. /\ \A e \in Env : P!StageOf(e) = LP!StageOf(e) /\ P!StageOf(e)' = LP!StageOf(e)'
          /\ P!EffectSet = LP!EffectSet /\ P!EffectSet' = LP!EffectSet'
      BY DEF P!StageOf, LP!StageOf, P!EffectSet, LP!EffectSet, P!Live, LP!Live
    <2>2. QED
      BY DEF P!Promise!Init, LP!Promise!Init, P!Promise!bridgeVars, LP!Promise!bridgeVars,
             P!Promise!Next, LP!Promise!Next, P!Promise!Lose, LP!Promise!Lose,
             P!Promise!Accept, LP!Promise!Accept, P!Promise!Take, LP!Promise!Take,
             P!Promise!Effect, LP!Promise!Effect, P!Promise!Answer, LP!Promise!Answer,
             P!Promise!Verdicts, LP!Promise!Verdicts, P!StageOf, LP!StageOf, P!EffectSet,
             LP!EffectSet, P!Live, LP!Live
  <1>2. Init => P!Promise!Init
    <2>1. SUFFICES ASSUME Init PROVE LP!Promise!Init
      BY <1>1
    <2>2. LP!Init /\ LP!Core /\ LP!AnswerInv
      BY <2>1, InitInductive, LoopNames DEF Init, Inductive, LoopInv
    <2>3. \A e \in Env : LP!StageOf(e) = "idle"
      BY <2>2, Assumptions, LP!StagesNow DEF LP!Init, LP!Stage
    <2>4. LP!EffectSet = {}
      BY <2>2 DEF LP!Init, LP!EffectSet
    <2>5. QED
      BY <2>2, <2>3, <2>4 DEF LP!Init, LP!Promise!Init
  <1>3. LoopInv /\ LoopInv' /\ [Next]_vars => [P!Promise!Next]_P!Promise!bridgeVars
    <2>1. SUFFICES ASSUME LoopInv, LoopInv', [Next]_vars
                   PROVE  [LP!Promise!Next]_LP!Promise!bridgeVars
      BY <1>1
    <2>2. LP!Core /\ LP!AnswerInv /\ LP!Core' /\ LP!AnswerInv'
      BY <2>1, LoopNames DEF LoopInv
    <2>3. CASE Exec
      <3>1. \A e \in Env : LP!Carried(e)' => LP!Carried(e)
        BY <2>3, ExecEnds, Assumptions DEF LP!Carried, LP!Live
      <3>2. QED
        BY <2>2, <2>3, <3>1, ExecEnds, Assumptions, LP!DropStep
    <2>4. CASE [LP!Next]_LP!vars
      BY <2>2, <2>4, Assumptions, LP!BridgeStep
    <2>5. QED
      BY <2>1, <2>3, <2>4, LoopPart
  <1>4. Inductive => LoopInv
    BY DEF Inductive
  <1>5. QED
    BY <1>2, <1>3, <1>4, AgentInductive, PTL DEF Spec, ImplementsBridge, P!ImplementsBridge,
       P!Promise!Spec
=============================================================================
