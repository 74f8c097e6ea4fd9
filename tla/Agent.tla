------------------------------- MODULE Agent --------------------------------
(***************************************************************************)
(* The process (cmd/vault-bridge-agent): one main, in which the poll loop  *)
(* with its handlers runs beside the updater of the same installation.     *)
(* They share an image and a root context.  SIGTERM cancels the context;   *)
(* main returns with the poll loop, exec replaces it, and both end every   *)
(* other goroutine where it stands.                                        *)
(*                                                                         *)
(* SelfUpdate and PollLoop give the steps of the two parts; this module    *)
(* says which of them are one step, and which look at the context.         *)
(***************************************************************************)
EXTENDS Integers, Sequences, FiniteSets

CONSTANTS None,
          \* ---- SelfUpdate ----
          Version, First, Broken, Unrunnable, PollEvery, Worlds, MaxReleases, MaxCrashes,
          Partial, Absent, Down,
          \* ---- PollLoop ----
          Env, Path, Op, PathOf, MinBackoff, MaxBackoff, CallLimit, HandleLimit,
          MaxStarts, MaxFails, NoResult

VARIABLES
    \* ---- SelfUpdate ----
    bin, backup, marker, age, img, boot, clean, cleanIn, upd, probeIn, spent, target,
    world, latest, releases, crashes, proven, reverted, boots, panicked,
    \* ---- PollLoop ----
    queue, pushed, inbound, postWire, answers, loop, cancelled, backoff, pause, starts,
    h, lasted, result, wire, replies, vault, seen, effects, known, fails,
    \* ---- history ----
    late, \* did the signal come during the swap of an upgrade?
    cut   \* did the process end between a swap and its marker?

S == INSTANCE SelfUpdate
P == INSTANCE PollLoop

ASSUME AgentAssumption == S!UpdateAssumption /\ P!EnvAssumption /\ P!BackoffAssumption

\* The variables of SelfUpdate, in the groups steps leave alone, and those of PollLoop.
fixVars  == <<bin, backup, marker, age, world, latest, releases, crashes, proven, reverted,
              panicked>>
runVars  == <<img, boot, spent, target, boots>>
selfVars == <<fixVars, runVars, clean, cleanIn, upd, probeIn>>
pollVars == <<queue, pushed, inbound, postWire, answers, loop, cancelled, backoff, pause,
              starts, h, lasted, result, wire, replies, vault, seen, effects, known, fails>>
history  == <<late, cut>>
vars     == <<selfVars, pollVars, history>>

\* Between the download and exec nothing looks at the context.
Swap == {"copy", "copying", "replace", "mark", "report success", "exec"}

\* main is past CheckPostUpgrade.
PollRuns == S!Up /\ boot = "run"

Init == S!Init /\ P!Init /\ late = FALSE /\ cut = FALSE

(***************************************************************************)
(* One process begins and ends for both.                                   *)
(***************************************************************************)
Start ==
    /\ S!Start
    /\ IF loop = "down" THEN P!Restart ELSE UNCHANGED pollVars
    /\ late' = FALSE /\ UNCHANGED cut

Signal ==
    /\ S!Up /\ P!Signal
    /\ late' = (upd \in Swap)
    /\ UNCHANGED <<selfVars, cut>>

MainReturns ==
    /\ PollRuns /\ P!MainExits
    /\ S!Boots(Down)
    /\ cut' = (cut \/ upd = "mark")
    /\ UNCHANGED <<fixVars, late>>

Killed ==
    /\ S!Crash /\ P!ProcessEnds
    /\ cut' = (cut \/ upd = "mark")
    /\ UNCHANGED late

Panics == S!ReportReverted /\ P!ProcessEnds /\ UNCHANGED history

\* main of the new image starts over: handlers and their connections are gone, and so
\* is a context that was done.  What had been sent is on its way.
Exec ==
    /\ S!Exec
    /\ loop' = "top" /\ cancelled' = FALSE /\ backoff' = MinBackoff /\ pause' = 0
    /\ h' = [e \in Env |-> IF h[e] \in P!Live THEN "killed" ELSE h[e]]
    /\ lasted' = [e \in Env |-> 0]
    /\ inbound' = None /\ replies' = {} /\ fails' = 0
    /\ late' = FALSE
    /\ UNCHANGED <<queue, pushed, postWire, answers, starts, result, wire, vault,
                   seen, effects, known, cut>>

(***************************************************************************)
(* The poll loop.                                                          *)
(***************************************************************************)
PollStep ==
    /\ PollRuns
    /\ P!Loop \/ P!PollFails
    /\ UNCHANGED <<selfVars, history>>

HandlerStep ==
    /\ PollRuns
    /\ \E e \in Env : P!Handler(e) \/ P!HandlerFaults(e)
    /\ UNCHANGED <<selfVars, history>>

ServiceStep == P!Services /\ UNCHANGED <<selfVars, history>>

(***************************************************************************)
(* The updater, and the check at boot.                                     *)
(***************************************************************************)
BootStep ==
    /\ S!CheckNothing \/ S!CheckMarker \/ S!Restore \/ S!RestoreFails \/ S!Unmark
       \/ S!CleanMarker \/ S!CleanPrevious
    /\ UNCHANGED <<pollVars, history>>

\* Mutant: the requests of the updater do not carry the context.
FetchStepOn == (S!ManifestNew \/ S!Downloaded) /\ UNCHANGED <<pollVars, history>>

\* A request made under the context does not get through once it is done.
FetchStep ==
    /\ ~cancelled
    /\ S!ManifestNew \/ S!Downloaded
    /\ UNCHANGED <<pollVars, history>>

UpdateStep ==
    /\ S!Probe \/ S!ManifestNothing \/ S!DownloadFails \/ S!CopyOpens \/ S!CopyEnds
       \/ S!CopyFails \/ S!Replace \/ S!ReplaceFails \/ S!Mark \/ S!MarkFails
       \/ S!Reported \/ S!ExecFails
    /\ UNCHANGED <<pollVars, history>>

\* Run and the cleanup goroutine select on the context too.
UpdaterStops ==
    /\ S!Up /\ cancelled /\ upd = "idle"
    /\ upd' = "off" /\ probeIn' = 0
    /\ UNCHANGED <<fixVars, runVars, clean, cleanIn, pollVars, history>>

CleanupStops ==
    /\ S!Up /\ cancelled /\ clean = "timer"
    /\ clean' = "off" /\ cleanIn' = 0
    /\ UNCHANGED <<fixVars, runVars, upd, probeIn, pollVars, history>>

(***************************************************************************)
(* The world.                                                              *)
(***************************************************************************)
Release(v) == S!Release(v) /\ UNCHANGED <<pollVars, history>>

\* Every wait of a signalled process is cut: it does not see another minute.
Tick ==
    /\ S!Up => ~cancelled
    /\ S!Tick /\ UNCHANGED <<pollVars, history>>

Next ==
    \/ Start \/ Signal \/ MainReturns \/ Killed \/ Panics \/ Exec
    \/ PollStep \/ HandlerStep \/ ServiceStep
    \/ BootStep \/ FetchStep \/ UpdateStep \/ UpdaterStops \/ CleanupStops
    \/ Tick \/ \E v \in Version : Release(v)

Spec == Init /\ [][Next]_vars

\* Goroutines are scheduled, and a poll ends: the poll loop's own fairness, with main's.
FairSpec ==
    /\ Spec
    /\ WF_vars(MainReturns) /\ WF_vars(BootStep) /\ WF_vars(Panics)
    /\ WF_vars(PollRuns /\ P!LoopTop /\ UNCHANGED <<selfVars, history>>)
    /\ WF_vars(PollRuns /\ P!Wake /\ UNCHANGED <<selfVars, history>>)
    /\ WF_vars(PollRuns /\ (P!PollEmpty \/ P!PollEnvelope \/ P!PollFails \/ P!PollCancelled)
                 /\ UNCHANGED <<selfVars, history>>)

-----------------------------------------------------------------------------
\* The bridge keeps its promise to the control plane across upgrades: exec drops the
\* handlers with what they know, and still no call is made twice and none is answered
\* before it took effect (selfupdate.go:377).
ImplementsBridge == P!ImplementsBridge

\* A SIGTERM is forgotten by exec only if it came when the download was complete: until
\* then the updater's requests, made under the context, keep it from the swap
\* (selfupdate.go:102, 132-157).
ForgottenOnlyInSwap ==
    [][cancelled /\ S!Up /\ ~cancelled' /\ img' # Down => late]_vars

\* A SIGTERM that came at any other time ends the process.
SignalEndsProcess == cancelled /\ S!Up /\ ~late ~> ~S!Up

\* A build that has not lived through its trial runs without a marker only if some
\* process ended, killed or left by main on a signal, in the one step between a swap and
\* its marker: a kill anywhere else, in the copy, the report, the trial, the rollback or
\* the cleanup, costs no build its watch (selfupdate.go:144-153, main.go:162-167).
UntriedBuildIsWatched ==
    world = "kind" /\ PollRuns /\ img \notin proven => marker # None \/ cut

(***************************************************************************)
(* The inductive invariant of the proofs.  Each part keeps its own, but    *)
(* for what the updater's timers say of a process that is not stopping.    *)
(***************************************************************************)
LoopInv == P!Core /\ P!AnswerInv /\ (S!Up => loop # "down")

\* Nobody comes to the swap once the context is done.
SwapInv == S!Up /\ cancelled /\ upd \in Swap => late

UpdateInv ==
    /\ S!TypeOK /\ S!PlaceInv
    /\ world = "kind" => S!FilesInv /\ S!TurnInv /\ (~cancelled => S!TimerInv)

\* As long as no process has ended between a swap and its marker, only a proven build
\* installs another one, is a backup, or runs unmarked.
TrialInv ==
    /\ proven \cap Broken = {} /\ cut \in BOOLEAN
    /\ img \in Broken /\ clean = "timer" => cleanIn = S!Trial
    /\ world = "kind" /\ ~cut =>
        /\ bin \in proven \/ marker # None \/ upd = "mark"
        /\ S!Up /\ boot # "report" /\ img \notin proven => marker # None
        /\ marker # None => marker.from \in proven
        /\ upd \in S!Installing => img \in proven

Inductive == LoopInv /\ SwapInv /\ UpdateInv /\ TrialInv
=============================================================================
