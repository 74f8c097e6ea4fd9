----------------------------- MODULE SelfUpdate -----------------------------
(***************************************************************************)
(* The self-updater (internal/selfupdate) of one installation: the binary, *)
(* its backup "<binary>.previous", the marker "<binary>.pending", the      *)
(* goroutine that probes the manifest and installs a newer build, and the  *)
(* check every process makes at boot.                                      *)
(*                                                                         *)
(* Time passes in minutes.  A timer that is due fires before the next      *)
(* minute; an HTTP exchange takes up to its 60 s; work on files takes no   *)
(* time, but the process may end between any two of its steps.  Exec       *)
(* replaces the image of the process and ends every other goroutine.       *)
(***************************************************************************)
EXTENDS Integers, FiniteSets

CONSTANTS Version,     \* builds
          First,       \* the build installed by hand
          Broken,      \* builds that die within a minute of every boot
          Unrunnable,  \* builds a rough system refuses to execute
          PollEvery,   \* Config.PollEvery, in minutes
          Worlds,      \* the installations looked at
          MaxReleases, \* bound: how often the manifest changes
          MaxCrashes,  \* bound: how often a build that is not broken is killed
          None, Partial, Absent, Down

ASSUME UpdateAssumption ==
    /\ First \in Version \ (Broken \cup Unrunnable)
    /\ Broken \subseteq Version /\ Unrunnable \subseteq Version
    /\ PollEvery \in Nat /\ PollEvery > 1
    /\ Worlds \subseteq {"kind", "rough", "busy"}
    /\ MaxReleases \in Nat /\ MaxCrashes \in Nat
    /\ Version \cap {None, Partial, Absent, Down} = {}
    /\ None \notin [from : Version, to : Version]
    /\ Partial # Absent

VARIABLES
    \* ---- the disk ----
    bin,      \* what Config.BinaryPath holds
    backup,   \* what .previous holds
    marker,   \* what .pending says
    age,      \* minutes since the marker was written, up to Stale
    \* ---- the process ----
    img,      \* the build it runs
    boot,     \* where CheckPostUpgrade is
    clean,    \* the goroutine CheckPostUpgrade started
    cleanIn,  \* minutes to its timer
    upd,      \* where Run's goroutine is
    probeIn,  \* minutes to the next probe
    spent,    \* minutes the current HTTP exchange has taken
    target,   \* the build being installed
    \* ---- outside ----
    world,    \* the installation, see below
    latest,   \* the manifest's latest_version
    releases, \* times the manifest changed
    crashes,  \* times the process was killed
    \* ---- history ----
    proven,   \* builds declared healthy
    reverted, \* builds rolled back
    boots,    \* boots since the marker was written, up to 2
    panicked  \* did the process end by a nil dereference?

diskVars == <<bin, backup, marker, age>>
updVars  == <<upd, probeIn, spent, target>>
bootVars == <<img, boot, clean, cleanIn>>
outVars  == <<world, latest, releases, crashes>>
histVars == <<proven, reverted, boots, panicked>>
vars     == <<diskVars, updVars, bootVars, outVars, histVars>>

Trial    == 2 \* minutes a build must live: time.After(2 * time.Minute)
Stale    == 6 \* the first whole minute past 5 * time.Minute
Up       == img # Down

(***************************************************************************)
(* Where the agent is installed.  A kind system does what is asked of it.  *)
(* On a rough one writes to the disk may fail, some builds cannot be       *)
(* executed, and a release may come while another one is on trial.  A busy *)
(* one refuses to open a running executable for writing (ETXTBSY).         *)
(***************************************************************************)
DiskFails == world = "rough"
Overlap   == world = "rough"
Runnable  == IF world = "rough" THEN Version \ Unrunnable ELSE Version

\* applicable: the binary must open for writing, though it is the one running.
Applicable == world # "busy"

\* Minutes an exchange may take: 60 s each, two of them in downloadAndVerify.
Limit(pc) == CASE pc = "download" -> 2
               [] pc \in {"manifest", "report failure", "report success"} -> 1
               [] OTHER -> 0

UpdSteps == {"off", "idle", "manifest", "download", "copy", "copying", "replace",
             "mark", "report failure", "report success", "exec"}

Init ==
    /\ bin = First /\ backup = Absent /\ marker = None /\ age = 0
    /\ img = Down /\ boot = "check" /\ clean = "off" /\ cleanIn = 0
    /\ upd = "off" /\ probeIn = 0 /\ spent = 0 /\ target = None
    /\ world \in Worlds /\ latest = First /\ releases = 0 /\ crashes = 0
    /\ proven = {First} /\ reverted = {} /\ boots = 0 /\ panicked = FALSE

(***************************************************************************)
(* Processes.                                                              *)
(***************************************************************************)
\* A new image, by the supervisor or by exec: main starts over.
Boots(v) ==
    /\ img' = v /\ boot' = "check"
    /\ clean' = "off" /\ cleanIn' = 0
    /\ upd' = "off" /\ probeIn' = 0 /\ spent' = 0 /\ target' = None
    /\ boots' = IF v # Down /\ marker # None /\ boots < 2 THEN boots + 1 ELSE boots

Start ==
    /\ ~Up /\ bin \in Runnable
    /\ Boots(bin)
    /\ UNCHANGED <<diskVars, outVars, proven, reverted, panicked>>

\* The process ends: killed, or a build that cannot live.
Crash ==
    /\ Up
    /\ IF img \in Broken THEN boot = "run" /\ crashes' = crashes
       ELSE crashes < MaxCrashes /\ crashes' = crashes + 1
    /\ Boots(Down)
    /\ UNCHANGED <<diskVars, world, latest, releases, proven, reverted, panicked>>

(***************************************************************************)
(* CheckPostUpgrade, then "go Run".                                        *)
(***************************************************************************)
\* Run starts its timer: the first probe comes after a minute.
GoRun ==
    /\ boot' = "run"
    /\ upd' = IF Applicable THEN "idle" ELSE "off"
    /\ probeIn' = IF Applicable THEN 1 ELSE 0

\* No marker, or an installation that is left alone.
CheckNothing ==
    /\ Up /\ boot = "check" /\ (~Applicable \/ marker = None)
    /\ GoRun
    /\ UNCHANGED <<diskVars, img, clean, cleanIn, spent, target, outVars, histVars>>

\* Mutant: every boot makes the marker young again.
CheckMarkerTouched ==
    /\ Up /\ boot = "check" /\ Applicable /\ marker # None
    /\ clean' = "timer" /\ cleanIn' = Trial
    /\ age' = 0
    /\ IF age >= Stale THEN boot' = "restore" /\ UNCHANGED <<upd, probeIn>> ELSE GoRun
    /\ UNCHANGED <<bin, backup, marker, img, spent, target, outVars, histVars>>

\* Mutant: the first boot that finds the marker removes it.
CheckMarkerCleared ==
    /\ Up /\ boot = "check" /\ Applicable /\ marker # None
    /\ clean' = "timer" /\ cleanIn' = Trial
    /\ marker' = None /\ age' = 0
    /\ IF age >= Stale THEN boot' = "restore" /\ UNCHANGED <<upd, probeIn>> ELSE GoRun
    /\ UNCHANGED <<bin, backup, img, spent, target, outVars, histVars>>

\* The cleanup is scheduled whatever the age of the marker.
CheckMarker ==
    /\ Up /\ boot = "check" /\ Applicable /\ marker # None
    /\ clean' = "timer" /\ cleanIn' = Trial
    /\ IF age >= Stale THEN boot' = "restore" /\ UNCHANGED <<upd, probeIn>> ELSE GoRun
    /\ UNCHANGED <<diskVars, img, spent, target, outVars, histVars>>

\* atomicReplace(binary, previous).
Restore ==
    /\ Up /\ boot = "restore" /\ backup # Absent
    /\ bin' = backup
    /\ boot' = "unmark"
    /\ reverted' = reverted \cup {img}
    /\ UNCHANGED <<backup, marker, age, img, clean, cleanIn, updVars, outVars, proven,
                   boots, panicked>>

RestoreFails ==
    /\ Up /\ boot = "restore" /\ (backup = Absent \/ DiskFails)
    /\ GoRun
    /\ UNCHANGED <<diskVars, img, clean, cleanIn, spent, target, outVars, histVars>>

\* Mutant: the marker is removed before the backup is put back.
UnmarkFirst ==
    /\ Up /\ boot = "restore" /\ marker # None
    /\ marker' = None /\ age' = 0
    /\ UNCHANGED <<bin, backup, img, boot, clean, cleanIn, updVars, outVars, histVars>>

Unmark ==
    /\ Up /\ boot = "unmark"
    /\ marker' = None /\ age' = 0
    /\ boot' = "report"
    /\ UNCHANGED <<bin, backup, img, clean, cleanIn, updVars, outVars, histVars>>

\* reportOutcome with the Config main passes, whose HTTP is nil: Run gives a client
\* to its own copy only.  The call ends the process before it re-execs.
ReportReverted ==
    /\ Up /\ boot = "report"
    /\ Boots(Down)
    /\ panicked' = TRUE
    /\ UNCHANGED <<diskVars, outVars, proven, reverted>>

\* Mutant: the backup is removed, the marker stays.
CleanMarkerForgotten ==
    /\ Up /\ clean = "timer" /\ cleanIn = 0 /\ boot = "run"
    /\ backup' = Absent
    /\ clean' = "previous"
    /\ proven' = proven \cup {img}
    /\ UNCHANGED <<bin, marker, age, img, boot, cleanIn, updVars, outVars, reverted, boots,
                   panicked>>

\* Two minutes after the check: remove the marker, then the backup.
CleanMarker ==
    /\ Up /\ clean = "timer" /\ cleanIn = 0 /\ boot = "run"
    /\ marker' = None /\ age' = 0
    /\ clean' = "previous"
    /\ proven' = proven \cup {img}
    /\ UNCHANGED <<bin, backup, img, boot, cleanIn, updVars, outVars, reverted, boots,
                   panicked>>

CleanPrevious ==
    /\ Up /\ clean = "previous"
    /\ backup' = Absent
    /\ clean' = "off"
    /\ UNCHANGED <<bin, marker, age, img, boot, cleanIn, updVars, outVars, histVars>>

(***************************************************************************)
(* Run and pollAndMaybeUpgrade.                                            *)
(***************************************************************************)
\* The updater goes on to its next step.
UpdGoes(from, to) == upd = from /\ upd' = to /\ spent' = 0

Probe ==
    /\ probeIn = 0 /\ UpdGoes("idle", "manifest")
    /\ probeIn' = PollEvery
    /\ UNCHANGED <<target, diskVars, bootVars, outVars, histVars>>

\* The manifest cannot be had, or names the running build.
ManifestNothing ==
    /\ UpdGoes("manifest", "idle")
    /\ UNCHANGED <<probeIn, target, diskVars, bootVars, outVars, histVars>>

ManifestNew ==
    /\ latest # img /\ UpdGoes("manifest", "download")
    /\ target' = latest
    /\ UNCHANGED <<probeIn, diskVars, bootVars, outVars, histVars>>

Downloaded ==
    /\ UpdGoes("download", "copy")
    /\ UNCHANGED <<probeIn, target, diskVars, bootVars, outVars, histVars>>

\* A transfer breaks, the sum differs, the tarball lacks the binary.
DownloadFails ==
    /\ UpdGoes("download", "report failure")
    /\ UNCHANGED <<probeIn, target, diskVars, bootVars, outVars, histVars>>

\* copyFile opens the backup with O_TRUNC ...
CopyOpens ==
    /\ UpdGoes("copy", "copying")
    /\ backup' = Partial
    /\ UNCHANGED <<bin, marker, age, probeIn, target, bootVars, outVars, histVars>>

\* ... and fills it, unless it was removed meanwhile.
CopyEnds ==
    /\ UpdGoes("copying", "replace")
    /\ backup' = IF backup = Absent THEN Absent ELSE bin
    /\ UNCHANGED <<bin, marker, age, probeIn, target, bootVars, outVars, histVars>>

\* An error of copyFile is ignored.
CopyFails ==
    /\ DiskFails
    /\ UpdGoes("copy", "replace") \/ UpdGoes("copying", "replace")
    /\ UNCHANGED <<diskVars, probeIn, target, bootVars, outVars, histVars>>

\* Mutant: the binary is written in place.
ReplaceInPlace ==
    /\ UpdGoes("replace", "mark")
    /\ bin' \in {target, Partial}
    /\ UNCHANGED <<backup, marker, age, probeIn, target, bootVars, outVars, histVars>>

\* atomicReplace writes a file of its own and renames it.
Replace ==
    /\ UpdGoes("replace", "mark")
    /\ bin' = target
    /\ UNCHANGED <<backup, marker, age, probeIn, target, bootVars, outVars, histVars>>

ReplaceFails ==
    /\ DiskFails /\ UpdGoes("replace", "report failure")
    /\ UNCHANGED <<diskVars, probeIn, target, bootVars, outVars, histVars>>

Mark ==
    /\ UpdGoes("mark", "report success")
    /\ marker' = [from |-> img, to |-> target] /\ age' = 0
    /\ boots' = 0
    /\ UNCHANGED <<bin, backup, probeIn, target, bootVars, outVars, proven, reverted,
                   panicked>>

MarkFails ==
    /\ DiskFails /\ UpdGoes("mark", "report success")
    /\ UNCHANGED <<diskVars, probeIn, target, bootVars, outVars, histVars>>

\* Mutant: the new binary is left for the next start.
ReportedNoExec ==
    /\ UpdGoes("report failure", "idle") \/ UpdGoes("report success", "idle")
    /\ UNCHANGED <<probeIn, target, diskVars, bootVars, outVars, histVars>>

\* The answer to a report is not looked at.
Reported ==
    /\ UpdGoes("report failure", "idle") \/ UpdGoes("report success", "exec")
    /\ UNCHANGED <<probeIn, target, diskVars, bootVars, outVars, histVars>>

Exec ==
    /\ upd = "exec" /\ bin \in Runnable
    /\ Boots(bin)
    /\ UNCHANGED <<diskVars, outVars, proven, reverted, panicked>>

\* The error of exec is logged; the old image goes on.
ExecFails ==
    /\ bin \notin Runnable /\ UpdGoes("exec", "idle")
    /\ UNCHANGED <<probeIn, target, diskVars, bootVars, outVars, histVars>>

(***************************************************************************)
(* The world.                                                              *)
(***************************************************************************)
Release(v) ==
    /\ v # latest /\ releases < MaxReleases
    /\ ~Overlap => marker = None /\ upd \in {"off", "idle"}
    /\ latest' = v
    /\ releases' = releases + 1
    /\ UNCHANGED <<diskVars, updVars, bootVars, world, crashes, histVars>>

\* A minute passes; whatever is due comes first.
Tick ==
    /\ Up => /\ boot = "run" /\ img \notin Broken
             /\ clean = "previous" => FALSE
             /\ clean = "timer" => cleanIn > 0
             /\ upd = "idle" => probeIn > 0
             /\ upd \notin {"off", "idle"} => spent < Limit(upd)
    /\ age' = IF marker # None /\ age < Stale THEN age + 1 ELSE age
    /\ cleanIn' = IF clean = "timer" THEN cleanIn - 1 ELSE cleanIn
    /\ probeIn' = IF probeIn > 0 THEN probeIn - 1 ELSE probeIn
    /\ spent' = IF Limit(upd) > 0 THEN spent + 1 ELSE spent
    /\ UNCHANGED <<bin, backup, marker, img, boot, clean, upd, target, outVars, histVars>>

Boot == Start \/ CheckNothing \/ CheckMarker \/ Restore \/ RestoreFails \/ Unmark
        \/ ReportReverted \/ CleanMarker \/ CleanPrevious

Updater == Probe \/ ManifestNothing \/ ManifestNew \/ Downloaded \/ DownloadFails
           \/ CopyOpens \/ CopyEnds \/ CopyFails \/ Replace \/ ReplaceFails
           \/ Mark \/ MarkFails \/ Reported \/ Exec \/ ExecFails

Next == Boot \/ Updater \/ Crash \/ Tick \/ \E v \in Version : Release(v)

Spec == Init /\ [][Next]_vars

(***************************************************************************)
(* Fairness.  A supervisor starts the agent again, goroutines are          *)
(* scheduled, time passes, a broken build dies, and the manifest and the   *)
(* tarball can be had if they are asked for again and again.               *)
(***************************************************************************)
FairSpec ==
    /\ Spec
    /\ WF_vars(Boot) /\ WF_vars(Crash /\ img \in Broken)
    /\ WF_vars(Probe \/ CopyOpens \/ CopyEnds \/ Replace \/ Mark \/ Reported \/ Exec)
    /\ SF_vars(Tick) /\ SF_vars(ManifestNew) /\ SF_vars(Downloaded)

-----------------------------------------------------------------------------
TypeOK ==
    /\ bin \in Version \cup {Partial} /\ backup \in Version \cup {Partial, Absent}
    /\ marker \in [from : Version, to : Version] \cup {None} /\ age \in 0..Stale
    /\ img \in Version \cup {Down}
    /\ boot \in {"check", "restore", "unmark", "report", "run"}
    /\ clean \in {"off", "timer", "previous"} /\ cleanIn \in 0..Trial
    /\ upd \in UpdSteps /\ probeIn \in 0..PollEvery /\ spent \in 0..2
    /\ target \in Version \cup {None}
    /\ world \in Worlds /\ latest \in Version /\ releases \in 0..MaxReleases /\ crashes \in 0..MaxCrashes
    /\ proven \subseteq Version /\ reverted \subseteq Version /\ boots \in 0..2
    /\ panicked \in BOOLEAN

\* On a kind system, while the marker is there the backup is the whole build the marker
\* says was replaced, and the binary is the build on trial or that backup put back: a
\* kill at any step of an upgrade or of a rollback leaves files the next boot can use
\* (selfupdate.go:141-153, 191-195).
MarkerTellsTruth ==
    world = "kind" /\ marker # None => backup = marker.from /\ bin \in {marker.to, marker.from}

\* On a kind system no rollback finds a backup that was cut short, kills included; on a
\* rough one it takes a rollback to leave half a binary: an upgrade puts a whole build
\* in place or none (copyFile's error is ignored, selfupdate.go:142, 342-363).
UpgradeSwapsWhole == bin = Partial => world = "rough" /\ reverted # {}

\* On a kind system the marker goes only when the build on disk is settled: put back, or
\* the very build that has just lived through its trial.
MarkerGoesWithCause ==
    [][world = "kind" /\ marker # None /\ marker' = None =>
          \/ boot = "unmark" /\ bin = backup
          \/ clean = "timer" /\ img = bin /\ marker.to = img]_vars

\* On a kind system a build that dies at every boot does not stay on disk: restarts and
\* the passing of time bring the replaced build back.
BrokenBuildLeaves ==
    world = "kind" /\ bin \in Broken /\ marker # None ~> bin \notin Broken

\* On a kind system a good release, unless another one follows, is installed and lives
\* through its trial, whatever broken build came before; with no kill and no rollback
\* its files are cleared away.  The one exception, after some kill, is a broken build
\* without a marker, which nothing puts out again; UntriedBuildIsWatched of Agent says
\* which kills leave one.
ReleaseSettles ==
    \A v \in Version \ Broken :
        world = "kind" /\ latest = v ~>
            \/ latest # v
            \/ img \in Broken /\ marker = None /\ crashes > 0
            \/ img = v /\ marker = None /\ (backup = Absent \/ crashes > 0 \/ reverted # {})

(***************************************************************************)
(* The inductive invariant the proofs rest on.                             *)
(***************************************************************************)
\* From the answer that names a newer build to the end of its installation.
Installing == {"download", "copy", "copying", "replace", "mark", "report success", "exec"}

\* Run's goroutine lives in a process that is past its check, and installs a build.
PlaceInv ==
    /\ ~Up => boot = "check"
    /\ upd # "off" => boot = "run"
    /\ upd \in Installing => target \in Version
    /\ boot = "check" => clean = "off"
    /\ clean = "previous" => boot = "run"
    /\ boot \in {"restore", "unmark"} => Applicable /\ marker # None

\* Between two upgrades and during each, the files and the process agree on what was
\* replaced by what.  The marker names the manifest's build, so that no probe starts an
\* upgrade over one that is on trial.
FilesInv ==
    /\ bin \in Version
    /\ marker # None => /\ backup = marker.from /\ marker.to = latest
                        /\ marker.from # marker.to
                        /\ bin \in {marker.to, marker.from}
                        /\ bin = marker.from => age = Stale /\ boot # "run"
    /\ Up /\ upd \notin {"mark", "report success", "exec"} /\ boot \in {"check", "restore", "run"}
            => bin = img
    /\ upd \in Installing => target = latest /\ target # img
    /\ upd = "copying" => backup = Partial
    /\ upd \in {"replace", "mark"} => backup = img
    /\ upd \in {"mark", "report success", "exec"} => bin = target
    /\ boot = "restore" => age = Stale
    /\ boot = "unmark" => bin = backup

\* An upgrade begins when nothing is left of the one before it.
TurnInv ==
    /\ upd \in Installing \cup {"report failure"} => clean = "off"
    /\ upd \in {"download", "copy", "copying", "replace", "mark", "report failure"}
            => marker = None
    /\ boot = "run" /\ clean = "timer" => marker # None
    /\ boot = "run" /\ clean = "previous" => marker = None

\* A build on trial has its cleanup goroutine, which is done before the second probe: the
\* first one finds the marker.
TimerInv ==
    /\ boot = "run" /\ marker # None /\ clean = "off" => upd \in {"report success", "exec"}
    /\ boot = "run" /\ clean # "off" =>
        \/ clean = "timer" /\ upd = "idle" /\ probeIn = cleanIn - 1
        \/ /\ upd \in {"idle", "manifest"} /\ cleanIn <= 1
           /\ probeIn = PollEvery + cleanIn - 1
           /\ clean = "previous" => cleanIn = 0
           /\ clean = "previous" /\ upd = "manifest" => latest = img

Inductive ==
    /\ TypeOK /\ PlaceInv /\ UpgradeSwapsWhole
    /\ world = "kind" => FilesInv /\ TurnInv /\ TimerInv

(***************************************************************************)
(* What comments of the code say and the code does not do.                 *)
(***************************************************************************)
\* selfupdate.go:161: "Successful boots clear both files"; a boot that finds the marker
\* goes through its check without dying of it.
RollbackSurvives == ~panicked
=============================================================================
