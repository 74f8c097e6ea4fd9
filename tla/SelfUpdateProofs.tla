-------------------------- MODULE SelfUpdateProofs --------------------------
(***************************************************************************)
(* What SelfUpdate guarantees for any set of builds, broken or not, any    *)
(* number of releases and of kills, and any time between two probes that   *)
(* is longer than a minute.                                                *)
(***************************************************************************)
EXTENDS SelfUpdate, TLAPS

\* The time of an exchange is bounded at every step, and there is none in between.
LEMMA LimitBounded ==
    /\ \A pc : Limit(pc) \in 0..2
    /\ Limit("off") = 0 /\ Limit("idle") = 0
  <1>1. \A pc : Limit(pc) = 0 \/ Limit(pc) = 1 \/ Limit(pc) = 2
    BY Zenon DEF Limit
  <1>2. Limit("off") = 0 /\ Limit("idle") = 0
    BY Zenon DEF Limit
  <1>3. QED
    BY <1>1, <1>2

(***************************************************************************)
(* Types and places.                                                       *)
(***************************************************************************)
LEMMA InitInductive == Init => Inductive
  <1> SUFFICES ASSUME Init PROVE Inductive
    OBVIOUS
  <1>1. TypeOK
    <2>1. upd \in UpdSteps
      BY DEF Init, UpdSteps
    <2>2. /\ First \in Version /\ 0 \in 0..MaxReleases /\ 0 \in 0..MaxCrashes
          /\ 0 \in 0..PollEvery /\ 0 \in 0..Stale /\ 0 \in 0..Trial /\ 0 \in 0..2
      BY UpdateAssumption DEF Stale, Trial
    <2>3. QED
      BY <2>1, <2>2 DEF Init, TypeOK
  <1>2. PlaceInv /\ UpgradeSwapsWhole
    BY UpdateAssumption DEF Init, PlaceInv, Installing, UpgradeSwapsWhole, Up
  <1>3. FilesInv
    BY UpdateAssumption DEF Init, FilesInv, Installing, Up
  <1>4. TurnInv /\ TimerInv
    BY DEF Init, TurnInv, TimerInv, Installing
  <1>5. QED
    BY <1>1, <1>2, <1>3, <1>4 DEF Inductive

\* Run's goroutine is always at one of its steps.
LEMMA NextStep == upd \in UpdSteps /\ [Next]_vars => upd' \in UpdSteps
  <1> SUFFICES ASSUME upd \in UpdSteps, Next PROVE upd' \in UpdSteps
    BY DEF vars, updVars
  <1>1. CASE Boot \/ Crash \/ Tick \/ \E v \in Version : Release(v)
    BY <1>1
    DEF UpdSteps, Boot, Start, CheckNothing, CheckMarker, Restore, RestoreFails, Unmark,
        ReportReverted, CleanMarker, CleanPrevious, Crash, Boots, GoRun, Tick, Release, updVars
  <1>2. CASE Updater
    BY <1>2
    DEF UpdSteps, Updater, UpdGoes, Probe, ManifestNothing, ManifestNew, Downloaded,
        DownloadFails, CopyOpens, CopyEnds, CopyFails, Replace, ReplaceFails, Mark, MarkFails,
        Reported, Exec, ExecFails, Boots
  <1>3. QED
    BY <1>1, <1>2 DEF Next

LEMMA NextTypeOK == TypeOK /\ PlaceInv /\ [Next]_vars => TypeOK'
  <1> SUFFICES ASSUME TypeOK, PlaceInv, [Next]_vars PROVE TypeOK'
    OBVIOUS
  <1>0. upd' \in UpdSteps
    BY NextStep DEF TypeOK
  <1> USE UpdateAssumption, <1>0 DEF TypeOK, Stale, Trial
  <1>1. ASSUME NEW v \in Version \cup {Down}, Boots(v),
               UNCHANGED <<diskVars, world, latest, releases>>,
               crashes' \in 0..MaxCrashes, proven' = proven, reverted' = reverted,
               panicked' \in BOOLEAN
        PROVE  TypeOK'
    BY <1>1 DEF Boots, diskVars
  <1>2. CASE Start \/ Exec
    BY <1>1, <1>2 DEF Start, Exec, Runnable, outVars
  <1>3. CASE Crash \/ ReportReverted
    <2>1. crashes' \in 0..MaxCrashes
      BY <1>3 DEF Crash, ReportReverted, outVars
    <2>2. QED
      BY <1>1, <1>3, <2>1 DEF Crash, ReportReverted, outVars
  <1>4. CASE CheckNothing \/ CheckMarker \/ RestoreFails
    BY <1>4 DEF CheckNothing, CheckMarker, RestoreFails, GoRun, diskVars, outVars, histVars
  <1>5. CASE Restore \/ Unmark \/ CleanMarker \/ CleanPrevious
    BY <1>5 DEF Restore, Unmark, CleanMarker, CleanPrevious, Up, updVars, outVars, histVars
  <1>6. CASE Probe \/ ManifestNothing \/ ManifestNew \/ Downloaded \/ DownloadFails
             \/ Reported \/ ExecFails \/ ReplaceFails \/ MarkFails
    <2>1. /\ probeIn' \in {probeIn, PollEvery} /\ spent' = 0 /\ target' \in {target, latest}
          /\ UNCHANGED <<diskVars, bootVars, outVars, histVars>>
      <3> HIDE UpdateAssumption, <1>0 DEF TypeOK
      <3>1. QED
        BY <1>6 DEF Probe, ManifestNothing, ManifestNew, Downloaded, DownloadFails, Reported,
                    ExecFails, ReplaceFails, MarkFails, UpdGoes
    <2>2. QED
      BY <2>1 DEF diskVars, bootVars, outVars, histVars
  <1>7. CASE CopyOpens \/ CopyEnds \/ CopyFails \/ Replace \/ Mark
    <2>1. upd \in Installing => target \in Version /\ img \in Version
      BY DEF PlaceInv, Installing, Up
    <2>2. ASSUME bin' \in Version \cup {Partial}, backup' \in Version \cup {Partial, Absent},
                 marker' \in [from : Version, to : Version] \cup {None}, age' \in 0..Stale,
                 boots' \in 0..2, spent' = 0,
                 UNCHANGED <<probeIn, target, bootVars, outVars, proven, reverted, panicked>>
          PROVE  TypeOK'
      BY <2>2 DEF bootVars, outVars
    <2>3. CASE CopyOpens \/ CopyEnds \/ CopyFails
      BY <2>2, <2>3 DEF CopyOpens, CopyEnds, CopyFails, UpdGoes, diskVars, histVars
    <2>4. CASE Replace
      BY <2>1, <2>2, <2>4 DEF Replace, UpdGoes, Installing, histVars
    <2>5. CASE Mark
      <3>1. img \in Version /\ target \in Version
        BY <2>1, <2>5 DEF Mark, UpdGoes, Installing
      <3>2. marker' \in [from : Version, to : Version]
        BY <2>5, <3>1 DEF Mark
      <3>3. /\ UNCHANGED <<bin, backup, probeIn, target, bootVars, outVars, proven, reverted,
                            panicked>>
            /\ age' = 0 /\ boots' = 0 /\ spent' = 0
        BY <2>5 DEF Mark, UpdGoes
      <3>4. QED
        BY <2>2, <3>2, <3>3
    <2>6. QED
      BY <1>7, <2>3, <2>4, <2>5
  <1>8. CASE Tick
    BY <1>8, LimitBounded DEF Tick, PlaceInv, outVars, histVars
  <1>9. ASSUME NEW v \in Version, Release(v) PROVE TypeOK'
    BY <1>9 DEF Release, diskVars, updVars, bootVars, histVars
  <1>10. CASE UNCHANGED vars
    BY <1>10 DEF vars, diskVars, updVars, bootVars, outVars, histVars
  <1>11. QED
    BY <1>2, <1>3, <1>4, <1>5, <1>6, <1>7, <1>8, <1>9, <1>10 DEF Next, Boot, Updater

\* A boot starts everything anew.
LEMMA BootsPlace ==
    ASSUME UpdateAssumption, NEW v, Boots(v)
    PROVE  PlaceInv'
  BY DEF Boots, PlaceInv, Installing, Up

LEMMA NextPlaceInv ==
    ASSUME TypeOK, PlaceInv, TypeOK', [Next]_vars PROVE PlaceInv'
  <1>1. CASE Start \/ Exec \/ Crash \/ ReportReverted
    BY <1>1, BootsPlace, UpdateAssumption DEF Start, Exec, Crash, ReportReverted
  <1>2. CASE CheckNothing \/ CheckMarker \/ Restore \/ RestoreFails \/ Unmark
             \/ CleanMarker \/ CleanPrevious
    BY <1>2
    DEF CheckNothing, CheckMarker, Restore, RestoreFails, Unmark, CleanMarker, CleanPrevious,
        GoRun, PlaceInv, Installing, Up, Applicable, diskVars, updVars, outVars
  <1>3. CASE Probe \/ ManifestNothing \/ ManifestNew \/ Downloaded \/ DownloadFails
             \/ Reported \/ ExecFails \/ ReplaceFails \/ MarkFails \/ CopyOpens \/ CopyEnds
             \/ CopyFails \/ Replace
    BY <1>3
    DEF Probe, ManifestNothing, ManifestNew, Downloaded, DownloadFails, Reported, ExecFails,
        ReplaceFails, MarkFails, CopyOpens, CopyEnds, CopyFails, Replace, UpdGoes, PlaceInv,
        Installing, Up, Applicable, TypeOK, diskVars, bootVars, outVars
  <1>4. CASE Mark
    BY <1>4 DEF Mark, UpdGoes, PlaceInv, Installing, Up, Applicable, bootVars, outVars
  <1>5. CASE Tick \/ (\E v \in Version : Release(v)) \/ UNCHANGED vars
    BY <1>5 DEF Tick, Release, PlaceInv, Up, Applicable, diskVars, updVars, bootVars,
                outVars, vars
  <1>6. QED
    BY <1>1, <1>2, <1>3, <1>4, <1>5 DEF Next, Boot, Updater

LEMMA NextSwapsWhole ==
    ASSUME TypeOK, PlaceInv, UpgradeSwapsWhole, world = "kind" => FilesInv, [Next]_vars
    PROVE  UpgradeSwapsWhole'
  <1>1. CASE UNCHANGED <<bin, world, reverted>>
    BY <1>1 DEF UpgradeSwapsWhole
  <1>2. CASE Restore
    <2>1. /\ bin' = backup /\ reverted' = reverted \cup {img} /\ world' = world
          /\ marker # None /\ Applicable
      BY <1>2 DEF Restore, PlaceInv, outVars
    <2>2. world = "kind" => backup # Partial
      BY <2>1, UpdateAssumption DEF FilesInv, TypeOK
    <2>3. world \in {"kind", "rough", "busy"}
      BY UpdateAssumption DEF TypeOK
    <2>4. QED
      BY <2>1, <2>2, <2>3 DEF UpgradeSwapsWhole, Applicable
  <1>3. CASE Replace
    <2>1. bin' = target /\ target \in Version
      BY <1>3 DEF Replace, UpdGoes, PlaceInv, Installing
    <2>2. QED
      BY <2>1, UpdateAssumption DEF UpgradeSwapsWhole
  <1>4. CASE Start \/ CheckNothing \/ CheckMarker \/ RestoreFails \/ Unmark \/ ReportReverted
             \/ CleanMarker \/ CleanPrevious \/ Crash \/ Tick
             \/ (\E v \in Version : Release(v)) \/ UNCHANGED vars
    BY <1>1, <1>4
    DEF Start, CheckNothing, CheckMarker, RestoreFails, Unmark, ReportReverted, CleanMarker,
        CleanPrevious, Crash, Tick, Release, diskVars, outVars, histVars, vars
  <1>5. CASE Probe \/ ManifestNothing \/ ManifestNew \/ Downloaded \/ DownloadFails
             \/ CopyOpens \/ CopyEnds \/ CopyFails \/ ReplaceFails \/ Mark \/ MarkFails
             \/ Reported \/ Exec \/ ExecFails
    BY <1>1, <1>5
    DEF Probe, ManifestNothing, ManifestNew, Downloaded, DownloadFails, CopyOpens, CopyEnds,
        CopyFails, ReplaceFails, Mark, MarkFails, Reported, Exec, ExecFails, diskVars, outVars,
        histVars
  <1>6. QED
    BY <1>2, <1>3, <1>4, <1>5 DEF Next, Boot, Updater

(***************************************************************************)
(* A kind system.                                                          *)
(***************************************************************************)
LEMMA NextFilesInv ==
    ASSUME TypeOK, TypeOK', PlaceInv, FilesInv, TurnInv, world = "kind", [Next]_vars
    PROVE  FilesInv'
  <1> USE UpdateAssumption DEF Installing
  <1>1. CASE Start \/ Exec
    BY <1>1 DEF Start, Exec, Boots, FilesInv, diskVars, outVars
  <1>2. CASE Crash \/ ReportReverted
    BY <1>2 DEF Crash, ReportReverted, Boots, FilesInv, Up, diskVars, outVars
  <1>3. CASE CheckNothing
    BY <1>3 DEF CheckNothing, GoRun, Applicable, FilesInv, PlaceInv, Up, diskVars, outVars
  <1>4. CASE CheckMarker
    <2>1. /\ Up /\ boot = "check" /\ boot' \in {"restore", "run"} /\ upd' \in {"off", "idle"}
          /\ boot' = "restore" <=> age >= Stale
          /\ UNCHANGED <<diskVars, img, target, latest>>
      BY <1>4 DEF CheckMarker, GoRun, PlaceInv, outVars
    <2>2. age >= Stale <=> age = Stale
      BY DEF TypeOK, Stale
    <2>3. QED
      BY <2>1, <2>2 DEF FilesInv, PlaceInv, Up, diskVars
  <1>5. CASE Restore
    BY <1>5 DEF Restore, FilesInv, PlaceInv, TypeOK, Up, updVars, outVars
  <1>6. CASE RestoreFails
    BY <1>6 DEF RestoreFails, FilesInv, PlaceInv, TypeOK, DiskFails
  <1>7. CASE Unmark
    BY <1>7 DEF Unmark, FilesInv, Up, updVars, outVars
  <1>8. CASE CleanMarker
    BY <1>8 DEF CleanMarker, FilesInv, Up, updVars, outVars
  <1>9. CASE CleanPrevious
    BY <1>9 DEF CleanPrevious, FilesInv, PlaceInv, TurnInv, Up, updVars, outVars
  <1>10. CASE Probe \/ ManifestNothing \/ ManifestNew \/ Downloaded \/ DownloadFails
    BY <1>10 DEF Probe, ManifestNothing, ManifestNew, Downloaded, DownloadFails, UpdGoes,
                 FilesInv, Up, diskVars, bootVars, outVars
  <1>11. CASE CopyOpens \/ CopyEnds
    BY <1>11 DEF CopyOpens, CopyEnds, UpdGoes, FilesInv, TurnInv, PlaceInv, TypeOK, Up,
                 bootVars, outVars
  <1>12. CASE Replace
    BY <1>12 DEF Replace, UpdGoes, FilesInv, TurnInv, PlaceInv, Up, bootVars, outVars
  <1>13. CASE CopyFails \/ ReplaceFails \/ MarkFails \/ ExecFails
    BY <1>13 DEF CopyFails, ReplaceFails, MarkFails, ExecFails, DiskFails, Runnable, FilesInv
  <1>14. CASE Mark
    BY <1>14 DEF Mark, UpdGoes, FilesInv, TurnInv, PlaceInv, TypeOK, Up, bootVars, outVars
  <1>15. CASE Reported
    BY <1>15 DEF Reported, UpdGoes, FilesInv, Up, diskVars, bootVars, outVars
  <1>16. CASE Tick
    <2>1. boot \in {"check", "run"} /\ UNCHANGED <<bin, backup, marker, img, boot, upd, target, latest>>
      BY <1>16 DEF Tick, PlaceInv, outVars
    <2>2. age = Stale => age' = Stale
      BY <1>16 DEF Tick, Stale
    <2>3. QED
      BY <2>1, <2>2 DEF FilesInv, Up
  <1>17. ASSUME NEW v \in Version, Release(v) PROVE FilesInv'
    BY <1>17 DEF Release, Overlap, FilesInv, Up, diskVars, updVars, bootVars
  <1>18. CASE UNCHANGED vars
    BY <1>18 DEF FilesInv, Up, vars, diskVars, updVars, bootVars, outVars
  <1>19. QED
    BY <1>1, <1>2, <1>3, <1>4, <1>5, <1>6, <1>7, <1>8, <1>9, <1>10, <1>11, <1>12, <1>13,
       <1>14, <1>15, <1>16, <1>17, <1>18 DEF Next, Boot, Updater

\* Only the answer that starts an upgrade needs the timer: it must find nothing on trial.
LEMMA NextTurnInv ==
    ASSUME TypeOK, PlaceInv, FilesInv, TurnInv, ManifestNew => TimerInv, world = "kind",
           [Next]_vars
    PROVE  TurnInv'
  <1> USE DEF Installing
  <1>1. CASE Start \/ Exec \/ Crash \/ ReportReverted
    BY <1>1 DEF Start, Exec, Crash, ReportReverted, Boots, TurnInv
  <1>2. CASE CheckNothing \/ CheckMarker
    BY <1>2 DEF CheckNothing, CheckMarker, GoRun, TurnInv, PlaceInv, Applicable, diskVars
  <1>3. CASE Restore \/ RestoreFails \/ Unmark
    <2>1. backup # Absent \/ boot # "restore"
      BY UpdateAssumption DEF PlaceInv, FilesInv, TypeOK
    <2>2. QED
      BY <1>3, <2>1 DEF Restore, RestoreFails, Unmark, DiskFails, TurnInv, PlaceInv, updVars
  <1>4. CASE CleanMarker \/ CleanPrevious
    BY <1>4 DEF CleanMarker, CleanPrevious, TurnInv, PlaceInv, updVars
  <1>5. CASE Probe \/ ManifestNothing \/ Downloaded \/ DownloadFails
             \/ CopyOpens \/ CopyEnds \/ Replace \/ Reported
    BY <1>5 DEF Probe, ManifestNothing, Downloaded, DownloadFails, CopyOpens, CopyEnds,
                Replace, Reported, UpdGoes, TurnInv, diskVars, bootVars
  <1>6. CASE CopyFails \/ ReplaceFails \/ MarkFails \/ ExecFails
    BY <1>6 DEF CopyFails, ReplaceFails, MarkFails, ExecFails, DiskFails, Runnable, FilesInv
  <1>7. CASE ManifestNew
    <2>1. upd = "manifest" /\ boot = "run" /\ bin = img /\ latest # img
      BY <1>7 DEF ManifestNew, UpdGoes, PlaceInv, FilesInv, Up
    <2>2. clean = "off" /\ marker = None
      BY <1>7, <2>1, UpdateAssumption DEF TurnInv, TimerInv, FilesInv, TypeOK
    <2>3. QED
      BY <1>7, <2>1, <2>2 DEF ManifestNew, UpdGoes, TurnInv, diskVars, bootVars
  <1>8. CASE Mark
    BY <1>8 DEF Mark, UpdGoes, TurnInv, bootVars
  <1>9. CASE Tick \/ (\E v \in Version : Release(v)) \/ UNCHANGED vars
    BY <1>9 DEF Tick, Release, TurnInv, diskVars, updVars, bootVars, vars
  <1>10. QED
    BY <1>1, <1>2, <1>3, <1>4, <1>5, <1>6, <1>7, <1>8, <1>9 DEF Next, Boot, Updater

LEMMA NextTimerInv ==
    ASSUME TypeOK, PlaceInv, FilesInv, TurnInv, TimerInv, world = "kind", [Next]_vars
    PROVE  TimerInv'
  <1> USE UpdateAssumption DEF Installing
  <1>1. CASE Start \/ Exec \/ Crash \/ ReportReverted
    BY <1>1 DEF Start, Exec, Crash, ReportReverted, Boots, TimerInv
  <1>2. CASE CheckNothing
    BY <1>2 DEF CheckNothing, GoRun, PlaceInv, TimerInv, Applicable, diskVars
  <1>3. CASE CheckMarker
    BY <1>3 DEF CheckMarker, GoRun, TimerInv, Trial
  <1>4. CASE Restore \/ RestoreFails \/ Unmark
    <2>1. backup # Absent \/ boot # "restore"
      BY DEF PlaceInv, FilesInv, TypeOK
    <2>2. QED
      BY <1>4, <2>1 DEF Restore, RestoreFails, Unmark, DiskFails, TimerInv
  <1>5. CASE CleanMarker
    <2>1. /\ boot = "run" /\ clean = "timer" /\ cleanIn = 0 /\ marker' = None /\ clean' = "previous"
          /\ UNCHANGED <<cleanIn, upd, probeIn, img, latest, boot>>
      BY <1>5 DEF CleanMarker, updVars, outVars
    <2>2. upd \in {"idle", "manifest"} /\ probeIn = PollEvery - 1
      BY <2>1 DEF TimerInv, TypeOK
    <2>3. latest = img
      BY <2>1, <2>2 DEF TurnInv, FilesInv, PlaceInv, Up, TypeOK
    <2>4. QED
      BY <2>1, <2>2, <2>3 DEF TimerInv
  <1>6. CASE CleanPrevious
    BY <1>6 DEF CleanPrevious, TimerInv, TurnInv, PlaceInv
  <1>7. CASE Probe
    BY <1>7 DEF Probe, UpdGoes, TimerInv, TypeOK, Trial, diskVars, bootVars, outVars
  <1>8. CASE ManifestNothing \/ ManifestNew \/ Downloaded \/ DownloadFails \/ CopyOpens
             \/ CopyEnds \/ CopyFails \/ Replace \/ ReplaceFails \/ Mark \/ MarkFails
             \/ Reported \/ ExecFails
    <2>1. CASE clean = "off" \/ boot # "run"
      <3>1. ~(CopyFails \/ ReplaceFails \/ MarkFails \/ ExecFails)
        BY DEF CopyFails, ReplaceFails, MarkFails, ExecFails, DiskFails, Runnable, FilesInv
      <3>2. CASE ManifestNothing \/ ManifestNew \/ Downloaded \/ DownloadFails \/ Reported
        BY <2>1, <3>2
        DEF ManifestNothing, ManifestNew, Downloaded, DownloadFails, Reported, UpdGoes, TurnInv,
            TimerInv, diskVars, bootVars
      <3>3. CASE CopyOpens \/ CopyEnds \/ Replace \/ Mark
        BY <2>1, <3>3
        DEF CopyOpens, CopyEnds, Replace, Mark, UpdGoes, TurnInv, TimerInv, bootVars
      <3>4. QED
        BY <1>8, <3>1, <3>2, <3>3
    <2>2. CASE clean # "off" /\ boot = "run"
      <3>1. ManifestNothing \/ ManifestNew
        BY <1>8, <2>2
        DEF Downloaded, DownloadFails, CopyOpens, CopyEnds, CopyFails, Replace, ReplaceFails, Mark,
            MarkFails, Reported, ExecFails, UpdGoes, TurnInv
      <3>2. ~ManifestNew
        <4>1. ASSUME ManifestNew PROVE FALSE
          <5>1. upd = "manifest" /\ bin = img /\ latest # img
            BY <2>2, <4>1 DEF ManifestNew, UpdGoes, PlaceInv, FilesInv, Up
          <5>2. QED
            BY <2>2, <5>1 DEF TurnInv, TimerInv, FilesInv, TypeOK
        <4>2. QED
          BY <4>1
      <3>3. QED
        BY <3>1, <3>2 DEF ManifestNothing, UpdGoes, TimerInv, TypeOK, diskVars, bootVars, outVars
    <2>3. QED
      BY <2>1, <2>2
  <1>9. CASE Tick
    <2>1. CASE boot = "run" /\ clean # "off"
      <3>1. clean = "timer" /\ cleanIn > 0 /\ cleanIn' = cleanIn - 1 /\ cleanIn' \in Nat
        <4>1. Up /\ clean = "timer" /\ cleanIn > 0
          BY <1>9, <2>1 DEF Tick, PlaceInv, TypeOK
        <4>2. cleanIn' = cleanIn - 1 /\ cleanIn \in Nat
          BY <1>9, <4>1 DEF Tick, TypeOK, Trial
        <4>3. QED
          BY <4>1, <4>2
      <3>2. CASE upd = "idle" /\ probeIn = cleanIn - 1
        <4>1. probeIn > 0 /\ probeIn' = probeIn - 1 /\ upd' = upd /\ clean' = clean
          BY <1>9, <2>1, <3>2 DEF Tick, PlaceInv
        <4>2. QED
          BY <3>1, <3>2, <4>1 DEF TimerInv, TypeOK
      <3>3. CASE upd \in {"idle", "manifest"} /\ cleanIn <= 1 /\ probeIn = PollEvery + cleanIn - 1
        <4>1. cleanIn = 1 /\ probeIn = PollEvery
          BY <3>1, <3>3 DEF TypeOK
        <4>2. probeIn' = probeIn - 1 /\ upd' = upd /\ clean' = clean
          BY <1>9, <4>1 DEF Tick
        <4>3. QED
          BY <3>1, <3>3, <4>1, <4>2 DEF TimerInv
      <3>4. QED
        BY <2>1, <3>2, <3>3 DEF TimerInv
    <2>2. CASE ~(boot = "run" /\ clean # "off")
      BY <1>9, <2>2 DEF Tick, TimerInv
    <2>3. QED
      BY <2>1, <2>2
  <1>10. ASSUME NEW v \in Version, Release(v) PROVE TimerInv'
    BY <1>10 DEF Release, Overlap, TimerInv, diskVars, updVars, bootVars
  <1>11. CASE UNCHANGED vars
    BY <1>11 DEF TimerInv, vars, diskVars, updVars, bootVars, outVars
  <1>12. QED
    BY <1>1, <1>2, <1>3, <1>4, <1>5, <1>6, <1>7, <1>8, <1>9, <1>10, <1>11
    DEF Next, Boot, Updater

LEMMA WorldStays == [Next]_vars => world' = world
  BY DEF Next, Boot, Updater, Start, CheckNothing, CheckMarker, Restore, RestoreFails, Unmark,
         ReportReverted, CleanMarker, CleanPrevious, Crash, Tick, Release, Probe,
         ManifestNothing, ManifestNew, Downloaded, DownloadFails, CopyOpens, CopyEnds,
         CopyFails, Replace, ReplaceFails, Mark, MarkFails, Reported, Exec, ExecFails,
         outVars, vars

LEMMA NextInductive == Inductive /\ [Next]_vars => Inductive'
  <1> SUFFICES ASSUME Inductive, [Next]_vars PROVE Inductive'
    OBVIOUS
  <1>1. TypeOK'
    BY NextTypeOK DEF Inductive
  <1>2. PlaceInv'
    BY <1>1, NextPlaceInv DEF Inductive
  <1>3. UpgradeSwapsWhole'
    BY NextSwapsWhole DEF Inductive
  <1>4. world' = world
    BY WorldStays
  <1>5. world = "kind" => FilesInv' /\ TurnInv' /\ TimerInv'
    BY <1>1, NextFilesInv, NextTurnInv, NextTimerInv DEF Inductive
  <1>6. QED
    BY <1>1, <1>2, <1>3, <1>4, <1>5 DEF Inductive

\* What is on disk fits together, whatever step of an upgrade or of a rollback the process
\* is at and wherever it was killed before.
THEOREM UpdateInductive == Spec => []Inductive
  BY InitInductive, NextInductive, PTL DEF Spec

(***************************************************************************)
(* What follows.                                                           *)
(***************************************************************************)
\* On a kind system the backup is the build the marker says was replaced, and the binary is
\* the build on trial or that backup put back (selfupdate.go:141-153, 191-195).
THEOREM MarkersTellTruth == Spec => []MarkerTellsTruth
  <1>1. Inductive => MarkerTellsTruth
    BY DEF Inductive, FilesInv, MarkerTellsTruth
  <1>2. QED
    BY <1>1, UpdateInductive, PTL

\* Only a rollback on a system whose disk fails leaves half a binary: an upgrade puts a
\* whole build in place or none (selfupdate.go:142, 342-363).
THEOREM UpgradesSwapWhole == Spec => []UpgradeSwapsWhole
  <1>1. Inductive => UpgradeSwapsWhole
    BY DEF Inductive
  <1>2. QED
    BY <1>1, UpdateInductive, PTL

\* On a kind system the marker goes only when its backup is back in place or when the
\* build it names, which is on disk, has lived through its trial (selfupdate.go:175-195).
THEOREM MarkersGoWithCause == Spec => MarkerGoesWithCause
  <1>1. Inductive /\ [Next]_vars =>
          [world = "kind" /\ marker # None /\ marker' = None =>
              \/ boot = "unmark" /\ bin = backup
              \/ clean = "timer" /\ img = bin /\ marker.to = img]_vars
    <2> SUFFICES ASSUME Inductive, Next, world = "kind", marker # None, marker' = None
                 PROVE  \/ boot = "unmark" /\ bin = backup
                        \/ clean = "timer" /\ img = bin /\ marker.to = img
      OBVIOUS
    <2>1. Unmark \/ CleanMarker
      <3>1. ~UNCHANGED marker
        OBVIOUS
      <3>2. ~(Start \/ CheckNothing \/ CheckMarker \/ Restore \/ RestoreFails \/ ReportReverted
              \/ CleanPrevious \/ Crash \/ Tick \/ \E v \in Version : Release(v))
        BY <3>1
        DEF Start, CheckNothing, CheckMarker, Restore, RestoreFails, ReportReverted,
            CleanPrevious, Crash, Tick, Release, diskVars
      <3>3. ~(Probe \/ ManifestNothing \/ ManifestNew \/ Downloaded \/ DownloadFails
              \/ CopyOpens \/ CopyEnds \/ CopyFails \/ Replace \/ ReplaceFails \/ MarkFails
              \/ Reported \/ Exec \/ ExecFails)
        BY <3>1
        DEF Probe, ManifestNothing, ManifestNew, Downloaded, DownloadFails, CopyOpens,
            CopyEnds, CopyFails, Replace, ReplaceFails, MarkFails, Reported, Exec, ExecFails,
            diskVars
      <3>4. ~Mark
        BY DEF Mark, UpdGoes, Inductive, TurnInv
      <3>5. QED
        BY <3>2, <3>3, <3>4 DEF Next, Boot, Updater
    <2>2. CASE Unmark
      BY <2>2 DEF Unmark, Inductive, FilesInv
    <2>3. CASE CleanMarker
      BY <2>3 DEF CleanMarker, Inductive, FilesInv, TimerInv, Up
    <2>4. QED
      BY <2>1, <2>2, <2>3
  <1>2. QED
    BY <1>1, UpdateInductive, PTL DEF Spec, MarkerGoesWithCause
=============================================================================
