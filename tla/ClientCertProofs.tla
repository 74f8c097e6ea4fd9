-------------------------- MODULE ClientCertProofs --------------------------
(***************************************************************************)
(* What ClientCert guarantees for any lifetime, lead, margin and retry     *)
(* interval that CertAssumption allows, and for crashes and disk failures  *)
(* at any step.                                                            *)
(***************************************************************************)
EXTENDS ClientCert, TLAPS

(***************************************************************************)
(* Arithmetic.                                                             *)
(***************************************************************************)
LEMMA Times ==
    /\ {TTL, Lead, Margin, Retry, MinWait} \subseteq Nat \ {0} /\ MaxFails \in Nat
    /\ Margin < TTL /\ Margin <= Lead
    /\ MinWait + MaxFails * (Retry + MinWait) <= Margin
  BY CertAssumption

\* One more failure costs the sleep and the least wait after it.
LEMMA SpareStep ==
    ASSUME NEW f \in Nat
    PROVE  Spare(f) \in Int /\ Spare(f) = Spare(f + 1) + Retry + MinWait
  <1> DEFINE k == Retry + MinWait
  <1>1. k \in Nat
    BY Times
  <1>2. (f + 1) * k = f * k + k /\ f * k \in Nat
    <2> HIDE DEF k
    <2>1. QED
      BY <1>1
  <1> HIDE DEF k
  <1>3. Spare(f) = Margin + 1 - MinWait - f * k /\ Spare(f + 1) = Margin + 1 - MinWait - (f + 1) * k
    BY DEF Spare, k
  <1>4. k = Retry + MinWait
    BY DEF k
  <1>5. QED
    BY <1>1, <1>2, <1>3, <1>4, Times

\* The margin outlasts the failures allowed; it never exceeds the lead.
LEMMA SpareBounds ==
    ASSUME NEW f \in 0..MaxFails
    PROVE  Spare(f) \in Int /\ Spare(f) >= 1 /\ Spare(f) <= Lead
  <1> DEFINE k == Retry + MinWait
  <1>1. k \in Nat /\ MinWait + MaxFails * k <= Margin
    BY Times
  <1>2. f * k \in Nat /\ f * k <= MaxFails * k
    <2> HIDE DEF k
    <2>1. PICK d \in Nat : MaxFails = f + d
      <3>1. MaxFails - f \in Nat /\ MaxFails = f + (MaxFails - f)
        BY Times
      <3>2. QED
        BY <3>1
    <2>2. (f + d) * k = f * k + d * k /\ f * k \in Nat /\ d * k \in Nat
      BY <1>1, <2>1
    <2>3. QED
      BY <2>1, <2>2
  <1> HIDE DEF k
  <1>3. Spare(f) = Margin + 1 - MinWait - f * k
    BY DEF Spare, k
  <1>4. MaxFails * k \in Nat
    BY <1>1, Times
  <1>5. PICK x \in Nat, y \in Nat : x = f * k /\ y = MaxFails * k
    BY <1>2, <1>4
  <1>6. x <= y /\ MinWait + y <= Margin /\ Spare(f) = Margin + 1 - MinWait - x
    BY <1>1, <1>2, <1>3, <1>5
  <1>7. QED
    BY <1>6, Times

\* The wait at the top of the loop leaves, when it is over, what a first attempt needs
\* of a certificate that is mounted, and what the next one needs of one that is served.
LEMMA UntilLeaves ==
    ASSUME NEW g \in Gen, left[g] \in Nat, NEW f \in 0..MaxFails,
           left[g] >= MinWait + Spare(f)
    PROVE  Until(g) \in Nat /\ left[g] >= Until(g) + Spare(f)
  BY SpareBounds, Times DEF Until, Larger

(***************************************************************************)
(* Type correctness.                                                       *)
(***************************************************************************)
LEMMA UntilNat ==
    ASSUME NEW g \in Gen, left[g] \in Nat PROVE Until(g) \in Nat
  BY Times DEF Until, Larger

LEMMA InitTypeOK == Init => TypeOK
  <1> SUFFICES ASSUME Init PROVE TypeOK
    OBVIOUS
  <1>1. (CHOOSE r \in Root : TRUE) \in Root
    BY CertAssumption
  <1>2. left \in [Gen -> 0..TTL] /\ anchor \in [Gen -> Root] /\ fails \in 0..MaxFails
    BY <1>1, Times DEF Init
  <1>3. QED
    BY <1>2 DEF Init, TypeOK, Steps

\* The end of a process, for whatever reason, is well typed.
LEMMA EndsTypeOK ==
    ASSUME TypeOK, Ends, cut' \in BOOLEAN, exit' \in {"no", "sign", "write", "mount"},
           UNCHANGED <<file, certVars, root>>
    PROVE  TypeOK'
  <1>1. fails' \in 0..MaxFails
    BY Times DEF Ends
  <1>2. QED
    BY <1>1 DEF TypeOK, Ends, certVars, Steps

LEMMA FailsToTypeOK ==
    ASSUME TypeOK, LifeLeft, NEW why \in {"sign", "write", "mount"}, FailsTo(why),
           cut' \in BOOLEAN, UNCHANGED <<file, certVars, root>>
    PROVE  TypeOK'
  <1>1. CASE ~up
    BY <1>1, EndsTypeOK DEF FailsTo, Exits
  <1>2. CASE up
    <2>1. Until(served) \in Nat
      BY <1>2, UntilNat DEF TypeOK, LifeLeft
    <2>2. fails' \in 0..MaxFails /\ timer' \in Nat
      BY <1>2, <2>1, Times DEF FailsTo, TypeOK
    <2>3. pc' \in Steps /\ fresh' = None /\ half' = FALSE /\ UNCHANGED <<runVars, exit>>
      BY <1>2 DEF FailsTo, Steps
    <2>4. QED
      BY <2>2, <2>3 DEF TypeOK, certVars, runVars
  <1>3. QED
    BY <1>1, <1>2 DEF TypeOK

LEMMA MountedTypeOK ==
    ASSUME TypeOK, NEW c \in Gen, NEW a \in Gen, Mounted(c, a),
           UNCHANGED <<file, certVars, root, cut, exit>>
    PROVE  TypeOK'
  <1>1. Until(c) \in Nat
    BY UntilNat DEF TypeOK
  <1>2. fails' \in 0..MaxFails
    BY Times DEF Mounted
  <1>3. QED
    BY <1>1, <1>2 DEF TypeOK, Mounted, certVars, Steps

LEMMA NextTypeOK == TypeOK /\ LifeLeft /\ [Next]_vars => TypeOK'
  <1> SUFFICES ASSUME TypeOK, LifeLeft, [Next]_vars PROVE TypeOK'
    OBVIOUS
  <1> USE DEF TypeOK, Steps, Files, certVars, runVars, histVars
  <1>1. CASE Start
    BY <1>1 DEF Start
  <1>2. CASE Reuse
    <2>1. file["cert"] \in Gen /\ file["ca"] \in Gen
      BY <1>2 DEF Reuse, Usable, Mountable
    <2>2. QED
      BY <1>2, <2>1, MountedTypeOK DEF Reuse
  <1>3. CASE ReuseFails
    BY <1>3, EndsTypeOK DEF ReuseFails, Exits
  <1>4. CASE Provision
    BY <1>4 DEF Provision
  <1>5. CASE FileOpens
    BY <1>5 DEF FileOpens
  <1>6. CASE FileFills
    BY <1>6 DEF FileFills, After, LifeLeft
  <1>7. CASE Mount
    BY <1>7, MountedTypeOK DEF Mount, LifeLeft
  <1>8. CASE MountFails
    BY <1>8, FailsToTypeOK DEF MountFails
  <1>9. CASE RenewDue
    BY <1>9 DEF RenewDue
  <1>10. CASE PauseEnds
    <2>1. up /\ served \in Gen
      BY <1>10 DEF PauseEnds, LifeLeft
    <2>2. Until(served) \in Nat
      BY <2>1, UntilNat
    <2>3. QED
      BY <1>10, <2>2 DEF PauseEnds
  <1>11. CASE SignFails
    BY <1>11, FailsToTypeOK DEF SignFails
  <1>12. CASE WriteFails
    BY <1>12, FailsToTypeOK DEF WriteFails
  <1>13. CASE Crash
    BY <1>13, EndsTypeOK DEF Crash
  <1>14. CASE Tick
    <2>1. timer' \in Nat /\ left' \in [Gen -> 0..TTL]
      BY <1>14, Times DEF Tick
    <2>2. QED
      BY <1>14, <2>1 DEF Tick
  <1>15. ASSUME NEW g \in Gen, NEW works \in BOOLEAN, Sign(g, works) PROVE TypeOK'
    BY <1>15, Times DEF Sign
  <1>16. ASSUME NEW r \in Root, RotateRoot(r) PROVE TypeOK'
    BY <1>16 DEF RotateRoot
  <1>17. CASE UNCHANGED vars
    BY <1>17 DEF vars
  <1>18. QED
    BY <1>1, <1>2, <1>3, <1>4, <1>5, <1>6, <1>7, <1>8, <1>9, <1>10, <1>11, <1>12,
       <1>13, <1>14, <1>15, <1>16, <1>17 DEF Next, Steady

(***************************************************************************)
(* The certificate outlives the failures.                                  *)
(***************************************************************************)
LEMMA InitLifeLeft == Init => LifeLeft
  BY DEF Init, LifeLeft, Files

LEMMA EndsLifeLeft ==
    ASSUME Ends PROVE LifeLeft'
  BY DEF Ends, LifeLeft, Files

\* A freshly mounted certificate has more than the margin left, new or reused.
LEMMA MountedLifeLeft ==
    ASSUME TypeOK, NEW c \in Gen, NEW a \in Gen, Mounted(c, a), left[c] > Margin,
           UNCHANGED left
    PROVE  LifeLeft'
  <1>1. 0 \in 0..MaxFails /\ left[c] \in Nat
    BY Times DEF TypeOK
  <1>2. Spare(0) = Margin + 1 - MinWait
    BY Times DEF Spare
  <1>3. left[c] >= MinWait + Spare(0)
    BY <1>1, <1>2, Times
  <1>4. left[c] >= Until(c) + Spare(0)
    BY <1>1, <1>3, UntilLeaves
  <1>5. QED
    BY <1>4 DEF Mounted, LifeLeft, Files

\* A failure leaves time for the next attempt.
LEMMA FailsToLifeLeft ==
    ASSUME TypeOK, LifeLeft, NEW why \in {"sign", "write", "mount"}, FailsTo(why),
           pc \in {"sign", "mount"} \cup Files, UNCHANGED left
    PROVE  LifeLeft'
  <1>1. CASE ~up
    BY <1>1, EndsLifeLeft DEF FailsTo, Exits
  <1>2. CASE up
    <2>1. /\ served \in Gen /\ left[served] \in Nat /\ left[served] >= Spare(fails)
          /\ fails \in 0..MaxFails /\ fails < MaxFails /\ fails' = fails + 1
          /\ UNCHANGED <<up, served>> /\ fresh' = None
      BY <1>2 DEF TypeOK, LifeLeft, FailsTo, runVars, Files
    <2>2. fails' \in 0..MaxFails /\ fails \in Nat
      BY <2>1, Times
    <2>3. left[served] >= Retry + MinWait + Spare(fails') /\ Spare(fails') \in Int
      BY <2>1, <2>2, SpareStep, SpareBounds, Times
    <2>4. CASE why = "sign"
      <3>1. pc' = "pause" /\ timer' = Retry
        BY <1>2, <2>4 DEF FailsTo
      <3>2. QED
        BY <1>2, <2>1, <2>3, <3>1 DEF LifeLeft, Files
    <2>5. CASE why # "sign"
      <3>1. pc' = "wait" /\ timer' = Until(served)
        BY <1>2, <2>5 DEF FailsTo
      <3>2. left[served] >= MinWait + Spare(fails')
        BY <2>1, <2>3, Times
      <3>3. left[served] >= Until(served) + Spare(fails')
        BY <2>1, <2>2, <3>2, UntilLeaves
      <3>4. QED
        BY <1>2, <2>1, <3>1, <3>3 DEF LifeLeft, Files
    <2>6. QED
      BY <2>4, <2>5
  <1>3. QED
    BY <1>1, <1>2 DEF TypeOK

LEMMA NextLifeLeft == TypeOK /\ LifeLeft /\ [Next]_vars => LifeLeft'
  <1> SUFFICES ASSUME TypeOK, LifeLeft, [Next]_vars PROVE LifeLeft'
    OBVIOUS
  <1> USE DEF Files
  <1>1. CASE Start
    BY <1>1 DEF Start, LifeLeft, runVars, certVars
  <1>2. CASE Reuse
    <2>1. /\ file["cert"] \in Gen /\ file["ca"] \in Gen /\ left[file["cert"]] > Margin
          /\ UNCHANGED left
      BY <1>2 DEF Reuse, Usable, Mountable, certVars
    <2>2. QED
      BY <1>2, <2>1, MountedLifeLeft DEF Reuse
  <1>3. CASE ReuseFails
    BY <1>3, EndsLifeLeft DEF ReuseFails, Exits
  <1>4. CASE Provision
    <2>1. ~up
      BY <1>4 DEF Provision, LifeLeft
    <2>2. QED
      BY <1>4, <2>1 DEF Provision, LifeLeft, runVars, certVars, histVars
  <1>5. CASE FileOpens
    BY <1>5 DEF FileOpens, LifeLeft, runVars, certVars, histVars
  <1>6. CASE FileFills
    BY <1>6 DEF FileFills, After, LifeLeft, runVars, certVars, histVars
  <1>7. CASE Mount
    <2>1. fresh \in Gen /\ left[fresh] > Margin /\ UNCHANGED left
      BY <1>7, Times, CertAssumption DEF Mount, LifeLeft, certVars
    <2>2. QED
      BY <1>7, <2>1, MountedLifeLeft DEF Mount
  <1>8. CASE MountFails
    BY <1>8, FailsToLifeLeft DEF MountFails, certVars
  <1>9. CASE RenewDue
    <2>1. up /\ left[served] >= 0 + Spare(fails) /\ fails \in 0..MaxFails
      BY <1>9 DEF RenewDue, LifeLeft, TypeOK
    <2>2. left[served] >= Spare(fails)
      BY <2>1, SpareBounds
    <2>3. QED
      BY <1>9, <2>1, <2>2 DEF RenewDue, LifeLeft, runVars, certVars, histVars
  <1>10. CASE PauseEnds
    <2>1. /\ up /\ served \in Gen /\ left[served] \in Nat /\ fails \in 0..MaxFails
          /\ left[served] >= 0 + MinWait + Spare(fails)
      BY <1>10 DEF PauseEnds, LifeLeft, TypeOK
    <2>2. left[served] >= MinWait + Spare(fails)
      BY <2>1, SpareBounds, Times
    <2>3. left[served] >= Until(served) + Spare(fails)
      BY <2>1, <2>2, UntilLeaves
    <2>4. QED
      BY <1>10, <2>1, <2>3 DEF PauseEnds, LifeLeft, runVars, certVars, histVars
  <1>11. CASE SignFails
    BY <1>11, FailsToLifeLeft DEF SignFails, certVars
  <1>12. CASE WriteFails
    BY <1>12, FailsToLifeLeft DEF WriteFails, certVars
  <1>13. CASE Crash
    BY <1>13, EndsLifeLeft DEF Crash
  <1>14. CASE Tick
    <2>1. fresh = None
      BY <1>14, Times DEF Tick, LifeLeft
    <2>2. CASE ~up
      BY <1>14, <2>1, <2>2 DEF Tick, LifeLeft, runVars, histVars
    <2>3. CASE up
      <3>1. /\ pc \in {"wait", "pause"} /\ timer > 0 /\ timer' = timer - 1
            /\ served \in Gen /\ left[served] \in Nat /\ timer \in Nat
            /\ fails \in 0..MaxFails
        BY <1>14, <2>3 DEF Tick, LifeLeft, TypeOK
      <3>2. left[served] >= timer + Spare(fails)
        BY <2>3, <3>1, SpareBounds, Times DEF LifeLeft
      <3>3. left[served] > 0 /\ left'[served] = left[served] - 1
        BY <1>14, <3>1, <3>2, SpareBounds DEF Tick
      <3>4. UNCHANGED <<up, served, pc, fails, fresh>>
        BY <1>14 DEF Tick, runVars
      <3>5. pc = "pause" => left[served] >= timer + MinWait + Spare(fails)
        BY <2>3 DEF LifeLeft
      <3>6. /\ pc = "wait" => left'[served] >= timer' + Spare(fails)
            /\ pc = "pause" => left'[served] >= timer' + MinWait + Spare(fails)
        BY <3>1, <3>2, <3>3, <3>5, SpareBounds, Times
      <3>7. QED
        BY <2>1, <2>3, <3>1, <3>4, <3>6 DEF LifeLeft
    <2>4. QED
      BY <2>2, <2>3
  <1>15. ASSUME NEW g \in Gen, NEW works \in BOOLEAN, Sign(g, works) PROVE LifeLeft'
    <2>1. /\ pc = "sign" /\ pc' = "key" /\ fresh' = g /\ g # served
          /\ left' = [left EXCEPT ![g] = TTL]
          /\ UNCHANGED <<up, served, fails>>
      BY <1>15 DEF Sign, InUse, runVars, histVars
    <2>2. up => served \in Gen /\ left'[served] >= Spare(fails)
      BY <2>1 DEF LifeLeft, TypeOK
    <2>3. left'[g] = TTL
      BY <2>1 DEF TypeOK
    <2>4. QED
      BY <2>1, <2>2, <2>3 DEF LifeLeft
  <1>16. ASSUME NEW r \in Root, RotateRoot(r) PROVE LifeLeft'
    BY <1>16 DEF RotateRoot, LifeLeft, runVars, certVars, histVars
  <1>17. CASE UNCHANGED vars
    BY <1>17 DEF vars, LifeLeft, runVars, certVars, histVars
  <1>18. QED
    BY <1>1, <1>2, <1>3, <1>4, <1>5, <1>6, <1>7, <1>8, <1>9, <1>10, <1>11, <1>12,
       <1>13, <1>14, <1>15, <1>16, <1>17 DEF Next, Steady

(***************************************************************************)
(* The files.                                                              *)
(***************************************************************************)
\* One certificate in all three files.
OneInAll == \E x \in Gen \cup {Absent} :
                /\ \A f \in Files : file[f] = x
                /\ up => x = served \/ x \in bad

LEMMA InitFilesInv == Init => FilesInv
  BY DEF Init, FilesInv, Files

\* The end of a process leaves the files where an installation of files was not begun, or
\* was complete, or counts as cut.
LEMMA EndsFilesInv ==
    ASSUME TypeOK, LifeLeft, FilesInv, Ends, file' = file,
           ~cut' => ~cut /\ ~half /\ pc \notin {"cert", "ca"}
    PROVE  FilesInv'
  <1>1. ~cut' => \E x \in Gen \cup {Absent} : \A f \in Files : file[f] = x
    <2>1. CASE pc = "mount"
      BY <2>1 DEF FilesInv, LifeLeft, Files
    <2>2. CASE pc # "mount"
      BY <2>2 DEF FilesInv, TypeOK, Steps, Files
    <2>3. QED
      BY <2>1, <2>2
  <1>2. QED
    BY <1>1 DEF Ends, FilesInv, Files

\* So does a failure: what it leaves is what was there, or the new certificate whole.
LEMMA FailsToFilesInv ==
    ASSUME TypeOK, LifeLeft, FilesInv, NEW why \in {"sign", "write", "mount"}, FailsTo(why),
           ~cut' => ~cut /\ OneInAll, UNCHANGED <<file, bad>>
    PROVE  FilesInv'
  <1>1. CASE ~up
    BY <1>1 DEF FailsTo, Exits, Ends, FilesInv, OneInAll, Files
  <1>2. CASE up
    <2>1. /\ pc' \in {"pause", "wait"} /\ half' = FALSE /\ exit' = "no"
          /\ UNCHANGED <<up, served, file, bad>>
      BY <1>2 DEF FailsTo, FilesInv, LifeLeft, runVars, Files
    <2>2. ~cut' => OneInAll'
      BY <2>1 DEF OneInAll
    <2>3. QED
      BY <2>1, <2>2 DEF FilesInv, OneInAll, Files
  <1>3. QED
    BY <1>1, <1>2 DEF TypeOK

LEMMA NextFilesInv == TypeOK /\ LifeLeft /\ FilesInv /\ [Next]_vars => FilesInv'
  <1> SUFFICES ASSUME TypeOK, LifeLeft, FilesInv, [Next]_vars PROVE FilesInv'
    OBVIOUS
  <1> USE DEF Files
  <1>1. pc \in Steps \ {"key", "cert", "ca", "mount"} /\ ~cut => OneInAll
    BY DEF FilesInv, OneInAll
  <1>2. CASE Start \/ Provision \/ RenewDue \/ PauseEnds \/ Tick \/ UNCHANGED vars
             \/ \E r \in Root : RotateRoot(r)
    <2>1. /\ UNCHANGED <<file, bad, half, fresh, up, served, cut>>
          /\ exit' # "no" => pc' = "down"
          /\ \/ pc' = pc
             \/ /\ pc \in {"down", "load", "wait", "pause"}
                /\ pc' \in {"load", "sign", "wait"}
      BY <1>2 DEF Start, Provision, RenewDue, PauseEnds, Tick, RotateRoot, vars, FilesInv,
                  certVars, runVars, histVars
    <2>2. QED
      BY <1>1, <2>1 DEF FilesInv, OneInAll, Steps
  <1>3. CASE Reuse
    <2>1. /\ pc = "load" /\ pc' = "wait" /\ half' = FALSE /\ up' /\ served' = file["cert"]
          /\ exit = "no" /\ UNCHANGED <<file, cut, exit>>
      BY <1>3 DEF Reuse, Mounted, FilesInv
    <2>2. QED
      BY <1>1, <2>1 DEF FilesInv, OneInAll, Steps
  <1>4. CASE ReuseFails
    BY <1>4, EndsFilesInv DEF ReuseFails, Exits, FilesInv
  <1>5. CASE Crash
    BY <1>5, EndsFilesInv DEF Crash, TypeOK
  <1>6. CASE Mount
    <2>1. /\ pc = "mount" /\ pc' = "wait" /\ half' = FALSE /\ up' /\ served' = fresh
          /\ exit = "no" /\ fresh \in Gen /\ UNCHANGED <<file, cut, exit>>
      BY <1>6 DEF Mount, Mounted, FilesInv, LifeLeft
    <2>2. QED
      BY <2>1 DEF FilesInv
  <1>7. CASE MountFails
    <2>1. pc = "mount" /\ fresh \in Gen /\ fresh \in bad /\ UNCHANGED <<file, bad, cut>>
      BY <1>7 DEF MountFails, Mountable, LifeLeft, certVars
    <2>2. ~cut => OneInAll
      BY <2>1 DEF FilesInv, OneInAll
    <2>3. QED
      BY <1>7, <2>1, <2>2, FailsToFilesInv DEF MountFails
  <1>8. CASE SignFails
    BY <1>1, <1>8, FailsToFilesInv DEF SignFails, certVars, Steps
  <1>9. CASE WriteFails
    <2>1. ~cut' => ~cut /\ pc = "key" /\ ~half
      BY <1>9 DEF WriteFails
    <2>2. QED
      BY <1>9, <2>1, FailsToFilesInv DEF WriteFails, FilesInv, OneInAll, certVars
  <1>10. CASE FileOpens
    <2>1. /\ pc \in Files /\ ~half /\ half' = TRUE /\ file' = [file EXCEPT ![pc] = Torn]
          /\ UNCHANGED <<pc, fresh, cut, exit>>
      BY <1>10 DEF FileOpens, histVars
    <2>2. QED
      BY <2>1 DEF FilesInv, TypeOK, Steps
  <1>11. CASE FileFills
    <2>1. /\ pc \in Files /\ half' = FALSE /\ file' = [file EXCEPT ![pc] = fresh]
          /\ pc' = After(pc) /\ UNCHANGED <<fresh, cut, exit>>
      BY <1>11 DEF FileFills, histVars
    <2>2. /\ pc = "key" => pc' = "cert" 
          /\ pc = "cert" => pc' = "ca"
          /\ pc = "ca" => pc' = "mount"
      BY <2>1, Zenon DEF After
    <2>3. QED
      BY <2>1, <2>2 DEF FilesInv, TypeOK, Steps
  <1>12. ASSUME NEW g \in Gen, NEW works \in BOOLEAN, Sign(g, works) PROVE FilesInv'
    <2>1. /\ pc = "sign" /\ pc' = "key" /\ ~half /\ exit = "no"
          /\ \A f \in Files : file[f] # g
          /\ bad' = bad \ {g} \/ bad' = bad \cup {g}
          /\ UNCHANGED <<file, half, up, served, cut, exit>>
      BY <1>12 DEF Sign, InUse, FilesInv, runVars, histVars
    <2>2. ~cut => OneInAll'
      BY <1>1, <2>1 DEF OneInAll, Steps
    <2>3. QED
      BY <2>1, <2>2 DEF FilesInv, OneInAll
  <1>13. QED
    BY <1>2, <1>3, <1>4, <1>5, <1>6, <1>7, <1>8, <1>9, <1>10, <1>11, <1>12
    DEF Next, Steady

\* Types, the life left and the fit of the files hold in every reachable state.
THEOREM CertInductive == Spec => []Inductive
  <1>1. Init => Inductive
    BY InitTypeOK, InitLifeLeft, InitFilesInv DEF Inductive
  <1>2. Inductive /\ [Next]_vars => Inductive'
    BY NextTypeOK, NextLifeLeft, NextFilesInv DEF Inductive
  <1>3. QED
    BY <1>1, <1>2, PTL DEF Spec

\* The certificate presented to the control plane is never an expired one, for any
\* lifetime and any number of restarts, while no more renewals fail in a row than the
\* reuse margin pays for: MinWait + MaxFails * (Retry + MinWait) <= Margin, which
\* clientcert.go's 1, 30 and 60 minutes meet for one failure and not for two.
THEOREM CertificateNeverLapses == Spec => []NeverLapses
  <1>1. Inductive => NeverLapses
    <2> SUFFICES ASSUME TypeOK, LifeLeft, up PROVE left[served] > 0
      BY DEF NeverLapses, Inductive
    <2>1. /\ served \in Gen /\ left[served] \in Nat /\ timer \in Nat /\ fails \in 0..MaxFails
          /\ \/ left[served] >= timer + Spare(fails)
             \/ left[served] >= timer + MinWait + Spare(fails)
             \/ left[served] >= Spare(fails)
      BY DEF TypeOK, LifeLeft
    <2>2. QED
      BY <2>1, SpareBounds, Times
  <1>2. QED
    BY <1>1, CertInductive, PTL

\* Between renewals, and unless an installation was cut short, the directory holds whole the
\* certificate that is served or one that cannot be mounted, for any number of certificates,
\* renewals and restarts (clientcert.go:173-181, 302-310).
THEOREM DiskFollows == Spec => []DiskFollowsMemory
  <1>1. Inductive => DiskFollowsMemory
    BY DEF Inductive, FilesInv, DiskFollowsMemory, Steps, Files
  <1>2. QED
    BY <1>1, CertInductive, PTL

\* Provision refuses the files it finds only after an installation was cut short, or when all
\* of them are of one certificate that does not work, however many renewals, failures and
\* restarts came before (clientcert.go:65-89, 173-181, 302-310).
THEOREM MountDiesOnlyOfCut == Spec => []MountDiesOfCut
  <1> DEFINE Dud == \E x \in bad : \A f \in Files : file[f] = x
  <1>1. Init => MountDiesOfCut
    BY DEF Init, MountDiesOfCut
  <1>2. Inductive /\ MountDiesOfCut /\ [Next]_vars => MountDiesOfCut'
    <2> SUFFICES ASSUME Inductive, MountDiesOfCut, [Next]_vars, exit' = "mount", ~cut'
                 PROVE  Dud'
      BY DEF MountDiesOfCut
    <2>1. CASE ReuseFails
      <3>1. /\ pc = "load" /\ ~cut /\ UNCHANGED <<file, bad>>
            /\ file["cert"] \in Gen /\ ~Mountable(file["key"], file["cert"], file["ca"])
        BY <2>1 DEF ReuseFails, Usable, certVars
      <3>2. PICK x \in Gen \cup {Absent} : \A f \in Files : file[f] = x
        BY <3>1 DEF Inductive, FilesInv, Steps, Files
      <3>3. x \in bad
        BY <3>1, <3>2 DEF Mountable, Files
      <3>4. QED
        BY <3>1, <3>2, <3>3
    <2>2. CASE MountFails
      <3>1. /\ pc = "mount" /\ ~cut /\ UNCHANGED <<file, bad>> /\ ~Mountable(fresh, fresh, fresh)
        BY <2>2 DEF MountFails, certVars
      <3>2. fresh \in bad
        BY <3>1 DEF Mountable, Inductive, LifeLeft
      <3>3. \A f \in Files : file[f] = fresh
        BY <3>1 DEF Inductive, FilesInv, Files
      <3>4. QED
        BY <3>1, <3>2, <3>3
    <2>3. CASE Start \/ Crash \/ UNCHANGED vars \/ Tick \/ \E r \in Root : RotateRoot(r)
      <3>1. \/ exit' = "no" \/ (exit' = exit /\ UNCHANGED <<cut, bad, file>>)
            \/ (Crash /\ exit' = exit)
        BY <2>3 DEF Start, Tick, RotateRoot, Crash, certVars, histVars, vars
      <3>2. Crash => exit = "no"
        BY DEF Crash, Inductive, FilesInv
      <3>3. exit' = exit /\ UNCHANGED <<cut, bad, file>>
        BY <3>1, <3>2
      <3>4. QED
        BY <3>3 DEF MountDiesOfCut
    <2>4. CASE \/ Reuse \/ Provision \/ FileOpens \/ FileFills \/ Mount \/ RenewDue \/ PauseEnds
               \/ \E g \in Gen, works \in BOOLEAN : Sign(g, works)
      <3>1. pc # "down" /\ exit' = exit
        BY <2>4 DEF Reuse, Provision, FileOpens, FileFills, Mount, RenewDue, PauseEnds, Sign,
                    histVars, Files
      <3>2. QED
        BY <3>1 DEF Inductive, FilesInv
    <2>5. CASE SignFails \/ WriteFails
      <3>1. pc # "down" /\ exit' \in {exit, "sign", "write"}
        BY <2>5 DEF SignFails, WriteFails, FailsTo, Exits, Files
      <3>2. QED
        BY <3>1 DEF Inductive, FilesInv
    <2>6. QED
      BY <2>1, <2>2, <2>3, <2>4, <2>5 DEF Next, Steady
  <1>3. QED
    BY <1>1, <1>2, CertInductive, PTL DEF Spec

\* A process that comes up trusts the anchor that came with the certificate it serves,
\* after any number of renewals, restarts and rotations of the root, unless an
\* installation was cut short (clientcert.go:65-89, 302-310).
THEOREM BootTrustsAnchor == Spec => BootTrustsItsAnchor
  <1>1. Inductive /\ [Next]_vars => [~up /\ up' => trusts' = anchor'[served'] \/ cut]_vars
    <2> SUFFICES ASSUME Inductive, Next, ~up, up', ~cut PROVE trusts' = anchor'[served']
      OBVIOUS
    <2>1. CASE Reuse
      <3>1. pc = "load" /\ served' = file["cert"] /\ trusts' = anchor[file["ca"]]
            /\ anchor' = anchor
        BY <2>1 DEF Reuse, Mounted, certVars
      <3>2. file["ca"] = file["cert"]
        BY <3>1 DEF Inductive, FilesInv, Steps, Files
      <3>3. QED
        BY <3>1, <3>2
    <2>2. CASE Mount
      BY <2>2 DEF Mount, Mounted, certVars
    <2>3. CASE ReuseFails \/ Crash \/ SignFails \/ WriteFails \/ MountFails
      BY <2>3 DEF ReuseFails, Crash, SignFails, WriteFails, MountFails, FailsTo, Exits, Ends,
                  runVars
    <2>4. CASE \/ Start \/ Provision \/ FileOpens \/ FileFills \/ RenewDue \/ PauseEnds \/ Tick
               \/ (\E g \in Gen, works \in BOOLEAN : Sign(g, works))
               \/ (\E r \in Root : RotateRoot(r))
      BY <2>4 DEF Start, Provision, FileOpens, FileFills, RenewDue, PauseEnds, Tick, Sign,
                  RotateRoot, runVars
    <2>5. QED
      BY <2>1, <2>2, <2>3, <2>4 DEF Next, Steady
  <1>2. QED
    BY <1>1, CertInductive, PTL DEF Spec, BootTrustsItsAnchor
=============================================================================
