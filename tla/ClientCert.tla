----------------------------- MODULE ClientCert -----------------------------
(***************************************************************************)
(* The agent's client certificate (internal/clientcert): the three files   *)
(* of the certificate directory, Provision at boot, the bundle in memory   *)
(* the TLS transport reads, and the Renew goroutine that replaces both.    *)
(*                                                                         *)
(* main runs Provision before it starts Renew, so one program counter      *)
(* serves both; "up" tells which of the two signs, writes and mounts.      *)
(* os.WriteFile truncates a file and then fills it: the process may end,   *)
(* or the disk fail, before either.  Time is counted down; signing, writes *)
(* and mounting take none of it.                                           *)
(***************************************************************************)
EXTENDS Integers, FiniteSets

CONSTANTS Gen,       \* certificates the control plane issues, with their key and root
          Root,      \* trust anchors of the control plane
          TTL,       \* lifetime of a certificate
          Lead,      \* Renew starts this long before the end (6 h)
          Margin,    \* Provision reuses what lives longer than this (60 min)
          Retry,     \* the sleep after a failure (30 min)
          MinWait,   \* the least wait before a renewal (1 min)
          DiskFails, \* may a write fail?
          BadIssues, \* may the control plane issue what cannot be mounted?
          MaxFails,  \* bound: failed renewals in a row
          Absent, Torn, None

ASSUME CertAssumption ==
    /\ IsFiniteSet(Gen) /\ Gen \cap {Absent, Torn, None} = {} /\ Root # {}
    /\ Absent # Torn
    /\ {TTL, Lead, Margin, Retry, MinWait} \subseteq Nat \ {0} /\ MaxFails \in Nat
    /\ {DiskFails, BadIssues} \subseteq BOOLEAN
    /\ Margin < TTL /\ Margin <= Lead
    \* The margin leaves time for MaxFails failed renewals: 60 >= 1 + 1 * (30 + 1).
    /\ MinWait + MaxFails * (Retry + MinWait) <= Margin

VARIABLES
    file,   \* key.pem, cert.pem and ca.pem
    left,   \* the time each certificate is still valid
    anchor, \* the trust anchor each certificate came with
    bad,    \* certificates that cannot be mounted
    pc,     \* where Provision or Renew is
    half,   \* has the current file been truncated and not filled?
    fresh,  \* the certificate being installed
    timer,  \* time to the end of the current wait
    up,     \* does the process have a bundle?
    served, \* the certificate in the bundle
    trusts, \* RootCAs of the transport
    root,   \* the control plane's trust anchor
    fails,  \* failed renewals in a row, in this process
    cut,    \* was an installation of files ever cut short?
    exit    \* why the last process ended by itself

certVars == <<left, anchor, bad>>
runVars  == <<up, served, trusts>>
histVars == <<fails, cut, exit>>
vars     == <<file, certVars, pc, half, fresh, timer, runVars, root, histVars>>

Files    == {"key", "cert", "ca"}
Steps    == {"down", "load", "sign", "mount", "wait", "pause"} \cup Files

\* Mutant: ca.pem is not written.
AfterNoCa(f) == CASE f = "key" -> "cert" [] f = "cert" -> "mount" [] f = "ca" -> "mount"

\* Mutant: ca.pem is written once.
AfterKeepCa(f) ==
    CASE f = "key" -> "cert" [] f = "cert" -> IF file["ca"] \in Gen THEN "mount" ELSE "ca"
      [] f = "ca" -> "mount"

After(f) == CASE f = "key" -> "cert" [] f = "cert" -> "ca" [] f = "ca" -> "mount"

Larger(a, b) == IF a > b THEN a ELSE b
InUse == {file[f] : f \in Files} \cup {served}

\* Mutant: the renewal starts when the certificate ends.
UntilExpiry(g) == Larger(left[g], MinWait)

\* The wait at the top of Renew's loop.
Until(g) == Larger(left[g] - Lead, MinWait)

Init ==
    /\ file = [f \in Files |-> Absent]
    /\ left = [g \in Gen |-> 0] /\ anchor = [g \in Gen |-> CHOOSE r \in Root : TRUE]
    /\ bad = {}
    /\ pc = "down" /\ half = FALSE /\ fresh = None /\ timer = 0
    /\ up = FALSE /\ served = None /\ trusts = None /\ root \in Root
    /\ fails = 0 /\ cut = FALSE /\ exit = "no"

(***************************************************************************)
(* Ends of a process.                                                      *)
(***************************************************************************)
Ends ==
    /\ pc' = "down" /\ half' = FALSE /\ fresh' = None /\ timer' = 0
    /\ up' = FALSE /\ served' = None /\ trusts' = None
    /\ fails' = 0

\* Provision returned an error: main exits with status 1.
Exits(why) == Ends /\ exit' = why

Crash ==
    /\ pc # "down"
    /\ Ends
    /\ cut' = (cut \/ half \/ pc \in {"cert", "ca"})
    /\ UNCHANGED <<file, certVars, root, exit>>

Start ==
    /\ pc = "down"
    /\ pc' = "load" /\ exit' = "no"
    /\ UNCHANGED <<file, certVars, half, fresh, timer, runVars, root, fails, cut>>

(***************************************************************************)
(* mountBundle: the key must belong to the certificate and the trust       *)
(* anchor must parse.  Then the wait at the top of Renew.                  *)
(***************************************************************************)
Mountable(k, c, a) == k = c /\ a \in Gen /\ c \notin bad /\ a \notin bad

\* A process that has just provisioned builds its transport from this bundle; one
\* that renews keeps the transport it has.
Mounted(c, a) ==
    /\ served' = c /\ up' = TRUE
    /\ trusts' = IF up THEN trusts ELSE anchor[a]
    /\ pc' = "wait" /\ timer' = Until(c)
    /\ fresh' = None /\ half' = FALSE
    /\ fails' = 0

\* Mutant: any certificate that parses is reused.
UsableAny ==
    /\ \A f \in Files : file[f] # Absent
    /\ file["cert"] \in Gen

\* loadExisting and certUsable.
Usable ==
    /\ \A f \in Files : file[f] # Absent
    /\ file["cert"] \in Gen /\ left[file["cert"]] > Margin

Reuse ==
    /\ pc = "load" /\ Usable
    /\ Mountable(file["key"], file["cert"], file["ca"])
    /\ Mounted(file["cert"], file["ca"])
    /\ UNCHANGED <<file, certVars, root, cut, exit>>

ReuseFails ==
    /\ pc = "load" /\ Usable
    /\ ~Mountable(file["key"], file["cert"], file["ca"])
    /\ Exits("mount")
    /\ UNCHANGED <<file, certVars, root, cut>>

Provision ==
    /\ pc = "load" /\ ~Usable
    /\ pc' = "sign"
    /\ UNCHANGED <<file, certVars, half, fresh, timer, runVars, root, histVars>>

(***************************************************************************)
(* A new key, the signed certificate, the three files.                     *)
(***************************************************************************)
\* What a failure means to the caller: Provision gives up the process; Renew sleeps
\* when the signing failed, and goes to the top of its loop when a later step did.
FailsTo(why) ==
    IF ~up
    THEN Exits(why)
    ELSE /\ fails < MaxFails /\ fails' = fails + 1
         /\ fresh' = None /\ half' = FALSE
         /\ IF why = "sign" THEN pc' = "pause" /\ timer' = Retry
                            ELSE pc' = "wait" /\ timer' = Until(served)
         /\ UNCHANGED <<runVars, exit>>

Sign(g, works) ==
    /\ pc = "sign" /\ g \notin InUse
    /\ BadIssues \/ works
    /\ left'   = [left EXCEPT ![g] = TTL]
    /\ anchor' = [anchor EXCEPT ![g] = root]
    /\ bad'    = IF works THEN bad \ {g} ELSE bad \cup {g}
    /\ fresh' = g /\ pc' = "key"
    /\ UNCHANGED <<file, half, timer, runVars, root, histVars>>

SignFails ==
    /\ pc = "sign"
    /\ FailsTo("sign")
    /\ UNCHANGED <<file, certVars, root, cut>>

FileOpens ==
    /\ pc \in Files /\ ~half
    /\ file' = [file EXCEPT ![pc] = Torn]
    /\ half' = TRUE
    /\ UNCHANGED <<certVars, pc, fresh, timer, runVars, root, histVars>>

\* Mutant: a renewal writes the old key back.
FileFillsOldKey ==
    /\ pc \in Files /\ half
    /\ file' = [file EXCEPT ![pc] = IF up /\ pc = "key" THEN served ELSE fresh]
    /\ half' = FALSE /\ pc' = After(pc)
    /\ UNCHANGED <<certVars, fresh, timer, runVars, root, histVars>>

FileFills ==
    /\ pc \in Files /\ half
    /\ file' = [file EXCEPT ![pc] = fresh]
    /\ half' = FALSE /\ pc' = After(pc)
    /\ UNCHANGED <<certVars, fresh, timer, runVars, root, histVars>>

WriteFails ==
    /\ DiskFails /\ pc \in Files
    /\ cut' = (cut \/ half \/ pc # "key")
    /\ FailsTo("write")
    /\ UNCHANGED <<file, certVars, root>>

\* The files are on disk before anyone looks whether they fit.
Mount ==
    /\ pc = "mount" /\ Mountable(fresh, fresh, fresh)
    /\ Mounted(fresh, fresh)
    /\ UNCHANGED <<file, certVars, root, cut, exit>>

MountFails ==
    /\ pc = "mount" /\ ~Mountable(fresh, fresh, fresh)
    /\ FailsTo("mount")
    /\ UNCHANGED <<file, certVars, root, cut>>

(***************************************************************************)
(* Renew's waits, and the world.                                           *)
(***************************************************************************)
RenewDue ==
    /\ pc = "wait" /\ timer = 0
    /\ pc' = "sign"
    /\ UNCHANGED <<file, certVars, half, fresh, timer, runVars, root, histVars>>

PauseEnds ==
    /\ pc = "pause" /\ timer = 0
    /\ pc' = "wait" /\ timer' = Until(served)
    /\ UNCHANGED <<file, certVars, half, fresh, runVars, root, histVars>>

\* A timer that is due fires before time goes on.  Only the certificates in cert.pem
\* and in the bundle are looked at again.
Tick ==
    /\ pc \in {"down", "wait", "pause"}
    /\ pc # "down" => timer > 0
    /\ timer' = IF timer > 0 THEN timer - 1 ELSE 0
    /\ left' = [g \in Gen |-> IF g \in {file["cert"], served} /\ left[g] > 0
                              THEN left[g] - 1 ELSE 0]
    /\ UNCHANGED <<file, anchor, bad, pc, half, fresh, runVars, root, fails, cut, exit>>

RotateRoot(r) ==
    /\ r # root /\ root' = r
    /\ UNCHANGED <<file, certVars, pc, half, fresh, timer, runVars, histVars>>

Steady ==
    \/ Start \/ Reuse \/ ReuseFails \/ Provision
    \/ FileOpens \/ FileFills \/ Mount \/ MountFails \/ RenewDue \/ PauseEnds

Next ==
    \/ Steady \/ SignFails \/ WriteFails \/ Crash \/ Tick
    \/ \E g \in Gen, works \in BOOLEAN : Sign(g, works)
    \/ \E r \in Root : RotateRoot(r)

Spec == Init /\ [][Next]_vars

\* A supervisor starts the agent again, its goroutine runs, time passes, and the
\* control plane, asked again and again, signs a certificate that works.
FairSpec ==
    /\ Spec
    /\ WF_vars(Steady) /\ SF_vars(Tick) /\ SF_vars(\E g \in Gen : Sign(g, TRUE))

-----------------------------------------------------------------------------
TypeOK ==
    /\ file \in [Files -> Gen \cup {Absent, Torn}]
    /\ left \in [Gen -> 0..TTL] /\ anchor \in [Gen -> Root] /\ bad \subseteq Gen
    /\ pc \in Steps /\ half \in BOOLEAN /\ fresh \in Gen \cup {None} /\ timer \in Nat
    /\ up \in BOOLEAN /\ served \in Gen \cup {None} /\ trusts \in Root \cup {None}
    /\ root \in Root /\ fails \in 0..MaxFails
    /\ cut \in BOOLEAN /\ exit \in {"no", "sign", "write", "mount"}

\* The life the inductive invariant of NeverLapses counts: when a renewal is due after f failures in a
\* row, the certificate still lives for what is left of the margin.
Spare(f) == Margin + 1 - MinWait - f * (Retry + MinWait)

LifeLeft ==
    /\ up => served \in Gen
    /\ up => \/ pc = "wait" /\ left[served] >= timer + Spare(fails)
             \/ pc = "pause" /\ left[served] >= timer + MinWait + Spare(fails)
             \/ pc \in {"sign", "mount"} \cup Files /\ left[served] >= Spare(fails)
    /\ fresh # None => left[fresh] = TTL
    /\ IF pc \in Files \cup {"mount"} THEN fresh \in Gen ELSE fresh = None
    /\ ~up => pc \notin {"wait", "pause"}

\* Unless an installation was cut short, the files are of one certificate whenever none is
\* being installed, and of the new one as far as the installation has come.  That one
\* certificate is the one served, or one that could not be mounted.
FilesInv ==
    /\ exit # "no" => pc = "down"
    /\ half => pc \in Files
    /\ ~cut =>
        /\ pc \in Steps \ {"key", "cert", "ca", "mount"} \/ (pc = "key" /\ ~half) =>
              \E x \in Gen \cup {Absent} :
                 /\ \A f \in Files : file[f] = x
                 /\ up => x = served \/ x \in bad
        /\ pc \in {"cert", "ca", "mount"} => file["key"] = fresh
        /\ pc \in {"ca", "mount"} => file["cert"] = fresh
        /\ pc = "mount" => file["ca"] = fresh

\* A certificate in use lives for what is left of the margin, wherever the renewal is and
\* however many have failed in a row, and the files fit (clientcert.go:144-186, 302-310).
Inductive == TypeOK /\ LifeLeft /\ FilesInv

\* The certificate the transport presents has not expired, after a fresh one or one
\* reused with little more than the margin left, as long as no more renewals fail in a
\* row than the margin leaves time for (clientcert.go:71, 144-186).
NeverLapses == up => left[served] > 0

\* Between renewals the directory holds one certificate whole, unless an installation was
\* cut short: the one the process serves, so that the next boot serves it too, or one that
\* cannot be mounted, which Renew wrote before it tried (clientcert.go:173-181).
DiskFollowsMemory ==
    up /\ pc \in {"wait", "pause"} /\ ~cut =>
        \E x \in {served} \cup bad : \A f \in Files : file[f] = x

\* Provision dies of the files on disk only after an installation was cut short, or when all
\* three are of one certificate that cannot be mounted: never of files of two certificates
\* that no cut has mixed.
MountDiesOfCut == exit = "mount" => cut \/ \E x \in bad : \A f \in Files : file[f] = x

\* A process trusts from its start the anchor that came with the certificate it serves,
\* whichever renewals and restarts came before, unless an installation was cut short:
\* then key and certificate may fit, and ca.pem be older (clientcert.go:302-310).
BootTrustsItsAnchor == [][~up /\ up' => trusts' = anchor'[served'] \/ cut]_vars

\* Even then the agent comes back once the process is left alone and the disk works: when
\* the old certificate gets close to its end Provision asks for a new one.
AgentComesBack == <>[][~Crash /\ ~WriteFails]_vars => (pc = "down" ~> up)

(***************************************************************************)
(* What comments of the code say and the code does not do.                 *)
(***************************************************************************)
\* clientcert.go:63: the bundle is "the live source of truth the HTTP transport reads
\* on every request".
TransportFollowsBundle == up => trusts = anchor[served]
=============================================================================
