-------------------------------- MODULE Crl --------------------------------
(***************************************************************************)
(* The revocation list (internal/crl) and the connections it guards: the   *)
(* watcher that fetches the list once at boot and then at every tick, the  *)
(* handshake check HTTPSTransport makes against its cache, and the pool of *)
(* connections the watcher shares with the poll loop.                      *)
(*                                                                         *)
(* The cache lives in memory, a failed refresh leaves it as it was, and    *)
(* only a new connection is checked.  A fetch takes at most Fetch units of *)
(* time, the timeout of the shared client; a tick that is due fires first. *)
(***************************************************************************)
EXTENDS Integers, FiniteSets

CONSTANTS Cert,  \* certificates the control plane may present
          Every, \* the watcher's period (1 h)
          Fetch, \* the shared client's timeout (30 s)
          None

ASSUME CrlAssumption ==
    /\ IsFiniteSet(Cert) /\ Cert # {} /\ None \notin Cert
    /\ Every \in Nat /\ Fetch \in Nat \ {0} /\ Fetch < Every

VARIABLES
    \* ---- the control plane ----
    crl,       \* certificates its list names
    presented, \* the certificate it presents
    \* ---- the watcher ----
    watch,     \* where Run is
    timer,     \* time to the next tick, 0 before there is a ticker
    spent,     \* time the current fetch has taken
    body,      \* the list in the response being read
    cache,     \* the watcher's revoked set
    \* ---- the shared transport ----
    pool,      \* open connections, by the peer's certificate
    poll,      \* the connection the current poll uses
    \* ---- history ----
    since,     \* time since each certificate was listed, up to Window + 1
    uptime,    \* time since the process started, up to Fetch + 1
    missed     \* listed certificates whose refresh has failed

cpVars    == <<crl, presented>>
watchVars == <<watch, timer, spent, body, cache>>
connVars  == <<pool, poll>>
histVars  == <<since, uptime, missed>>
vars      == <<cpVars, watchVars, connVars, histVars>>

\* A listed certificate is in the cache no later than this: the first refresh may have
\* read the list just before, and the period starts when that refresh is over.
Window == Every + 2 * Fetch

Lesser(a, b) == IF a < b THEN a ELSE b
Up == watch # "down"

Init ==
    /\ crl = {} /\ presented \in Cert
    /\ watch = "down" /\ timer = 0 /\ spent = 0 /\ body = {} /\ cache = {}
    /\ pool = {} /\ poll = None
    /\ since = [c \in Cert |-> 0] /\ uptime = 0 /\ missed = {}

\* main makes a watcher when the certificate directory names the workspace; it and the
\* poll loop start together.
Start(hasWorkspace) ==
    /\ ~Up
    /\ watch' = IF hasWorkspace THEN "fetch" ELSE "off"
    /\ uptime' = 0
    /\ UNCHANGED <<cpVars, timer, spent, body, cache, connVars, since, missed>>

Crash ==
    /\ Up
    /\ watch' = "down" /\ timer' = 0 /\ spent' = 0 /\ body' = {} /\ cache' = {}
    /\ pool' = {} /\ poll' = None
    /\ missed' = {}
    /\ UNCHANGED <<cpVars, since, uptime>>

(***************************************************************************)
(* A request goes over an open connection or over a new one, whose         *)
(* handshake asks the cache about the peer's certificate.                  *)
(***************************************************************************)
Connects(c) ==
    /\ Up
    /\ c \in pool \/ (c = presented /\ c \notin cache)
    /\ pool' = pool \cup {c}

PollSends(c) ==
    /\ poll = None /\ Connects(c) /\ poll' = c
    /\ UNCHANGED <<cpVars, watchVars, histVars>>

PollEnds ==
    /\ poll # None /\ poll' = None
    /\ UNCHANGED <<cpVars, watchVars, pool, histVars>>

ConnCloses(c) ==
    /\ c \in pool /\ pool' = pool \ {c}
    /\ poll' = IF poll = c THEN None ELSE poll
    /\ UNCHANGED <<cpVars, watchVars, histVars>>

(***************************************************************************)
(* Run and refresh.                                                        *)
(***************************************************************************)
FetchSends(c) ==
    /\ watch = "fetch" /\ Connects(c)
    /\ watch' = "read" /\ body' = crl
    /\ UNCHANGED <<cpVars, timer, spent, cache, poll, histVars>>

\* refresh returns; after the first one the ticker is made.
RefreshEnds ==
    /\ watch' = "wait" /\ spent' = 0 /\ body' = {}
    /\ timer' = IF timer = 0 THEN Every ELSE timer

FetchDone ==
    /\ watch = "read"
    /\ RefreshEnds
    /\ cache' = body
    /\ missed' = missed \ body
    /\ UNCHANGED <<cpVars, connVars, since, uptime>>

\* Mutant: a failed refresh empties the cache.
FetchFailsEmptied ==
    /\ watch \in {"fetch", "read"}
    /\ RefreshEnds
    /\ cache' = {}
    /\ missed' = missed \cup (crl \ cache)
    /\ UNCHANGED <<cpVars, connVars, since, uptime>>

\* Mutant: a failed refresh ends the watcher.
FetchFailsEnds ==
    /\ watch \in {"fetch", "read"}
    /\ watch' = "ended" /\ spent' = 0 /\ body' = {} /\ timer' = 0
    /\ missed' = missed \cup (crl \ cache)
    /\ UNCHANGED <<cpVars, cache, connVars, since, uptime>>

\* No connection, an HTTP error, a body that breaks off or does not parse: logged.
FetchFails ==
    /\ watch \in {"fetch", "read"}
    /\ RefreshEnds
    /\ missed' = missed \cup (crl \ cache)
    /\ UNCHANGED <<cpVars, cache, connVars, since, uptime>>

TickFires ==
    /\ watch = "wait" /\ timer = 0
    /\ watch' = "fetch" /\ timer' = Every
    /\ UNCHANGED <<cpVars, spent, body, cache, connVars, histVars>>

(***************************************************************************)
(* The world.                                                              *)
(***************************************************************************)
\* Bound: one certificate of the finitely many is never listed.
Revoke(c) ==
    /\ c \notin crl /\ crl \cup {c} # Cert
    /\ crl' = crl \cup {c} /\ since' = [since EXCEPT ![c] = 0]
    /\ UNCHANGED <<presented, watchVars, connVars, uptime, missed>>

\* The control plane puts up a certificate its list does not name.
Rotate(c) ==
    /\ c \notin crl \cup {presented} /\ presented' = c
    /\ UNCHANGED <<crl, watchVars, connVars, histVars>>

Tick ==
    /\ watch = "wait" => timer > 0
    /\ watch \in {"fetch", "read"} => spent < Fetch
    /\ timer' = IF timer > 0 THEN timer - 1 ELSE 0
    /\ spent' = IF watch \in {"fetch", "read"} THEN spent + 1 ELSE spent
    /\ since' = [c \in Cert |-> IF c \in crl THEN Lesser(since[c] + 1, Window + 1) ELSE 0]
    /\ uptime' = Lesser(uptime + 1, Fetch + 1)
    /\ UNCHANGED <<cpVars, watch, body, cache, connVars, missed>>

Next ==
    \/ \E id \in BOOLEAN : Start(id)
    \/ Crash \/ PollEnds \/ FetchDone \/ FetchFails \/ TickFires \/ Tick
    \/ \E c \in Cert :
        PollSends(c) \/ ConnCloses(c) \/ FetchSends(c) \/ Revoke(c) \/ Rotate(c)

Spec == Init /\ [][Next]_vars

\* The watcher's goroutine runs, time passes, a refresh asked for again and again works
\* once there is a way to connect, and the control plane does not go on presenting what
\* it has revoked.
FairSpec ==
    /\ Spec
    /\ WF_vars(TickFires) /\ WF_vars(FetchFails) /\ SF_vars(Tick)
    /\ SF_vars(\E c \in Cert : FetchSends(c)) /\ SF_vars(FetchDone)
    /\ WF_vars(presented \in crl /\ \E c \in Cert : Rotate(c))

-----------------------------------------------------------------------------
TypeOK ==
    /\ crl \subseteq Cert /\ presented \in Cert
    /\ watch \in {"down", "off", "fetch", "read", "wait"}
    /\ timer \in 0..Every /\ spent \in 0..Fetch
    /\ body \subseteq Cert /\ cache \subseteq Cert
    /\ pool \subseteq Cert /\ poll \in Cert \cup {None}
    /\ since \in [Cert -> 0..(Window + 1)]
    /\ uptime \in 0..(Fetch + 1) /\ missed \subseteq Cert

Asking == watch \in {"fetch", "read"}

\* The first refresh of the process, before there is a ticker.
FirstRefresh == Asking /\ timer = 0

\* The first refresh has no ticker yet and is as old as the process; every later one began
\* when the ticker was wound up.
ClockInv ==
    /\ ~Asking => spent = 0
    /\ ~Up \/ watch = "off" => timer = 0
    /\ FirstRefresh => uptime = spent
    /\ Asking => timer = 0 \/ timer = Every - spent

\* How long ago a certificate can have been listed that is not in the cache although no
\* refresh that should have brought it failed.
ListInv ==
    /\ cache \subseteq crl
    /\ watch = "read" => cache \subseteq body /\ body \subseteq crl
    /\ \A c \in crl \ cache :
        /\ watch = "wait" /\ c \notin missed => since[c] <= Fetch + Every - timer
        /\ Asking /\ timer > 0 /\ c \notin missed => since[c] <= Fetch + Every + spent
        /\ watch = "read" /\ c \notin body => since[c] <= spent

\* The cache is behind the list by no more than the ticker and the fetches under way
\* account for, whatever fails and whenever the process restarts (crl.go:71-117).
Inductive == TypeOK /\ ClockInv /\ ListInv

\* An hour and two fetches after a certificate was listed, no new connection is made to a
\* peer that presents it, unless the refreshes that should have brought it failed, or the
\* first refresh of the process is still under way, which is within the timeout of its start
\* (crl.go:71-117, clientcert.go:125-137).
RevokedPeerShutOut ==
    [][\A c \in pool' \ pool :
          watch # "off" /\ c \in crl \ missed /\ since[c] > Window
             => FirstRefresh /\ uptime <= Fetch]_vars

\* What is listed reaches the cache although refreshes fail, and although the list may
\* name the certificate of the very connection it has to come over: it takes a control
\* plane that moves to another certificate, and no crash.
ListedReachesCache ==
    \A c \in Cert : c \in crl /\ watch \notin {"down", "off"} ~> c \in cache \/ ~Up

\* main.go:120-121: "a refresh has to happen at least once before the first vault call".  It
\* need not: main starts Run in a goroutine (145) and goes on to the poll loop, whose first
\* poll may be sent, to a peer long revoked, before the first refresh is over.
HotBeforeFirstPoll ==
    [][poll' # poll /\ poll' # None /\ watch # "off" => ~FirstRefresh]_vars
=============================================================================
