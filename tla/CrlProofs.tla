----------------------------- MODULE CrlProofs -----------------------------
(***************************************************************************)
(* What Crl guarantees for any set of certificates, any period and any     *)
(* timeout shorter than it, and for failures and crashes at any step.      *)
(***************************************************************************)
EXTENDS Crl, TLAPS

LEMMA Times == Every \in Nat /\ Fetch \in Nat /\ Fetch > 0 /\ Fetch < Every
  BY CrlAssumption

LEMMA InitInductive == Init => Inductive
  BY Times DEF Init, Inductive, TypeOK, ClockInv, ListInv, Asking, FirstRefresh, Up, Window

(***************************************************************************)
(* Type correctness.                                                       *)
(***************************************************************************)
LEMMA RefreshTypeOK ==
    ASSUME TypeOK, RefreshEnds
    PROVE  watch' = "wait" /\ timer' \in 0..Every /\ spent' \in 0..Fetch /\ body' \subseteq Cert
  BY Times DEF TypeOK, RefreshEnds

LEMMA NextTypeOK == TypeOK /\ [Next]_vars => TypeOK'
  <1> SUFFICES ASSUME TypeOK, [Next]_vars PROVE TypeOK'
    OBVIOUS
  <1> USE DEF cpVars, watchVars, connVars, histVars
  <1>1. ASSUME NEW id \in BOOLEAN, Start(id) PROVE TypeOK'
    BY <1>1, Times DEF Start, TypeOK
  <1>2. CASE Crash
    BY <1>2, Times DEF Crash, TypeOK
  <1>3. CASE PollEnds
    BY <1>3 DEF PollEnds, TypeOK
  <1>4. CASE FetchDone
    BY <1>4, RefreshTypeOK DEF FetchDone, TypeOK
  <1>5. CASE FetchFails
    BY <1>5, RefreshTypeOK DEF FetchFails, TypeOK
  <1>6. CASE TickFires
    BY <1>6, Times DEF TickFires, TypeOK
  <1>7. CASE Tick
    <2>1. /\ timer' \in 0..Every /\ spent' \in 0..Fetch /\ uptime' \in 0..(Fetch + 1)
          /\ since' \in [Cert -> 0..(Window + 1)]
      BY <1>7, Times DEF Tick, TypeOK, Lesser, Window
    <2>2. QED
      BY <1>7, <2>1 DEF Tick, TypeOK
  <1>8. ASSUME NEW c \in Cert, PollSends(c) \/ ConnCloses(c) \/ FetchSends(c) \/ Rotate(c)
        PROVE  TypeOK'
    BY <1>8 DEF PollSends, ConnCloses, FetchSends, Rotate, Connects, TypeOK
  <1>9. ASSUME NEW c \in Cert, Revoke(c) PROVE TypeOK'
    BY <1>9, Times DEF Revoke, TypeOK, Window
  <1>10. CASE UNCHANGED vars
    BY <1>10 DEF vars, TypeOK
  <1>11. QED
    BY <1>1, <1>2, <1>3, <1>4, <1>5, <1>6, <1>7, <1>8, <1>9, <1>10 DEF Next

(***************************************************************************)
(* The clocks of the watcher.                                              *)
(***************************************************************************)
LEMMA NextClockInv == TypeOK /\ ClockInv /\ [Next]_vars => ClockInv'
  <1> SUFFICES ASSUME TypeOK, ClockInv, [Next]_vars PROVE ClockInv'
    OBVIOUS
  <1> USE Times DEF cpVars, watchVars, connVars, histVars, Up, Asking, FirstRefresh, ClockInv
  <1>1. ASSUME NEW id \in BOOLEAN, Start(id) PROVE ClockInv'
    BY <1>1 DEF Start
  <1>2. CASE Crash
    BY <1>2 DEF Crash
  <1>3. CASE FetchDone \/ FetchFails
    BY <1>3 DEF FetchDone, FetchFails, RefreshEnds
  <1>4. CASE TickFires
    BY <1>4 DEF TickFires
  <1>5. CASE Tick
    BY <1>5 DEF Tick, TypeOK, Lesser
  <1>6. ASSUME NEW c \in Cert, FetchSends(c) PROVE ClockInv'
    BY <1>6 DEF FetchSends
  <1>7. CASE \/ PollEnds \/ UNCHANGED vars
             \/ \E c \in Cert : PollSends(c) \/ ConnCloses(c) \/ Revoke(c) \/ Rotate(c)
    <2>1. UNCHANGED <<watch, timer, spent, uptime>>
      BY <1>7 DEF PollEnds, vars, PollSends, ConnCloses, Revoke, Rotate
    <2>2. QED
      BY <2>1
  <1>8. QED
    BY <1>1, <1>2, <1>3, <1>4, <1>5, <1>6, <1>7 DEF Next

(***************************************************************************)
(* How far the cache is behind the list.                                   *)
(***************************************************************************)
LEMMA NextListInv == TypeOK /\ ClockInv /\ ListInv /\ [Next]_vars => ListInv'
  <1> SUFFICES ASSUME TypeOK, ClockInv, ListInv, [Next]_vars PROVE ListInv'
    OBVIOUS
  <1> USE Times DEF cpVars, watchVars, connVars, histVars, Up, Asking
  <1>1. ASSUME NEW id \in BOOLEAN, Start(id) PROVE ListInv'
    BY <1>1 DEF Start, ListInv, ClockInv
  <1>2. CASE Crash
    BY <1>2 DEF Crash, ListInv
  <1>3. CASE FetchDone
    <2>1. /\ watch = "read" /\ watch' = "wait" /\ cache' = body /\ missed' = missed \ body
          /\ timer' = IF timer = 0 THEN Every ELSE timer
          /\ UNCHANGED <<crl, since>>
      BY <1>3 DEF FetchDone, RefreshEnds
    <2>2. cache' \subseteq crl'
      BY <2>1 DEF ListInv
    <2>3. ASSUME NEW c \in crl \ body
          PROVE  since[c] <= Fetch + Every - timer'
      <3>1. c \notin cache /\ since[c] <= spent
        BY <2>1, <2>3 DEF ListInv
      <3>2. c \in Cert /\ since[c] \in Int /\ spent \in 0..Fetch
        BY <2>3 DEF TypeOK, Window
      <3>3. timer' = Every \/ timer' = Every - spent
        BY <2>1 DEF ClockInv
      <3>4. QED
        BY <3>1, <3>2, <3>3
    <2>4. QED
      BY <2>1, <2>2, <2>3 DEF ListInv
  <1>4. CASE FetchFails
    <2>1. watch' = "wait" /\ missed' = missed \cup (crl \ cache) /\ UNCHANGED <<crl, cache>>
      BY <1>4 DEF FetchFails, RefreshEnds
    <2>2. QED
      BY <2>1 DEF ListInv
  <1>5. CASE TickFires
    <2>1. /\ watch = "wait" /\ timer = 0 /\ watch' = "fetch" /\ timer' = Every /\ spent = 0
          /\ UNCHANGED <<crl, cache, since, missed, spent, body>>
      BY <1>5 DEF TickFires, ClockInv
    <2>2. QED
      BY <2>1 DEF ListInv
  <1>6. CASE Tick
    <2>1. UNCHANGED <<crl, cache, body, watch, missed>>
      BY <1>6 DEF Tick
    <2>2. ASSUME NEW c \in crl \ cache PROVE since'[c] <= since[c] + 1 /\ since[c] \in Int
      BY <1>6, <2>2 DEF Tick, Lesser, TypeOK, Window
    <2>3. /\ watch = "wait" => timer' = timer - 1
          /\ Asking => spent' = spent + 1 /\ (timer' > 0 => timer > 0)
      BY <1>6 DEF Tick, TypeOK
    <2>4. ASSUME NEW c \in crl \ cache
          PROVE  /\ watch = "wait" /\ c \notin missed => since'[c] <= Fetch + Every - timer'
                 /\ Asking /\ timer' > 0 /\ c \notin missed => since'[c] <= Fetch + Every + spent'
                 /\ watch = "read" /\ c \notin body => since'[c] <= spent'
      <3>1. since'[c] \in Int
        BY <1>6, <2>4 DEF Tick, Lesser, TypeOK, Window
      <3>2. QED
        BY <2>2, <2>3, <2>4, <3>1 DEF ListInv, TypeOK
    <2>5. QED
      BY <2>1, <2>4 DEF ListInv
  <1>7. ASSUME NEW c \in Cert, FetchSends(c) PROVE ListInv'
    <2>1. /\ watch = "fetch" /\ watch' = "read" /\ body' = crl
          /\ UNCHANGED <<crl, cache, since, missed, spent, timer>>
      BY <1>7 DEF FetchSends
    <2>2. QED
      BY <2>1 DEF ListInv
  <1>8. ASSUME NEW c \in Cert, Revoke(c) PROVE ListInv'
    <2>1. /\ c \notin crl /\ crl' = crl \cup {c} /\ since' = [since EXCEPT ![c] = 0]
          /\ UNCHANGED <<watch, timer, spent, body, cache, missed>>
      BY <1>8 DEF Revoke
    <2>2. since'[c] = 0 /\ \A d \in crl : since'[d] = since[d]
      BY <2>1 DEF TypeOK
    <2>3. timer \in 0..Every /\ spent \in 0..Fetch
      BY DEF TypeOK
    <2>4. QED
      BY <2>1, <2>2, <2>3 DEF ListInv
  <1>9. CASE \/ PollEnds \/ UNCHANGED vars
             \/ \E c \in Cert : PollSends(c) \/ ConnCloses(c) \/ Rotate(c)
    <2>1. UNCHANGED <<crl, watchVars, histVars>>
      BY <1>9 DEF PollEnds, vars, PollSends, ConnCloses, Rotate
    <2>2. QED
      BY <2>1 DEF ListInv
  <1>10. QED
    BY <1>1, <1>2, <1>3, <1>4, <1>5, <1>6, <1>7, <1>8, <1>9 DEF Next

\* The cache is behind the list by no more than the ticker and the fetches under way
\* account for (crl.go:71-117).
THEOREM CrlInductive == Spec => []Inductive
  <1>1. Inductive /\ [Next]_vars => Inductive'
    BY NextTypeOK, NextClockInv, NextListInv DEF Inductive
  <1>2. QED
    BY InitInductive, <1>1, PTL DEF Spec

\* An hour and two fetches after its certificate was listed a peer gets no new connection,
\* by the poll or by the watcher, for any period, any timeout shorter than it and any
\* number of restarts, unless a refresh failed meanwhile or the first one of the process is
\* still under way (crl.go:71-117, clientcert.go:125-137).
THEOREM RevokedPeersShutOut == Spec => RevokedPeerShutOut
  <1> DEFINE Late == \A c \in pool' \ pool :
                        watch # "off" /\ c \in crl \ missed /\ since[c] > Window
                           => FirstRefresh /\ uptime <= Fetch
  <1>1. Inductive /\ [Next]_vars => [Late]_vars
    <2> SUFFICES ASSUME Inductive, Next, NEW c \in pool' \ pool, watch # "off",
                        c \in crl \ missed, since[c] > Window
                 PROVE  FirstRefresh /\ uptime <= Fetch
      OBVIOUS
    <2>1. Up /\ c \notin cache
      <3>1. CASE \E d \in Cert : PollSends(d) \/ FetchSends(d)
        BY <3>1 DEF PollSends, FetchSends, Connects
      <3>2. CASE \/ \E d \in Cert : ConnCloses(d) \/ Revoke(d) \/ Rotate(d)
                 \/ \E id \in BOOLEAN : Start(id)
                 \/ Crash \/ PollEnds \/ FetchDone \/ FetchFails \/ TickFires \/ Tick
        BY <3>2 DEF ConnCloses, Revoke, Rotate, Start, Crash, PollEnds, FetchDone, FetchFails,
                    TickFires, Tick, connVars
      <3>3. QED
        BY <3>1, <3>2 DEF Next
    <2>2. /\ timer \in 0..Every /\ spent \in 0..Fetch /\ since[c] \in Nat
          /\ watch = "wait" \/ Asking
      BY <2>1 DEF Inductive, TypeOK, Up, Asking, Window
    <2>3. CASE watch = "wait"
      BY <2>1, <2>2, <2>3, Times DEF Inductive, ListInv, Window
    <2>4. CASE Asking /\ timer > 0
      BY <2>1, <2>2, <2>4, Times DEF Inductive, ListInv, Window
    <2>5. CASE Asking /\ timer = 0
      BY <2>2, <2>5, Times DEF Inductive, ClockInv, FirstRefresh
    <2>6. QED
      BY <2>2, <2>3, <2>4, <2>5
  <1>2. QED
    BY <1>1, CrlInductive, PTL DEF Spec, RevokedPeerShutOut
=============================================================================
