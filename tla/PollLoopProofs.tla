--------------------------- MODULE PollLoopProofs ---------------------------
(***************************************************************************)
(* What PollLoop guarantees for any set of envelopes, operations, paths,   *)
(* backoff bounds and number of restarts: the order and the truth of its   *)
(* answers, the promise of Bridge, the value a read is answered with, and  *)
(* how long the loop sleeps.                                               *)
(***************************************************************************)
EXTENDS PollLoop, FiniteSetTheorems, TLAPS

(***************************************************************************)
(* Sequences.                                                              *)
(***************************************************************************)
\* Appending keeps every element in its place and adds the new one at the end.
LEMMA AppendElements ==
    ASSUME NEW S, NEW s \in Seq(S), NEW x \in S
    PROVE  /\ Append(s, x) \in Seq(S)
           /\ DOMAIN Append(s, x) = DOMAIN s \cup {Len(s) + 1}
           /\ Len(s) + 1 \notin DOMAIN s
           /\ \A i \in DOMAIN s : i < Len(s) + 1 /\ Append(s, x)[i] = s[i]
           /\ Append(s, x)[Len(s) + 1] = x
  OBVIOUS

\* The tail of a sequence holds the elements from the second on.
LEMMA TailElements ==
    ASSUME NEW S, NEW s \in Seq(S), s # <<>>
    PROVE  /\ Head(s) = s[1] /\ Head(s) \in S /\ 1 \in DOMAIN s
           /\ Tail(s) \in Seq(S)
           /\ \A i \in DOMAIN Tail(s) :
                i + 1 \in DOMAIN s /\ i + 1 # 1 /\ Tail(s)[i] = s[i + 1]
           /\ \A i \in DOMAIN Tail(s) : i \in Int
  OBVIOUS

\* The cap keeps the backoff between its bounds.
LEMMA NextBackoffBounded ==
    ASSUME NEW d \in MinBackoff..MaxBackoff
    PROVE  NextBackoff(d) \in MinBackoff..MaxBackoff
  BY BackoffAssumption DEF NextBackoff

(***************************************************************************)
(* Type correctness.                                                       *)
(***************************************************************************)
LEMMA InitTypeOK == Init => TypeOK
  <1> SUFFICES ASSUME Init PROVE TypeOK
    OBVIOUS
  <1> USE EnvAssumption, BackoffAssumption DEF Init
  <1>1. queue \in Seq(Env) /\ effects \in Seq(Env)
    OBVIOUS
  <1>2. /\ backoff \in MinBackoff..MaxBackoff /\ pause \in Nat
        /\ starts \in 1..MaxStarts /\ fails \in 0..MaxFails
    OBVIOUS
  <1>3. lasted \in [Env -> 0..HandleLimit]
    OBVIOUS
  <1>4. QED
    BY <1>1, <1>2, <1>3 DEF TypeOK, Verdicts, LoopStates, HandlerState, Live

LEMMA NextTypeOK == TypeOK /\ [Next]_vars => TypeOK'
  <1> SUFFICES ASSUME TypeOK, [Next]_vars PROVE TypeOK'
    OBVIOUS
  <1> USE EnvAssumption, BackoffAssumption
      DEF TypeOK, Verdicts, LoopStates, HandlerState, Live, cpVars, loopVars, handVars,
          vaultVars, histVars
  <1>1. ASSUME NEW e \in Env, CpPush(e) PROVE TypeOK'
    BY <1>1, AppendElements DEF CpPush
  <1>2. CASE CpPop
    BY <1>2, TailElements DEF CpPop
  <1>3. CASE LoopTop
    BY <1>3 DEF LoopTop
  <1>4. CASE PollEmpty
    BY <1>4 DEF PollEmpty, PollSucceeded
  <1>5. CASE PollEnvelope
    BY <1>5 DEF PollEnvelope, PollSucceeded
  <1>6. CASE PollFails
    BY <1>6 DEF PollFails, Jitter
  <1>7. CASE PollCancelled
    BY <1>7 DEF PollCancelled
  <1>8. CASE Wake
    BY <1>8, NextBackoffBounded DEF Wake
  <1>9. ASSUME NEW e \in Env, Handler(e) PROVE TypeOK'
    <2>1. CASE HandleUnknown(e)
      BY <2>1 DEF HandleUnknown, Dispatched
    <2>7. CASE HandleCancelled(e)
      BY <2>7 DEF HandleCancelled, Dispatched
    <2>2. CASE HandleCall(e)
      BY <2>2 DEF HandleCall
    <2>3. CASE CallReturns(e)
      BY <2>3 DEF CallReturns, Dispatched
    <2>4. CASE Post(e)
      BY <2>4 DEF Post
    <2>5. CASE PostRefused(e)
      BY <2>5 DEF PostRefused, Ends
    <2>6. CASE PostEnds(e)
      BY <2>6 DEF PostEnds, Ends
    <2>8. QED
      BY <1>9, <2>1, <2>2, <2>3, <2>4, <2>5, <2>6, <2>7 DEF Handler
  <1>10. ASSUME NEW e \in Env, HandlerFaults(e) PROVE TypeOK'
    <2>1. CASE CallFails(e)
      BY <2>1 DEF CallFails, Dispatched
    <2>2. CASE PostFails(e)
      BY <2>2 DEF PostFails, Ends
    <2>3. CASE Elapse(e)
      BY <2>3, BackoffAssumption DEF Elapse
    <2>4. QED
      BY <1>10, <2>1, <2>2, <2>3 DEF HandlerFaults
  <1>11. ASSUME NEW e \in Env, VaultApplies(e) PROVE TypeOK'
    BY <1>11, AppendElements DEF VaultApplies
  <1>12. ASSUME NEW e \in Env, CpReceives(e) PROVE TypeOK'
    BY <1>12 DEF CpReceives
  <1>13. CASE Signal
    BY <1>13 DEF Signal
  <1>14. CASE MainExits \/ Crash
    <2>1. lasted' \in [Env -> 0..HandleLimit] /\ h' \in [Env -> HandlerState]
      BY <1>14 DEF MainExits, Crash, ProcessEnds
    <2>2. QED
      BY <1>14, <2>1 DEF MainExits, Crash, ProcessEnds
  <1>15. CASE Restart
    <2>1. /\ starts' \in 1..MaxStarts /\ backoff' \in MinBackoff..MaxBackoff
          /\ pause' \in Nat /\ fails' \in 0..MaxFails
      BY <1>15 DEF Restart
    <2>2. QED
      BY <1>15, <2>1 DEF Restart
  <1>16. CASE UNCHANGED vars
    BY <1>16 DEF vars
  <1>17. QED
    BY <1>1, <1>2, <1>3, <1>4, <1>5, <1>6, <1>7, <1>8, <1>9, <1>10, <1>11, <1>12,
       <1>13, <1>14, <1>15, <1>16 DEF Next, Loop, Services, Process

\* Every variable keeps its type: in particular the backoff never leaves
\* MinBackoff..MaxBackoff, whatever sequence of polls fails (poll.go:220-226).
THEOREM TypeCorrect == Spec => []TypeOK
  BY InitTypeOK, NextTypeOK, PTL DEF Spec

(***************************************************************************)
(* The inductive invariant.                                                *)
(***************************************************************************)
\* What the properties say of the vault's history needs no second look in a step
\* that leaves the history and the record of answered envelopes alone.
LEMMA HistoryUnchanged ==
    ASSUME AtMostOnce, AnswerOrdersCalls, KnownInv, UNCHANGED <<effects, known>>
    PROVE  AtMostOnce' /\ AnswerOrdersCalls' /\ KnownInv' /\ EffectSet' = EffectSet
  BY DEF AtMostOnce, AnswerOrdersCalls, KnownInv, EffectSet

\* An envelope leaves the queue, or waits in it, without touching the handlers.
LEMMA HandlersUnchanged ==
    ASSUME CallInv, ResultInv, DeadlineInv, EffectSet' = EffectSet,
           UNCHANGED <<wire, replies, h, result, answers, lasted>>
    PROVE  CallInv' /\ ResultInv' /\ DeadlineInv'
  BY DEF CallInv, ResultInv, DeadlineInv

\* A handler that moves on stays where an envelope in flight may be.
LEMMA PlaceMoved ==
    ASSUME TypeOK, PlaceInv, LifeInv, NEW e \in Env, NEW s \in HandlerState \ {"none"},
           h[e] \in Live, h' = [h EXCEPT ![e] = s],
           UNCHANGED <<queue, pushed, inbound, loop>>
    PROVE  PlaceInv' /\ LifeInv'
  <1>1. /\ \A i \in DOMAIN queue : h'[queue[i]] = "none"
        /\ inbound # None => h'[inbound] = "none"
    BY EnvAssumption DEF TypeOK, PlaceInv, Live
  <1>2. PlaceInv'
    BY <1>1 DEF TypeOK, PlaceInv, Live, HandlerState
  <1>3. LifeInv'
    BY DEF TypeOK, LifeInv
  <1>4. QED
    BY <1>2, <1>3

LEMMA PlaceUnchanged ==
    ASSUME PlaceInv, LifeInv, UNCHANGED <<queue, pushed, inbound, loop, h>>
    PROVE  PlaceInv' /\ LifeInv'
  BY DEF PlaceInv, LifeInv

LEMMA InitCore == Init => Core
  <1> SUFFICES ASSUME Init PROVE Core
    OBVIOUS
  <1>1. TypeOK
    BY InitTypeOK
  <1>2. EffectSet = {}
    BY DEF Init, EffectSet
  <1>3. PlaceInv /\ LifeInv /\ CallInv /\ KnownInv /\ DeadlineInv
    BY <1>2 DEF Init, PlaceInv, LifeInv, CallInv, KnownInv, DeadlineInv
  <1>4. ResultInv
    BY EnvAssumption DEF Init, ResultInv
  <1>5. AtMostOnce /\ AnswerOrdersCalls
    BY DEF Init, AtMostOnce, AnswerOrdersCalls
  <1>6. QED
    BY <1>1, <1>3, <1>4, <1>5 DEF Core

\* The queue grows at its end with an envelope that was nowhere.
LEMMA PushCore ==
    ASSUME Core, TypeOK', NEW e \in Env, CpPush(e)
    PROVE  Core'
  <1> USE DEF Core
  <1>1. /\ h[e] = "none" /\ e \notin EffectSet /\ inbound # e
        /\ \A i \in DOMAIN queue : queue[i] # e
    <2>1. e \notin pushed
      BY DEF CpPush
    <2>2. h[e] = "none" /\ inbound # e /\ \A i \in DOMAIN queue : queue[i] # e
      BY <2>1, EnvAssumption DEF PlaceInv
    <2>3. e \notin EffectSet
      BY <2>2 DEF CallInv
    <2>4. QED
      BY <2>2, <2>3
  <1>2. UNCHANGED <<h, inbound, loop, wire, replies, result, answers, lasted, effects>>
    BY DEF CpPush, loopVars, handVars, vaultVars
  <1>3. EffectSet' = EffectSet /\ AtMostOnce'
    BY <1>2 DEF EffectSet, AtMostOnce
  <1>4. CallInv' /\ ResultInv' /\ DeadlineInv'
    BY <1>2, <1>3, HandlersUnchanged
  <1>5. LifeInv'
    BY <1>2 DEF LifeInv
  <1>6. PlaceInv'
    <2>1. /\ queue' = Append(queue, e) /\ pushed' = pushed \cup {e}
          /\ queue \in Seq(Env)
      BY DEF CpPush, TypeOK
    <2>2. /\ DOMAIN queue' = DOMAIN queue \cup {Len(queue) + 1}
          /\ \A i \in DOMAIN queue : queue'[i] = queue[i]
          /\ queue'[Len(queue) + 1] = e
      BY <2>1, AppendElements
    <2>3. QED
      BY <1>1, <1>2, <2>1, <2>2 DEF PlaceInv
  <1>7. known' = [known EXCEPT ![e] = {d \in Env : answers[d] \in {"ok", "not_found"}}]
    BY DEF CpPush
  <1>8. KnownInv'
    BY <1>3, <1>7 DEF KnownInv, ResultInv, TypeOK
  <1>9. AnswerOrdersCalls'
    <2>1. ASSUME NEW f \in Env, NEW d \in known'[f], NEW j \in DOMAIN effects,
                 effects[j] = f
          PROVE  \E i \in DOMAIN effects : i < j /\ effects[i] = d
      <3>1. f # e
        BY <1>1, <2>1 DEF EffectSet
      <3>2. d \in known[f]
        BY <1>7, <2>1, <3>1 DEF TypeOK
      <3>3. QED
        BY <2>1, <3>2 DEF AnswerOrdersCalls
    <2>2. QED
      BY <1>2, <2>1 DEF AnswerOrdersCalls
  <1>10. QED
    BY <1>3, <1>4, <1>5, <1>6, <1>8, <1>9

\* The queue loses its head to the poll response.
LEMMA PopCore ==
    ASSUME Core, TypeOK', CpPop
    PROVE  Core'
  <1> USE DEF Core
  <1>1. UNCHANGED <<pushed, h, loop, wire, replies, result, answers, lasted, effects, known>>
    BY DEF CpPop, loopVars, handVars, vaultVars, histVars
  <1>2. AtMostOnce' /\ AnswerOrdersCalls' /\ KnownInv' /\ EffectSet' = EffectSet
    BY <1>1, HistoryUnchanged
  <1>3. CallInv' /\ ResultInv' /\ DeadlineInv'
    BY <1>1, <1>2, HandlersUnchanged
  <1>4. LifeInv'
    BY <1>1 DEF LifeInv
  <1>5. PlaceInv'
    <2>1. /\ queue # <<>> /\ queue \in Seq(Env) /\ inbound = None /\ loop = "polling"
          /\ inbound' = Head(queue) /\ queue' = Tail(queue)
      BY DEF CpPop, TypeOK
    <2>2. /\ inbound' = queue[1] /\ 1 \in DOMAIN queue /\ inbound' \in Env
          /\ \A i \in DOMAIN queue' :
                i \in Int /\ i + 1 \in DOMAIN queue /\ i + 1 # 1 /\ queue'[i] = queue[i + 1]
      BY <2>1, TailElements
    <2>3. \A i, j \in DOMAIN queue' : queue'[i] = queue'[j] => i = j
      <3>1. SUFFICES ASSUME NEW i \in DOMAIN queue', NEW j \in DOMAIN queue',
                            queue'[i] = queue'[j]
                     PROVE  i = j
        OBVIOUS
      <3>2. i + 1 = j + 1
        BY <2>2, <3>1 DEF PlaceInv
      <3>3. QED
        BY <2>2, <3>2
    <2>4. \A i \in DOMAIN queue' :
            queue'[i] \in pushed' /\ h'[queue'[i]] = "none" /\ queue'[i] # inbound'
      BY <1>1, <2>2 DEF PlaceInv
    <2>5. inbound' \in pushed' /\ h'[inbound'] = "none" /\ loop' = "polling"
      BY <1>1, <2>1, <2>2 DEF PlaceInv
    <2>6. QED
      BY <1>1, <2>3, <2>4, <2>5 DEF PlaceInv
  <1>6. QED
    BY <1>2, <1>3, <1>4, <1>5

\* The steps of the polling goroutine and of the process that start no handler and
\* end none: the envelope in the poll response is kept or dropped.
LEMMA LoopCore ==
    ASSUME Core, TypeOK',
           LoopTop \/ PollEmpty \/ PollFails \/ PollCancelled \/ Wake \/ Signal \/ Restart
    PROVE  Core'
  <1> USE DEF Core
  <1>1. /\ UNCHANGED <<queue, pushed, h, wire, replies, result, answers, lasted,
                       effects, known>>
        /\ inbound' \in {None, inbound}
        /\ inbound' # None => loop' = loop
    <2>1. CASE LoopTop
      BY <2>1 DEF LoopTop, PlaceInv, cpVars, handVars, vaultVars, histVars
    <2>2. CASE PollEmpty
      BY <2>2 DEF PollEmpty, PollSucceeded, cpVars, handVars, vaultVars, histVars
    <2>3. CASE PollFails
      BY <2>3 DEF PollFails, handVars, vaultVars
    <2>4. CASE PollCancelled
      BY <2>4 DEF PollCancelled, handVars, vaultVars, histVars
    <2>5. CASE Wake
      BY <2>5 DEF Wake, PlaceInv, cpVars, handVars, vaultVars, histVars
    <2>6. CASE Signal
      BY <2>6 DEF Signal, cpVars, handVars, vaultVars, histVars
    <2>7. CASE Restart
      BY <2>7 DEF Restart, PlaceInv, cpVars, handVars, vaultVars
    <2>8. QED
      BY <2>1, <2>2, <2>3, <2>4, <2>5, <2>6, <2>7
  <1>2. loop' = "down" => loop = "down"
    BY DEF LoopTop, PollEmpty, PollSucceeded, PollFails, PollCancelled, Wake, Signal, Restart
  <1>3. AtMostOnce' /\ AnswerOrdersCalls' /\ KnownInv' /\ EffectSet' = EffectSet
    BY <1>1, HistoryUnchanged
  <1>4. CallInv' /\ ResultInv' /\ DeadlineInv'
    BY <1>1, <1>3, HandlersUnchanged
  <1>5. LifeInv'
    BY <1>1, <1>2 DEF LifeInv
  <1>6. PlaceInv'
    <2>1. \A i \in DOMAIN queue : queue[i] # None
      BY EnvAssumption DEF TypeOK
    <2>2. QED
      BY <1>1, <2>1 DEF PlaceInv
  <1>7. QED
    BY <1>3, <1>4, <1>5, <1>6

\* The envelope in the poll response becomes a handler.
LEMMA EnvelopeCore ==
    ASSUME Core, TypeOK', PollEnvelope
    PROVE  Core'
  <1> USE DEF Core
  <1>1. /\ loop' = "top" /\ inbound # None /\ inbound' = None
        /\ h' = [h EXCEPT ![inbound] = "start"]
        /\ UNCHANGED <<queue, pushed, wire, replies, result, answers, lasted, effects, known>>
    BY DEF PollEnvelope, PollSucceeded, vaultVars
  <1>2. inbound \in Env /\ h[inbound] = "none" /\ inbound \in pushed
    BY <1>1 DEF TypeOK, PlaceInv
  <1>3. AtMostOnce' /\ AnswerOrdersCalls' /\ KnownInv' /\ EffectSet' = EffectSet
    BY <1>1, HistoryUnchanged
  <1>4. ResultInv' /\ DeadlineInv'
    <2>1. ResultInv'
      BY <1>1, <1>3 DEF ResultInv
    <2>2. lasted' = lasted /\ lasted[inbound] = 0
      BY <1>1, <1>2 DEF DeadlineInv
    <2>3. h \in [Env -> HandlerState]
      BY DEF TypeOK
    <2>4. \A e \in Env : h'[e] = h[e] \/ (e = inbound /\ h'[e] = "start")
      BY <1>1, <1>2, <2>3
    <2>5. QED
      BY <2>1, <2>2, <2>4 DEF DeadlineInv
  <1>5. inbound \notin wire /\ inbound \notin EffectSet
    BY <1>2 DEF CallInv
  <1>6. CallInv'
    BY <1>1, <1>2, <1>3, <1>5 DEF CallInv, TypeOK
  <1>7. LifeInv'
    BY <1>1 DEF LifeInv
  <1>8. PlaceInv'
    <2>1. \A i \in DOMAIN queue : queue[i] # None /\ queue[i] \in Env
      BY EnvAssumption DEF TypeOK
    <2>2. QED
      BY <1>1, <1>2, <2>1 DEF PlaceInv, TypeOK
  <1>9. QED
    BY <1>3, <1>4, <1>6, <1>7, <1>8

\* The end of the process takes every handler with it, whether another one follows at
\* once or not.
LEMMA EndCore ==
    ASSUME Core, TypeOK', inbound' = None, replies' = {},
           h' = [e \in Env |-> IF h[e] \in Live THEN "killed" ELSE h[e]],
           lasted' = [e \in Env |-> 0],
           UNCHANGED <<queue, pushed, wire, result, answers, effects, known>>
    PROVE  Core'
  <1> USE DEF Core
  <1>1. /\ inbound' = None /\ replies' = {}
        /\ h' = [e \in Env |-> IF h[e] \in Live THEN "killed" ELSE h[e]]
        /\ lasted' = [e \in Env |-> 0]
        /\ UNCHANGED <<queue, pushed, wire, result, answers, effects, known>>
    OBVIOUS
  <1>2. AtMostOnce' /\ AnswerOrdersCalls' /\ KnownInv' /\ EffectSet' = EffectSet
    BY <1>1, HistoryUnchanged
  <1>3. ResultInv' /\ DeadlineInv'
    BY <1>1, <1>2, BackoffAssumption DEF ResultInv, DeadlineInv
  <1>4. \A e \in Env : h[e] \notin Live => h'[e] = h[e]
    BY <1>1
  <1>5. \A e \in Env : h[e] \in Live => h'[e] = "killed"
    BY <1>1
  <1>6. CallInv'
    BY <1>1, <1>2, <1>4, <1>5 DEF CallInv, Live
  <1>7. LifeInv'
    BY <1>4, <1>5 DEF LifeInv, Live
  <1>8. PlaceInv'
    <2>1. \A i \in DOMAIN queue : queue[i] # None /\ queue[i] \in Env
      BY EnvAssumption DEF TypeOK
    <2>2. \A i \in DOMAIN queue : h'[queue[i]] = "none"
      BY <1>4, <2>1 DEF PlaceInv, Live
    <2>3. \A e \in Env : h'[e] # "none" => e \in pushed
      BY <1>4, <1>5 DEF PlaceInv, Live
    <2>4. QED
      BY <1>1, <2>1, <2>2, <2>3 DEF PlaceInv
  <1>9. QED
    BY <1>2, <1>3, <1>6, <1>7, <1>8

\* A handler with a result: the call it made, if any, is over.
LEMMA DispatchedCore ==
    ASSUME Core, TypeOK', NEW e \in Env, NEW v \in Verdicts, Dispatched(e, v),
           h[e] \in {"start", "calling"},
           v \in {"ok", "not_found"} => e \in EffectSet,
           wire' \subseteq wire, replies' \subseteq replies,
           UNCHANGED <<cpVars, loopVars, histVars>>
    PROVE  Core'
  <1> USE DEF Core
  <1>1. /\ h' = [h EXCEPT ![e] = "respond"] /\ result' = [result EXCEPT ![e] = v]
        /\ UNCHANGED <<queue, pushed, inbound, loop, answers, lasted, effects, known>>
    BY DEF Dispatched, cpVars, loopVars, histVars
  <1>2. AtMostOnce' /\ AnswerOrdersCalls' /\ KnownInv' /\ EffectSet' = EffectSet
    BY <1>1, HistoryUnchanged
  <1>3. PlaceInv' /\ LifeInv'
    BY <1>1, PlaceMoved DEF HandlerState, Live
  <1>4. CallInv'
    BY <1>1, <1>2 DEF CallInv, TypeOK
  <1>5. ResultInv'
    BY <1>1, <1>2 DEF ResultInv, TypeOK
  <1>6. DeadlineInv'
    BY <1>1, BackoffAssumption DEF DeadlineInv, TypeOK
  <1>7. QED
    BY <1>2, <1>3, <1>4, <1>5, <1>6

\* The POST of a result, and its end, concern the control plane alone.
LEMMA PostCore ==
    ASSUME Core, TypeOK', NEW e \in Env,
           Post(e) \/ PostRefused(e) \/ PostEnds(e) \/ PostFails(e)
    PROVE  Core'
  <1> USE DEF Core
  <1>1. PICK s \in {"posting", "done"} :
        /\ h' = [h EXCEPT ![e] = s] /\ h[e] \in {"respond", "posting"}
        /\ \A d \in Env : d # e => lasted'[d] = lasted[d]
        /\ UNCHANGED <<queue, pushed, inbound, loop, wire, replies, result, answers,
                       effects, known>>
    BY DEF Post, PostRefused, PostEnds, PostFails, Ends, cpVars, loopVars, vaultVars,
           histVars, TypeOK
  <1>2. AtMostOnce' /\ AnswerOrdersCalls' /\ KnownInv' /\ EffectSet' = EffectSet
    BY <1>1, HistoryUnchanged
  <1>3. PlaceInv' /\ LifeInv'
    BY <1>1, PlaceMoved DEF HandlerState, Live
  <1>4. CallInv'
    BY <1>1, <1>2 DEF CallInv, TypeOK
  <1>5. ResultInv' /\ DeadlineInv'
    BY <1>1, <1>2 DEF ResultInv, DeadlineInv, TypeOK
  <1>6. QED
    BY <1>2, <1>3, <1>4, <1>5

\* The request leaves for the vault, which has not seen it.
LEMMA CallCore ==
    ASSUME Core, TypeOK', NEW e \in Env, HandleCall(e)
    PROVE  Core'
  <1> USE DEF Core
  <1>1. /\ h[e] = "start" /\ h' = [h EXCEPT ![e] = "calling"] /\ wire' = wire \cup {e}
        /\ UNCHANGED <<queue, pushed, inbound, loop, replies, result, answers, lasted,
                       effects, known>>
    BY DEF HandleCall, cpVars, loopVars, histVars
  <1>2. AtMostOnce' /\ AnswerOrdersCalls' /\ KnownInv' /\ EffectSet' = EffectSet
    BY <1>1, HistoryUnchanged
  <1>3. PlaceInv' /\ LifeInv'
    BY <1>1, PlaceMoved DEF HandlerState, Live
  <1>4. e \notin EffectSet
    BY <1>1 DEF CallInv
  <1>5. CallInv'
    BY <1>1, <1>2, <1>4 DEF CallInv, TypeOK
  <1>6. ResultInv' /\ DeadlineInv'
    BY <1>1, <1>2, BackoffAssumption DEF ResultInv, DeadlineInv, TypeOK
  <1>7. QED
    BY <1>2, <1>3, <1>5, <1>6

LEMMA HandlerCore ==
    ASSUME Core, TypeOK', NEW e \in Env, Handler(e) \/ HandlerFaults(e)
    PROVE  Core'
  <1>1. CASE HandleUnknown(e) \/ HandleCancelled(e)
    BY <1>1, DispatchedCore DEF HandleUnknown, HandleCancelled, vaultVars, Verdicts
  <1>2. CASE HandleCall(e)
    BY <1>2, CallCore
  <1>3. CASE CallReturns(e)
    <2>1. e \in EffectSet
      BY <1>3 DEF CallReturns, Core, CallInv
    <2>2. PICK v \in {"ok", "not_found"} : Dispatched(e, v)
      BY <1>3 DEF CallReturns
    <2>3. QED
      BY <1>3, <2>1, <2>2, DispatchedCore DEF CallReturns, Verdicts
  <1>4. CASE CallFails(e)
    BY <1>4, DispatchedCore DEF CallFails, Verdicts
  <1>5. CASE Post(e) \/ PostRefused(e) \/ PostEnds(e) \/ PostFails(e)
    BY <1>5, PostCore
  <1>6. CASE Elapse(e)
    <2>1. /\ (h[e] = "calling" /\ lasted[e] < CallLimit) \/ h[e] = "posting"
          /\ lasted' = [lasted EXCEPT ![e] = @ + 1]
          /\ UNCHANGED <<queue, pushed, inbound, loop, h, wire, replies, result, answers,
                         effects, known>>
      BY <1>6 DEF Elapse, cpVars, loopVars, vaultVars, histVars
    <2>2. AtMostOnce' /\ AnswerOrdersCalls' /\ KnownInv' /\ EffectSet' = EffectSet
      BY <2>1, HistoryUnchanged DEF Core
    <2>3. PlaceInv' /\ LifeInv'
      BY <2>1, PlaceUnchanged DEF Core
    <2>4. CallInv' /\ ResultInv'
      BY <2>1, <2>2 DEF Core, CallInv, ResultInv
    <2>5. DeadlineInv'
      BY <2>1, BackoffAssumption DEF Core, DeadlineInv, TypeOK
    <2>6. QED
      BY <2>2, <2>3, <2>4, <2>5 DEF Core
  <1>7. QED
    BY <1>1, <1>2, <1>3, <1>4, <1>5, <1>6 DEF Handler, HandlerFaults

\* The vault carries out a call it has not carried out before, after every call
\* that was answered when this one was queued.
LEMMA AppliesCore ==
    ASSUME Core, TypeOK', NEW e \in Env, VaultApplies(e)
    PROVE  Core'
  <1> USE DEF Core
  <1>1. /\ e \in wire /\ wire' = wire \ {e}
        /\ effects \in Seq(Env) /\ effects' = Append(effects, e)
        /\ replies' \subseteq replies \cup {e}
        /\ UNCHANGED <<queue, pushed, inbound, loop, h, result, answers, lasted, known>>
    BY DEF VaultApplies, cpVars, loopVars, handVars, TypeOK
  <1> DEFINE n == Len(effects) + 1
  <1>2. /\ DOMAIN effects' = DOMAIN effects \cup {n} /\ n \notin DOMAIN effects
        /\ \A i \in DOMAIN effects : i < n /\ effects'[i] = effects[i]
        /\ effects'[n] = e
    BY <1>1, AppendElements
  <1> HIDE DEF n
  <1>3. EffectSet' = EffectSet \cup {e}
    BY <1>2 DEF EffectSet
  <1>4. e \notin EffectSet
    BY <1>1 DEF CallInv
  <1>5. AtMostOnce'
    BY <1>2, <1>4 DEF AtMostOnce, EffectSet
  <1>6. KnownInv' /\ ResultInv' /\ DeadlineInv'
    BY <1>1, <1>3 DEF KnownInv, ResultInv, DeadlineInv
  <1>7. CallInv'
    BY <1>1, <1>3 DEF CallInv
  <1>8. PlaceInv' /\ LifeInv'
    BY <1>1, PlaceUnchanged
  <1>9. AnswerOrdersCalls'
    <2>1. SUFFICES ASSUME NEW f \in Env, NEW d \in known[f], NEW j \in DOMAIN effects',
                          effects'[j] = f
                   PROVE  \E i \in DOMAIN effects' : i < j /\ effects'[i] = d
      BY <1>1 DEF AnswerOrdersCalls
    <2>2. CASE j = n
      <3>1. PICK i \in DOMAIN effects : effects[i] = d
        BY DEF KnownInv, EffectSet
      <3>2. QED
        BY <1>2, <2>2, <3>1
    <2>3. CASE j # n
      <3>1. j \in DOMAIN effects /\ effects[j] = f
        BY <1>2, <2>1, <2>3
      <3>2. PICK i \in DOMAIN effects : i < j /\ effects[i] = d
        BY <3>1 DEF AnswerOrdersCalls
      <3>3. QED
        BY <1>2, <3>2
    <2>4. QED
      BY <2>2, <2>3
  <1>10. QED
    BY <1>5, <1>6, <1>7, <1>8, <1>9

LEMMA ReceivesCore ==
    ASSUME Core, TypeOK', NEW e \in Env, CpReceives(e)
    PROVE  Core'
  <1> USE DEF Core
  <1>1. /\ answers' = [answers EXCEPT ![e] = result[e]]
        /\ UNCHANGED <<queue, pushed, inbound, loop, h, wire, replies, result, lasted,
                       effects, known>>
    BY DEF CpReceives, loopVars, handVars, vaultVars, histVars
  <1>2. AtMostOnce' /\ AnswerOrdersCalls' /\ KnownInv' /\ EffectSet' = EffectSet
    BY <1>1, HistoryUnchanged
  <1>3. ResultInv'
    BY <1>1, <1>2 DEF ResultInv, TypeOK
  <1>4. PlaceInv' /\ LifeInv'
    BY <1>1, PlaceUnchanged
  <1>5. CallInv' /\ DeadlineInv'
    BY <1>1, <1>2 DEF CallInv, DeadlineInv
  <1>6. QED
    BY <1>2, <1>3, <1>4, <1>5

LEMMA NextCore == Core /\ [Next]_vars => Core'
  <1> SUFFICES ASSUME Core, [Next]_vars PROVE Core'
    OBVIOUS
  <1>1. TypeOK'
    BY NextTypeOK DEF Core
  <1>2. CASE Loop \/ PollFails
    BY <1>1, <1>2, LoopCore, EnvelopeCore DEF Loop
  <1>3. CASE Services
    BY <1>1, <1>3, PopCore, PushCore, AppliesCore, ReceivesCore
    DEF Services
  <1>4. CASE Process
    <2>1. CASE MainExits \/ Crash
      BY <1>1, <2>1, EndCore DEF MainExits, Crash, ProcessEnds, vaultVars, histVars
    <2>2. QED
      BY <1>1, <1>4, <2>1, LoopCore DEF Process
  <1>5. ASSUME NEW e \in Env, Handler(e) \/ HandlerFaults(e) PROVE Core'
    BY <1>1, <1>5, HandlerCore
  <1>6. CASE UNCHANGED vars
    <2>1. UNCHANGED <<queue, pushed, inbound, loop, h, wire, replies, result, answers,
                      lasted, effects, known>>
      BY <1>6 DEF vars, cpVars, loopVars, handVars, vaultVars, histVars
    <2>2. AtMostOnce' /\ AnswerOrdersCalls' /\ KnownInv' /\ EffectSet' = EffectSet
      BY <2>1, HistoryUnchanged DEF Core
    <2>3. PlaceInv' /\ LifeInv'
      BY <2>1, PlaceUnchanged DEF Core
    <2>4. CallInv' /\ ResultInv' /\ DeadlineInv'
      BY <2>1, <2>2, HandlersUnchanged DEF Core
    <2>5. QED
      BY <1>1, <2>2, <2>3, <2>4 DEF Core
  <1>7. QED
    BY <1>2, <1>3, <1>4, <1>5, <1>6 DEF Next

\* Where each envelope is, and what is known of its call, in every reachable state.
THEOREM CoreHolds == Spec => []Core
  BY InitCore, NextCore, PTL DEF Spec

(***************************************************************************)
(* What follows.                                                           *)
(***************************************************************************)
\* The vault carries out no call twice, although requests outlive the handler, the
\* deadline and the process that sent them: nothing in poll.go, upstream.go or
\* vault.go sends a request again.
THEOREM CallsAtMostOnce == Spec => []AtMostOnce
  <1>1. Core => AtMostOnce
    BY DEF Core
  <1>2. QED
    BY <1>1, CoreHolds, PTL

\* No caller is told "ok" or "not_found" for a call the vault has not carried out
\* (poll.go:158-177).
THEOREM NoAnswerBeforeEffect == Spec => []AnsweredMeansApplied
  <1>1. Core => AnsweredMeansApplied
    BY DEF Core, ResultInv, AnsweredMeansApplied
  <1>2. QED
    BY <1>1, CoreHolds, PTL

\* A request that was queued after another was answered is carried out after it, for
\* any number of handlers running at once (poll.go:117-121).
THEOREM CallsFollowAnswers == Spec => []AnswerOrdersCalls
  <1>1. Core => AnswerOrdersCalls
    BY DEF Core
  <1>2. QED
    BY <1>1, CoreHolds, PTL

\* The time of the call and of the POST counts against one deadline.  With a driver
\* whose client cuts a call before it, the call leaves time for the POST, and only a
\* shutdown keeps a result from being sent (poll.go:152-183).
THEOREM OnlyShutdownSilences ==
    CallLimit < HandleLimit => (Spec => OnlyShutdownSilencesHandler)
  <1> SUFFICES ASSUME CallLimit < HandleLimit PROVE Spec => OnlyShutdownSilencesHandler
    OBVIOUS
  <1>1. Core /\ [Next]_vars =>
          [\A e \in Env : h[e] = "respond" /\ h'[e] = "done" => cancelled]_vars
    <2> SUFFICES ASSUME Core, Next, NEW e \in Env, h[e] = "respond", h'[e] = "done",
                        ~cancelled
                 PROVE  FALSE
      BY DEF Core
    <2>1. h \in [Env -> HandlerState] /\ lasted[e] \in Nat /\ lasted[e] <= CallLimit
      BY DEF Core, DeadlineInv, TypeOK
    <2>2. ~CtxDead(e)
      BY <2>1, BackoffAssumption DEF CtxDead
    <2>3. CASE \E f \in Env : Handler(f) \/ HandlerFaults(f)
      BY <2>1, <2>2, <2>3
      DEF Handler, HandlerFaults, HandleUnknown, HandleCancelled, HandleCall, CallReturns,
          Post, PostRefused, PostEnds, CallFails, PostFails, Ends, Elapse, Dispatched
    <2>4. CASE PollEnvelope
      BY <2>1, <2>4 DEF PollEnvelope
    <2>5. CASE MainExits \/ Crash
      BY <2>1, <2>5 DEF MainExits, Crash, ProcessEnds, Live
    <2>6. CASE LoopTop \/ PollEmpty \/ PollCancelled \/ Wake \/ PollFails \/ Services
                 \/ Signal \/ Restart
      BY <2>6 DEF LoopTop, PollEmpty, PollCancelled, Wake, PollFails, Services, CpPop, CpPush,
                  VaultApplies, CpReceives, Signal, Restart, handVars
    <2>7. QED
      BY <2>3, <2>4, <2>5, <2>6 DEF Next, Loop, Process
  <1>2. QED
    BY <1>1, CoreHolds, PTL DEF Spec, OnlyShutdownSilencesHandler

(***************************************************************************)
(* Results travel at most once.                                            *)
(***************************************************************************)
LEMMA InitAnswerInv == Init => AnswerInv
  BY EnvAssumption DEF Init, AnswerInv

\* A step that leaves the results where they are, and starts only goroutines whose
\* envelope was nowhere.
LEMMA AnswersUnchanged ==
    ASSUME TypeOK, AnswerInv, UNCHANGED <<answers, postWire, result>>,
           \A e \in Env : \/ h'[e] = h[e]
                          \/ h[e] = "none" /\ h'[e] = "start"
                          \/ h'[e] \in {"posting", "done", "killed"}
                          \/ h[e] = "start" /\ h'[e] = "calling"
    PROVE  AnswerInv'
  BY DEF AnswerInv, TypeOK

LEMMA NextAnswerInv == Core /\ AnswerInv /\ [Next]_vars => AnswerInv'
  <1> SUFFICES ASSUME Core, AnswerInv, [Next]_vars PROVE AnswerInv'
    OBVIOUS
  <1>1. TypeOK
    BY DEF Core
  <1> USE <1>1
  <1>2. CASE UNCHANGED <<answers, postWire, result, h>>
    BY <1>2, AnswersUnchanged
  <1>3. CASE LoopTop \/ PollEmpty \/ PollFails \/ PollCancelled \/ Wake \/ Signal \/ Restart
    BY <1>2, <1>3 DEF LoopTop, PollEmpty, PollFails, PollCancelled, Wake, Signal, Restart,
                      cpVars, handVars
  <1>4. CASE PollEnvelope
    <2>1. inbound \in Env /\ h[inbound] = "none"
      BY <1>4 DEF PollEnvelope, Core, PlaceInv, TypeOK
    <2>2. QED
      BY <1>4, <2>1, AnswersUnchanged DEF PollEnvelope, TypeOK
  <1>5. CASE Services
    <2>1. CASE CpPop
      BY <1>2, <2>1 DEF CpPop, handVars
    <2>2. ASSUME NEW e \in Env, CpPush(e) \/ VaultApplies(e) PROVE AnswerInv'
      BY <1>2, <2>2 DEF CpPush, VaultApplies, cpVars, handVars
    <2>3. ASSUME NEW e \in Env, CpReceives(e) PROVE AnswerInv'
      BY <2>3 DEF CpReceives, AnswerInv, handVars, TypeOK
    <2>4. QED
      BY <1>5, <2>1, <2>2, <2>3 DEF Services
  <1>6. CASE MainExits \/ Crash
    BY <1>6, AnswersUnchanged DEF MainExits, Crash, ProcessEnds
  <1>7. ASSUME NEW e \in Env, NEW v \in Verdicts, Dispatched(e, v),
               h[e] \in {"start", "calling"}, UNCHANGED cpVars
        PROVE  AnswerInv'
    BY <1>7 DEF Dispatched, AnswerInv, TypeOK, cpVars
  <1>8. ASSUME NEW e \in Env, Handler(e) \/ HandlerFaults(e) PROVE AnswerInv'
    <2>1. CASE HandleUnknown(e) \/ HandleCancelled(e) \/ CallReturns(e) \/ CallFails(e)
      BY <1>7, <2>1 DEF HandleUnknown, HandleCancelled, CallReturns, CallFails, Verdicts
    <2>2. CASE HandleCall(e)
      BY <2>2, AnswersUnchanged DEF HandleCall, cpVars, TypeOK
    <2>3. CASE Post(e)
      BY <2>3 DEF Post, AnswerInv, TypeOK
    <2>4. CASE PostRefused(e) \/ PostEnds(e)
      BY <2>4, AnswersUnchanged DEF PostRefused, PostEnds, Ends, cpVars, TypeOK
    <2>5. CASE PostFails(e)
      BY <2>5 DEF PostFails, Ends, AnswerInv, TypeOK
    <2>6. CASE Elapse(e)
      BY <1>2, <2>6 DEF Elapse, cpVars
    <2>7. QED
      BY <1>8, <2>1, <2>2, <2>3, <2>4, <2>5, <2>6 DEF Handler, HandlerFaults
  <1>9. CASE UNCHANGED vars
    BY <1>2, <1>9 DEF vars, cpVars, handVars
  <1>10. QED
    BY <1>3, <1>4, <1>5, <1>6, <1>8, <1>9 DEF Next, Loop, Process

LEMMA AnswersHold == Spec => [](Core /\ AnswerInv)
  <1>1. Init => Core /\ AnswerInv
    BY InitCore, InitAnswerInv
  <1>2. Core /\ AnswerInv /\ [Next]_vars => (Core /\ AnswerInv)'
    BY NextCore, NextAnswerInv
  <1>3. QED
    BY <1>1, <1>2, PTL DEF Spec

(***************************************************************************)
(* The refinement.                                                         *)
(***************************************************************************)
\* Where an envelope is in the promise.
Stage(e) ==
    /\ StageOf(e) = "idle" <=> e \notin pushed
    /\ StageOf(e) = "queued" <=> \E i \in DOMAIN queue : queue[i] = e
    /\ StageOf(e) = "taken" <=> /\ answers[e] = NoResult
                                /\ (e = inbound \/ h[e] \in Live \/ e \in postWire)
    /\ StageOf(e) = "answered" <=> answers[e] # NoResult
    /\ StageOf(e) \in {"idle", "queued", "taken", "answered", "lost"}

\* The places StageOf tells apart exclude each other.
LEMMA StagesNow == ASSUME Core, AnswerInv, NEW e \in Env PROVE Stage(e)
  <1>1. e \notin pushed => h[e] = "none" /\ e # inbound /\ \A i \in DOMAIN queue : queue[i] # e
    BY EnvAssumption DEF Core, PlaceInv
  <1>2. \A i \in DOMAIN queue : queue[i] = e => h[e] = "none" /\ e # inbound /\ e \in pushed
    BY DEF Core, PlaceInv
  <1>3. h[e] = "none" => answers[e] = NoResult /\ e \notin postWire
    BY DEF AnswerInv
  <1>4. QED
    BY <1>1, <1>2, <1>3 DEF Stage, StageOf, Live

LEMMA StagesNext == ASSUME Core', AnswerInv', NEW e \in Env PROVE Stage(e)'
  <1>1. e \notin pushed' => /\ h'[e] = "none" /\ e # inbound'
                            /\ \A i \in DOMAIN queue' : queue'[i] # e
    BY EnvAssumption DEF Core, PlaceInv
  <1>2. \A i \in DOMAIN queue' :
            queue'[i] = e => h'[e] = "none" /\ e # inbound' /\ e \in pushed'
    BY DEF Core, PlaceInv
  <1>3. h'[e] = "none" => answers'[e] = NoResult /\ e \notin postWire'
    BY DEF AnswerInv
  <1>4. QED
    BY <1>1, <1>2, <1>3 DEF Stage, StageOf, Live

\* The agent carries an envelope: in a poll response, in a goroutine, in a post.
Carried(e) == e = inbound \/ h[e] \in Live \/ e \in postWire

\* A step that takes up no envelope and tells the two services nothing is a stutter, or
\* loses what it drops.
LEMMA DropStep ==
    ASSUME Core, AnswerInv, Core', AnswerInv', UNCHANGED <<queue, pushed, answers, effects>>,
           \A e \in Env : Carried(e)' => Carried(e)
    PROVE  [Promise!Next]_Promise!bridgeVars
  <1> DEFINE S == {e \in Env : StageOf(e) # StageOf(e)'}
  <1>1. \A e \in Env : Stage(e) /\ Stage(e)'
    BY StagesNow, StagesNext
  <1>2. \A e \in S : StageOf(e) = "taken" /\ StageOf(e)' = "lost"
    BY <1>1 DEF Stage, Carried
  <1>3. [e \in Env |-> StageOf(e)]' =
            [e \in Env |-> IF e \in S THEN "lost" ELSE [f \in Env |-> StageOf(f)][e]]
    BY <1>2
  <1>4. EffectSet' = EffectSet
    BY DEF EffectSet
  <1>5. Promise!Lose(S)
    BY <1>2, <1>3, <1>4 DEF Promise!Lose
  <1>6. QED
    BY <1>5 DEF Promise!Next

\* Every step of the loop, of a handler and of the process is such a step: no handler
\* goes back to an envelope it has left.
LEMMA AgentStep ==
    ASSUME Core, AnswerInv, Core', AnswerInv',
           \/ Loop \/ PollFails \/ Process
           \/ \E e \in Env : Handler(e) \/ HandlerFaults(e)
    PROVE  [Promise!Next]_Promise!bridgeVars
  <1>1. TypeOK /\ (inbound # None => inbound \in Env)
    BY DEF Core, TypeOK
  <1> USE <1>1
  <1>2. ASSUME UNCHANGED <<queue, pushed, answers, effects>>,
               \A e \in Env : h'[e] \in Live => h[e] \in Live \/ e = inbound,
               postWire' \subseteq postWire, inbound' \in {inbound, None}
        PROVE  [Promise!Next]_Promise!bridgeVars
    BY <1>2, DropStep, EnvAssumption DEF Carried
  <1>3. CASE Loop \/ PollFails \/ Signal \/ Restart
    <2>1. CASE PollEnvelope
      BY <1>2, <2>1 DEF PollEnvelope, PollSucceeded, TypeOK
    <2>2. CASE LoopTop \/ PollEmpty \/ PollCancelled \/ Wake \/ PollFails \/ Signal \/ Restart
      BY <1>2, <2>2
      DEF LoopTop, PollEmpty, PollSucceeded, PollCancelled, Wake, PollFails, Signal, Restart,
          cpVars, handVars, vaultVars, histVars
    <2>3. QED
      BY <1>3, <2>1, <2>2 DEF Loop
  <1>4. CASE MainExits \/ Crash
    BY <1>2, <1>4 DEF MainExits, Crash, ProcessEnds, Live, histVars
  <1>5. ASSUME NEW e \in Env, Handler(e) \/ HandlerFaults(e)
        PROVE  [Promise!Next]_Promise!bridgeVars
    <2>1. CASE Post(e)
      <3>1. /\ UNCHANGED <<queue, pushed, answers, effects, inbound>> /\ h[e] \in Live
            /\ postWire' = postWire \cup {e} /\ h' = [h EXCEPT ![e] = "posting"]
        BY <2>1 DEF Post, histVars, Live
      <3>2. QED
        BY <3>1, DropStep DEF Carried, TypeOK
    <2>2. CASE ~Post(e)
      <3>1. /\ UNCHANGED <<queue, pushed, answers, effects, inbound>>
            /\ postWire' \subseteq postWire
        BY <1>5, <2>2
        DEF Handler, HandlerFaults, HandleUnknown, HandleCancelled, HandleCall, CallReturns,
            PostRefused, PostEnds, CallFails, PostFails, Elapse, cpVars, histVars
      <3>2. h[e] \in Live /\ \E s \in HandlerState : h' = [h EXCEPT ![e] = s]
        BY <1>5, <2>2
        DEF Handler, HandlerFaults, HandleUnknown, HandleCancelled, HandleCall, CallReturns,
            PostRefused, PostEnds, CallFails, PostFails, Ends, Elapse, Dispatched, Live,
            HandlerState, TypeOK
      <3>3. QED
        BY <1>2, <3>1, <3>2 DEF TypeOK
    <2>3. QED
      BY <2>1, <2>2
  <1>6. QED
    BY <1>3, <1>4, <1>5 DEF Process

\* The steps of the two services: an envelope is accepted, taken, carried out, answered.
LEMMA ServiceStep ==
    ASSUME Core, AnswerInv, Core', AnswerInv', Services
    PROVE  [Promise!Next]_Promise!bridgeVars
  <1>1. \A e \in Env : Stage(e) /\ Stage(e)'
    BY StagesNow, StagesNext
  <1>2. TypeOK /\ TypeOK'
    BY DEF Core
  <1>3. ASSUME UNCHANGED effects PROVE EffectSet' = EffectSet
    BY <1>3 DEF EffectSet
  <1>4. ASSUME NEW e \in Env, NEW s, StageOf(e)' = s,
               \A f \in Env \ {e} : StageOf(f)' = StageOf(f)
        PROVE  [f \in Env |-> StageOf(f)]' = [[f \in Env |-> StageOf(f)] EXCEPT ![e] = s]
    BY <1>4
  <1>5. ASSUME NEW e \in Env, CpPush(e) PROVE Promise!Accept(e)
    <2>1. /\ e \notin pushed /\ pushed' = pushed \cup {e} /\ queue' = Append(queue, e)
          /\ UNCHANGED <<inbound, postWire, answers, h, effects>>
      BY <1>5 DEF CpPush, handVars
    <2>2. \A f \in Env : (\E i \in DOMAIN queue' : queue'[i] = f)
                              <=> f = e \/ \E i \in DOMAIN queue : queue[i] = f
      <3>1. queue \in Seq(Env)
        BY <1>2 DEF TypeOK
      <3>2. QED
        BY <2>1, <3>1, AppendElements
    <2>3. StageOf(e) = "idle" /\ StageOf(e)' = "queued"
      BY <1>1, <2>1, <2>2 DEF Stage
    <2>4. \A f \in Env \ {e} : StageOf(f)' = StageOf(f)
      BY <1>1, <2>1, <2>2 DEF Stage
    <2>5. QED
      BY <1>3, <1>4, <2>1, <2>3, <2>4 DEF Promise!Accept
  <1>6. ASSUME CpPop PROVE Promise!Take(Head(queue)) /\ Head(queue) \in Env
    <2>1. /\ queue # <<>> /\ queue \in Seq(Env) /\ inbound = None /\ inbound' = Head(queue)
          /\ queue' = Tail(queue) /\ UNCHANGED <<pushed, postWire, answers, h, effects>>
      BY <1>2, <1>6 DEF CpPop, handVars, histVars, TypeOK
    <2>2. PICK e \in Env : e = Head(queue) /\ \E i \in DOMAIN queue : queue[i] = e
      BY <2>1, TailElements
    <2>3. \A f \in Env : (\E i \in DOMAIN queue' : queue'[i] = f)
                              => \E i \in DOMAIN queue : queue[i] = f
      BY <2>1, TailElements
    <2>4. \A f \in Env \ {e} : (\E i \in DOMAIN queue : queue[i] = f)
                              => \E i \in DOMAIN queue' : queue'[i] = f
      <3>1. SUFFICES ASSUME NEW i \in DOMAIN queue, queue[i] # e
                     PROVE  i - 1 \in DOMAIN queue' /\ queue'[i - 1] = queue[i]
        OBVIOUS
      <3>2. i \in 1..Len(queue) /\ i # 1 /\ Len(queue') = Len(queue) - 1
        BY <2>1, <2>2, <3>1
      <3>3. \A j \in 1..Len(queue') : queue'[j] = queue[j + 1]
        BY <2>1
      <3>4. queue' \in Seq(Env) /\ Len(queue) \in Nat /\ DOMAIN queue' = 1..Len(queue')
        BY <1>2 DEF TypeOK
      <3>5. i - 1 \in 1..Len(queue') /\ i - 1 + 1 = i
        BY <3>2, <3>4
      <3>6. QED
        BY <3>3, <3>4, <3>5
    <2>5. StageOf(e) = "queued" /\ StageOf(e)' = "taken"
      BY <1>1, <2>1, <2>2 DEF Stage
    <2>6. \A f \in Env \ {e} : StageOf(f)' = StageOf(f)
      BY <1>1, <2>1, <2>3, <2>4, EnvAssumption DEF Stage
    <2>7. Promise!Take(e)
      BY <1>3, <1>4, <2>1, <2>5, <2>6 DEF Promise!Take
    <2>8. QED
      BY <2>2, <2>7
  <1>7. ASSUME NEW e \in Env, VaultApplies(e) PROVE Promise!Effect(e)
    <2>1. /\ e \in wire /\ effects' = Append(effects, e) /\ effects \in Seq(Env)
          /\ UNCHANGED <<queue, pushed, inbound, postWire, answers, h>>
      BY <1>2, <1>7 DEF VaultApplies, cpVars, handVars, TypeOK
    <2>2. EffectSet' = EffectSet \cup {e}
      BY <2>1, AppendElements DEF EffectSet
    <2>3. e \notin EffectSet /\ StageOf(e) \in {"taken", "answered", "lost"}
      BY <1>1, <2>1 DEF Core, CallInv, PlaceInv, Stage
    <2>4. [f \in Env |-> StageOf(f)]' = [f \in Env |-> StageOf(f)]
      BY <1>1, <2>1 DEF StageOf
    <2>5. QED
      BY <2>1, <2>2, <2>3, <2>4 DEF Promise!Effect
  <1>8. ASSUME NEW e \in Env, CpReceives(e)
        PROVE  Promise!Answer(e, result[e]) /\ result[e] \in Verdicts
    <2>1. /\ e \in postWire /\ postWire' = postWire \ {e} /\ answers[e] = NoResult
          /\ answers' = [answers EXCEPT ![e] = result[e]] /\ result[e] \in Verdicts
          /\ UNCHANGED <<queue, pushed, inbound, h, effects>>
      BY <1>8 DEF CpReceives, handVars, histVars, AnswerInv
    <2>2. StageOf(e) = "taken" /\ StageOf(e)' = "answered"
      BY <1>1, <1>2, <2>1, EnvAssumption DEF Stage, Verdicts, TypeOK
    <2>3. \A f \in Env \ {e} : StageOf(f)' = StageOf(f)
      <3>1. SUFFICES ASSUME NEW f \in Env \ {e} PROVE StageOf(f)' = StageOf(f)
        OBVIOUS
      <3>2. answers'[f] = answers[f] /\ (f \in postWire' <=> f \in postWire)
        BY <1>2, <2>1 DEF TypeOK
      <3>3. QED
        BY <2>1, <3>2 DEF StageOf
    <2>4. result[e] # "error" => e \in EffectSet
      BY <2>1 DEF Core, ResultInv, Verdicts
    <2>5. QED
      BY <1>3, <1>4, <2>1, <2>2, <2>3, <2>4 DEF Promise!Answer
  <1>9. QED
    BY <1>5, <1>6, <1>7, <1>8 DEF Services, Promise!Next, Verdicts, Promise!Verdicts

LEMMA BridgeStep ==
    ASSUME Core, AnswerInv, Core', AnswerInv', [Next]_vars
    PROVE  [Promise!Next]_Promise!bridgeVars
  <1>1. CASE Services
    BY <1>1, ServiceStep
  <1>2. CASE Loop \/ PollFails \/ Process \/ \E e \in Env : Handler(e) \/ HandlerFaults(e)
    BY <1>2, AgentStep
  <1>3. CASE UNCHANGED vars
    BY <1>3, DropStep DEF vars, cpVars, handVars, histVars, Carried
  <1>4. QED
    BY <1>1, <1>2, <1>3 DEF Next

\* The loop keeps the promise of Bridge, for any number of envelopes and restarts: an
\* envelope is taken once, carried out at most once, answered at most once and truly,
\* and one the agent has lost is never answered.
THEOREM LoopImplementsBridge == Spec => ImplementsBridge
  <1>1. Init => Promise!Init
    <2>1. ASSUME Init PROVE \A e \in Env : StageOf(e) = "idle"
      BY <2>1, InitCore, InitAnswerInv, StagesNow DEF Init, Stage
    <2>2. Init => EffectSet = {}
      BY DEF Init, EffectSet
    <2>3. QED
      BY <2>1, <2>2 DEF Init, Promise!Init
  <1>2. Core /\ AnswerInv /\ (Core /\ AnswerInv)' /\ [Next]_vars
            => [Promise!Next]_Promise!bridgeVars
    BY BridgeStep
  <1>3. QED
    BY <1>1, <1>2, AnswersHold, PTL DEF Spec, ImplementsBridge, Promise!Spec

(***************************************************************************)
(* Reads.                                                                  *)
(***************************************************************************)
\* A further call leaves the last change among the first n calls what it was; it is the
\* last change itself, or no change of the path.
LEMMA LastChangeKept ==
    ASSUME effects \in Seq(Env), NEW e \in Env, effects' = Append(effects, e),
           NEW p, NEW w, NEW n \in 0..Len(effects), LastChange(p, n, w)
    PROVE  /\ LastChange(p, n, w)'
           /\ ~(Op[e] \in {"write", "delete"} /\ PathOf[e] = p) /\ n = Len(effects)
                => LastChange(p, n + 1, w)'
  <1>1. /\ DOMAIN effects' = DOMAIN effects \cup {Len(effects) + 1}
        /\ \A i \in DOMAIN effects : i \in Nat /\ i <= Len(effects) /\ effects'[i] = effects[i]
        /\ effects'[Len(effects) + 1] = e
    BY AppendElements
  <1> DEFINE B == {i \in DOMAIN effects : i <= n /\ IsChange(i, p)}
             C == {i \in DOMAIN effects' : i <= n /\ IsChange(i, p)'}
             D == {i \in DOMAIN effects' : i <= n + 1 /\ IsChange(i, p)'}
  <1>2. C = B /\ \A i \in B : effects'[i] = effects[i]
    BY <1>1 DEF IsChange
  <1>3. ~(Op[e] \in {"write", "delete"} /\ PathOf[e] = p) /\ n = Len(effects) => D = B
    BY <1>1 DEF IsChange
  <1>4. IF w = None THEN B = {} ELSE \E j \in B : effects[j] = w /\ \A i \in B : i <= j
    BY DEF LastChange
  <1> HIDE DEF B
  <1>5. QED
    BY <1>2, <1>3, <1>4 DEF LastChange

LEMMA LastChangeMade ==
    ASSUME effects \in Seq(Env), NEW e \in Env, effects' = Append(effects, e),
           Op[e] \in {"write", "delete"}
    PROVE  LastChange(PathOf[e], Len(effects), e)'
  <1>1. PICK n \in Nat : n = Len(effects')
    BY AppendElements
  <1>2. /\ \A i \in DOMAIN effects' : i \in Nat /\ i <= n
        /\ n \in DOMAIN effects' /\ effects'[n] = e
    BY <1>1, AppendElements
  <1>3. IsChange(n, PathOf[e])'
    BY <1>2 DEF IsChange
  <1>4. QED
    BY <1>1, <1>2, <1>3, EnvAssumption DEF LastChange

LEMMA InitSeenInv == Init => SeenInv
  BY EnvAssumption DEF Init, SeenInv, LastChange

\* A step the vault has no part in leaves what it holds and has shown; what it changes is
\* one result, or one answer to the result it is told.
LEMMA SeenUnchanged ==
    ASSUME SeenInv, UNCHANGED <<effects, vault, seen>>,
           \A r \in Env : Op[r] = "read" =>
              \A v \in {result'[r], answers'[r]} \cap {"ok", "not_found"} :
                 \/ v \in {result[r], answers[r]}
                 \/ v = "ok" <=> seen[r] # None /\ Op[seen[r]] = "write"
    PROVE  SeenInv'
  <1>1. \A p \in Path : LastChange(p, Len(effects), vault[p])'
    BY DEF SeenInv, LastChange, IsChange
  <1>2. \A k \in DOMAIN effects : Op[effects[k]] = "read" =>
            LastChange(PathOf[effects[k]], k, seen[effects[k]])'
    BY DEF SeenInv, LastChange, IsChange
  <1>3. \A r \in Env : Op[r] = "read" =>
            \A v \in {result'[r], answers'[r]} \cap {"ok", "not_found"} :
                v = "ok" <=> seen[r] # None /\ Op[seen[r]] = "write"
    BY DEF SeenInv
  <1>4. QED
    BY <1>1, <1>2, <1>3 DEF SeenInv

\* The driver of a read answers what the vault showed it.
LEMMA ReturnsSeen ==
    ASSUME Core, SeenInv, NEW e \in Env, CallReturns(e)
    PROVE  SeenInv'
  <1>1. e \in EffectSet /\ TypeOK
    BY DEF CallReturns, Core, CallInv
  <1>2. Op[e] = "read" => seen[e] = None \/ Op[seen[e]] \in {"write", "delete"}
    <2>1. PICK k \in DOMAIN effects : effects[k] = e
      BY <1>1 DEF EffectSet
    <2>2. QED
      BY <2>1 DEF SeenInv, LastChange, IsChange
  <1>3. PICK v \in {"ok", "not_found"} :
            /\ result' = [result EXCEPT ![e] = v]
            /\ Op[e] = "read" => (v = "ok" <=> seen[e] # None /\ Op[seen[e]] = "write")
    BY <1>2 DEF CallReturns, Dispatched
  <1>4. UNCHANGED <<effects, vault, seen, answers>>
    BY DEF CallReturns, cpVars, histVars
  <1>5. QED
    BY <1>1, <1>3, <1>4, SeenUnchanged DEF TypeOK

LEMMA AppliesSeen ==
    ASSUME Core, SeenInv, NEW e \in Env, VaultApplies(e)
    PROVE  SeenInv'
  <1>1. TypeOK
    BY DEF Core
  <1>2. /\ e \in wire /\ effects' = Append(effects, e) /\ effects \in Seq(Env)
        /\ seen'  = [seen EXCEPT ![e] = IF Op[e] = "read" THEN vault[PathOf[e]] ELSE @]
        /\ vault' = [vault EXCEPT ![PathOf[e]] =
                        IF Op[e] \in {"write", "delete"} THEN e ELSE @]
        /\ UNCHANGED <<result, answers>>
    BY <1>1 DEF VaultApplies, cpVars, handVars, TypeOK
  <1>3. e \notin EffectSet /\ result[e] \notin {"ok", "not_found"}
                           /\ answers[e] \notin {"ok", "not_found"}
    BY <1>2 DEF Core, CallInv, ResultInv
  <1>4. PICK n \in Nat : n = Len(effects)
    BY <1>2
  <1>5. PathOf[e] \in Path
    BY EnvAssumption
  <1>6. ASSUME NEW p \in Path PROVE LastChange(p, Len(effects), vault[p])'
    <2>1. CASE Op[e] \in {"write", "delete"} /\ PathOf[e] = p
      <3>1. vault'[p] = e
        BY <1>1, <1>2, <1>5, <2>1 DEF TypeOK
      <3>2. QED
        BY <1>2, <2>1, <3>1, LastChangeMade DEF LastChange
    <2>2. CASE ~(Op[e] \in {"write", "delete"} /\ PathOf[e] = p)
      <3>1. PICK w \in Env \cup {None} : w = vault[p]
        BY <1>1 DEF TypeOK
      <3>2. vault'[p] = w /\ Len(effects') = n + 1
        BY <1>1, <1>2, <1>4, <2>2, <3>1 DEF TypeOK
      <3>3. LastChange(p, n, w)
        BY <1>4, <3>1 DEF SeenInv
      <3>4. LastChange(p, n + 1, w)'
        BY <1>2, <1>4, <2>2, <3>3, LastChangeKept
      <3>5. QED
        BY <3>2, <3>4 DEF LastChange
    <2>3. QED
      BY <2>1, <2>2
  <1>7. ASSUME NEW k \in DOMAIN effects', NEW r \in Env, effects'[k] = r, Op[r] = "read"
        PROVE  LastChange(PathOf[r], k, seen[r])'
    <2>1. CASE k \in DOMAIN effects
      <3>1. PICK w \in Env \cup {None} : w = seen[r]
        BY <1>1 DEF TypeOK
      <3>2. effects[k] = r /\ k \in 0..Len(effects) /\ r # e
        BY <1>2, <1>3, <1>7, <2>1, AppendElements DEF EffectSet
      <3>3. LastChange(PathOf[r], k, w) /\ seen'[r] = w
        BY <1>1, <1>2, <1>7, <2>1, <3>1, <3>2 DEF SeenInv, TypeOK
      <3>4. LastChange(PathOf[r], k, w)'
        BY <1>2, <3>2, <3>3, LastChangeKept
      <3>5. QED
        BY <3>3, <3>4 DEF LastChange
    <2>2. CASE k \notin DOMAIN effects
      <3>1. k = n + 1 /\ r = e
        BY <1>2, <1>4, <1>7, <2>2, AppendElements
      <3>2. PICK w \in Env \cup {None} : w = vault[PathOf[e]]
        BY <1>1, <1>5 DEF TypeOK
      <3>3. LastChange(PathOf[e], n, w) /\ seen'[e] = w
        BY <1>1, <1>2, <1>4, <1>5, <1>7, <3>1, <3>2 DEF SeenInv, TypeOK
      <3>4. LastChange(PathOf[e], n + 1, w)'
        BY <1>2, <1>4, <1>7, <3>1, <3>3, LastChangeKept
      <3>5. QED
        BY <3>1, <3>3, <3>4 DEF LastChange
    <2>3. QED
      BY <2>1, <2>2
  <1>8. \A k \in DOMAIN effects' : Op[effects'[k]] = "read" =>
            LastChange(PathOf[effects[k]], k, seen[effects[k]])'
    <2>1. SUFFICES ASSUME NEW k \in DOMAIN effects', Op[effects'[k]] = "read"
                   PROVE  LastChange(PathOf[effects[k]], k, seen[effects[k]])'
      OBVIOUS
    <2>2. PICK r \in Env : effects'[k] = r
      BY <1>2, AppendElements
    <2>3. QED
      BY <1>7, <2>1, <2>2 DEF LastChange
  <1>9. \A r \in Env : Op[r] = "read" =>
            \A v \in {result'[r], answers'[r]} \cap {"ok", "not_found"} :
                v = "ok" <=> seen'[r] # None /\ Op[seen'[r]] = "write"
    BY <1>1, <1>2, <1>3 DEF SeenInv, TypeOK
  <1>10. QED
    BY <1>6, <1>8, <1>9 DEF SeenInv

LEMMA NextSeenInv == Core /\ SeenInv /\ [Next]_vars => SeenInv'
  <1> SUFFICES ASSUME Core, SeenInv, [Next]_vars PROVE SeenInv'
    OBVIOUS
  <1>1. TypeOK
    BY DEF Core
  <1>2. CASE UNCHANGED <<effects, vault, seen, result, answers>>
    BY <1>2, SeenUnchanged
  <1>3. CASE Loop \/ PollFails \/ Process \/ UNCHANGED vars \/ CpPop
    BY <1>2, <1>3
    DEF Loop, LoopTop, PollEmpty, PollEnvelope, PollSucceeded, PollFails, PollCancelled, Wake,
        Process, Signal, MainExits, Crash, ProcessEnds, Restart, CpPop, vars, cpVars,
        handVars, vaultVars, histVars
  <1>4. ASSUME NEW e \in Env, CpPush(e) PROVE SeenInv'
    BY <1>2, <1>4 DEF CpPush, handVars, vaultVars
  <1>5. ASSUME NEW e \in Env, CpReceives(e) PROVE SeenInv'
    BY <1>1, <1>5, SeenUnchanged DEF CpReceives, handVars, vaultVars, histVars, TypeOK
  <1>6. ASSUME NEW e \in Env, Handler(e) \/ HandlerFaults(e) PROVE SeenInv'
    <2>1. CASE HandleUnknown(e) \/ HandleCancelled(e) \/ CallFails(e)
      <3>1. /\ result' = [result EXCEPT ![e] = "error"]
            /\ UNCHANGED <<effects, vault, seen, answers>>
        BY <2>1 DEF HandleUnknown, HandleCancelled, CallFails, Dispatched, cpVars, vaultVars,
                    histVars
      <3>2. QED
        BY <1>1, <3>1, SeenUnchanged DEF TypeOK
    <2>2. CASE CallReturns(e)
      BY <2>2, ReturnsSeen
    <2>3. CASE HandleCall(e) \/ Post(e) \/ PostRefused(e) \/ PostEnds(e) \/ PostFails(e)
                 \/ Elapse(e)
      BY <1>2, <2>3 DEF HandleCall, Post, PostRefused, PostEnds, PostFails, Ends, Elapse,
                        cpVars, vaultVars, histVars
    <2>4. QED
      BY <1>6, <2>1, <2>2, <2>3 DEF Handler, HandlerFaults
  <1>7. QED
    BY <1>3, <1>4, <1>5, <1>6, AppliesSeen DEF Next, Services

(***************************************************************************)
(* How long the loop sleeps.                                               *)
(***************************************************************************)
LEMMA CountApart ==
    ASSUME NEW A, NEW B, IsFiniteSet(A), IsFiniteSet(B), A \cap B = {}
    PROVE  Cardinality(A \cup B) = Cardinality(A) + Cardinality(B)
  <1>1. Cardinality(A \cap B) = 0
    BY FS_EmptySet
  <1>2. Cardinality(A) \in Nat /\ Cardinality(B) \in Nat
    BY FS_CardinalityType
  <1>3. Cardinality(A \cup B) = Cardinality(A) + Cardinality(B) - Cardinality(A \cap B)
    BY FS_Union
  <1>4. QED
    BY <1>1, <1>2, <1>3

\* One element more doubles the number of subsets, and so the power of two.
LEMMA PowerDoubles ==
    ASSUME NEW n \in Nat
    PROVE  2 ^ n \in Nat /\ 2 ^ (n + 1) = 2 * 2 ^ n
  <1> DEFINE T == 1..n
             Old == SUBSET T
             New == {U \cup {n + 1} : U \in Old}
  <1>1. /\ IsFiniteSet(T) /\ Cardinality(T) = n
        /\ IsFiniteSet(1..(n + 1)) /\ Cardinality(1..(n + 1)) = n + 1
    BY FS_Interval
  <1>2. /\ IsFiniteSet(Old) /\ Cardinality(Old) = 2 ^ n
        /\ Cardinality(SUBSET (1..(n + 1))) = 2 ^ (n + 1)
    BY <1>1, FS_SUBSET
  <1>3. IsFiniteSet(New) /\ Cardinality(New) = Cardinality(Old)
    <2>1. n + 1 \notin T
      OBVIOUS
    <2>2. DEFINE f == [U \in Old |-> U \cup {n + 1}]
    <2>3. f \in [Old -> New]
      OBVIOUS
    <2>4. \A U, V \in Old : f[U] = f[V] => U = V
      BY <2>1
    <2>5. \A V \in New : \E U \in Old : f[U] = V
      OBVIOUS
    <2>6. ExistsBijection(Old, New)
      <3>1. DOMAIN f = Old
        OBVIOUS
      <3> HIDE DEF f, Old, New
      <3>2. f \in Injection(Old, New)
        BY <2>3, <2>4, <3>1 DEF Injection, IsInjective
      <3>3. f \in Surjection(Old, New)
        BY <2>3, <2>5 DEF Surjection
      <3>4. QED
        BY <3>2, <3>3 DEF ExistsBijection, Bijection
    <2>7. QED
      BY <1>2, <2>6, FS_Bijection
  <1>4. SUBSET (1..(n + 1)) = Old \cup New
    <2>1. 1..(n + 1) = T \cup {n + 1}
      OBVIOUS
    <2>2. ASSUME NEW U \in SUBSET (T \cup {n + 1}) PROVE U \in Old \cup New
      <3>1. CASE n + 1 \in U
        <4>1. U \ {n + 1} \in Old /\ U = (U \ {n + 1}) \cup {n + 1}
          BY <3>1
        <4>2. QED
          BY <4>1
      <3>2. CASE n + 1 \notin U
        BY <3>2
      <3>3. QED
        BY <3>1, <3>2
    <2>3. Old \cup New \subseteq SUBSET (T \cup {n + 1})
      OBVIOUS
    <2>4. QED
      BY <2>1, <2>2, <2>3
  <1>5. Old \cap New = {}
    BY n + 1 \notin T
  <1>6. Cardinality(Old \cup New) = Cardinality(Old) + Cardinality(New)
    BY <1>2, <1>3, <1>5, CountApart
  <1>7. Cardinality(Old) \in Nat
    BY <1>2, FS_CardinalityType
  <1>8. 2 ^ n \in Nat
    BY <1>2, <1>7
  <1>9. 2 ^ (n + 1) = 2 ^ n + 2 ^ n
    BY <1>2, <1>3, <1>4, <1>6
  <1>10. QED
    BY <1>8, <1>9

LEMMA PowerOfZero == 2 ^ 0 = 1
  <1>1. IsFiniteSet({}) /\ Cardinality({}) = 0
    BY FS_EmptySet
  <1>2. SUBSET {} = {{}}
    OBVIOUS
  <1>3. Cardinality({{}}) = 1
    BY FS_Singleton
  <1>4. Cardinality(SUBSET {}) = 2 ^ Cardinality({})
    BY <1>1, FS_SUBSET
  <1>5. QED
    BY <1>1, <1>2, <1>3, <1>4

\* A loop that has not failed sleeps MinBackoff, and each failure is one step further.
LEMMA BackoffSteps ==
    /\ BackoffAfter(0) = MinBackoff
    /\ \A n \in Nat : NextBackoff(BackoffAfter(n)) = BackoffAfter(n + 1)
  <1>1. BackoffAfter(0) = MinBackoff
    BY PowerOfZero, BackoffAssumption DEF BackoffAfter
  <1>2. ASSUME NEW n \in Nat PROVE NextBackoff(BackoffAfter(n)) = BackoffAfter(n + 1)
    <2>1. 2 ^ n \in Nat /\ 2 ^ (n + 1) = 2 * 2 ^ n
      BY PowerDoubles
    <2>2. PICK u \in Nat : u = MinBackoff * 2 ^ n
      BY <2>1, BackoffAssumption
    <2>3. MinBackoff * 2 ^ (n + 1) = 2 * u
      BY <2>1, <2>2, BackoffAssumption
    <2>4. QED
      BY <2>2, <2>3, BackoffAssumption DEF BackoffAfter, NextBackoff
  <1>3. QED
    BY <1>1, <1>2

\* Beyond the failures that are told apart the sleep is MaxBackoff.
LEMMA BackoffStays ==
    ASSUME FailsTellAll
    PROVE  BackoffAfter(MaxFails - 1) = MaxBackoff /\ BackoffAfter(MaxFails) = MaxBackoff
  <1>1. MaxFails \in Nat /\ MaxFails - 1 \in Nat /\ MaxFails = (MaxFails - 1) + 1
    BY BackoffAssumption DEF FailsTellAll
  <1>2. 2 ^ (MaxFails - 1) \in Nat
    BY <1>1, PowerDoubles
  <1>3. BackoffAfter(MaxFails - 1) = MaxBackoff
    BY <1>2, BackoffAssumption DEF FailsTellAll, BackoffAfter
  <1>4. NextBackoff(MaxBackoff) = BackoffAfter(MaxFails)
    BY <1>1, <1>3, BackoffSteps
  <1>5. QED
    BY <1>3, <1>4, BackoffAssumption DEF NextBackoff

LEMMA InitBackoffInv == Init => BackoffInv
  BY BackoffSteps DEF Init, BackoffInv

LEMMA NextBackoffInv == TypeOK /\ BackoffInv /\ [Next]_vars => BackoffInv'
  <1> SUFFICES ASSUME TypeOK, BackoffInv, [Next]_vars, FailsTellAll
               PROVE  /\ loop' \in {"top", "polling"} => backoff' = BackoffAfter(fails')
                      /\ loop' = "sleeping" => /\ fails' > 0
                                              /\ backoff' = BackoffAfter(fails' - 1)
                                              /\ pause' \in Jitter(backoff')
    BY DEF BackoffInv, FailsTellAll
  <1>1. /\ loop \in {"top", "polling"} => backoff = BackoffAfter(fails)
        /\ loop = "sleeping" =>
              fails > 0 /\ backoff = BackoffAfter(fails - 1) /\ pause \in Jitter(backoff)
    BY DEF BackoffInv
  <1>2. fails \in 0..MaxFails /\ MaxFails \in Nat /\ MaxFails > 0
    BY BackoffAssumption DEF TypeOK, FailsTellAll
  <1>3. CASE UNCHANGED <<loop, backoff, pause, fails>>
    BY <1>1, <1>3
  <1>4. CASE LoopTop
    BY <1>1, <1>4 DEF LoopTop, histVars
  <1>5. CASE PollEmpty \/ PollEnvelope
    BY <1>5, BackoffSteps DEF PollEmpty, PollEnvelope, PollSucceeded
  <1>6. CASE PollFails
    <2>1. /\ loop' = "sleeping" /\ backoff' = backoff /\ pause' \in Jitter(backoff)
          /\ backoff = BackoffAfter(fails)
      BY <1>1, <1>6 DEF PollFails
    <2>2. CASE fails < MaxFails
      <3>1. fails' > 0 /\ fails' - 1 = fails
        BY <1>2, <1>6, <2>2 DEF PollFails
      <3>2. QED
        BY <2>1, <3>1
    <2>3. CASE fails = MaxFails
      <3>1. fails' = MaxFails
        BY <1>2, <1>6, <2>3 DEF PollFails
      <3>2. QED
        BY <1>2, <2>1, <2>3, <3>1, BackoffStays
    <2>4. QED
      BY <1>2, <2>2, <2>3
  <1>7. CASE Wake
    <2>1. /\ loop' = "top" /\ backoff' = NextBackoff(BackoffAfter(fails - 1))
          /\ fails' = fails /\ fails > 0
      BY <1>1, <1>7 DEF Wake, histVars
    <2>2. fails - 1 \in Nat /\ (fails - 1) + 1 = fails
      BY <1>2, <2>1
    <2>3. QED
      BY <2>1, <2>2, BackoffSteps
  <1>8. CASE PollCancelled \/ MainExits \/ Crash
    BY <1>8 DEF PollCancelled, MainExits, Crash, ProcessEnds
  <1>9. CASE Restart
    BY <1>9, BackoffSteps DEF Restart
  <1>10. CASE Services \/ Signal \/ UNCHANGED vars
    BY <1>3, <1>10 DEF Services, CpPop, CpPush, VaultApplies, CpReceives, Signal, loopVars,
                       histVars, vars
  <1>11. ASSUME NEW e \in Env, Handler(e) \/ HandlerFaults(e)
         PROVE  UNCHANGED <<loop, backoff, pause, fails>>
    BY <1>11 DEF Handler, HandlerFaults, HandleUnknown, HandleCancelled, HandleCall,
                 CallReturns, Post, PostRefused, PostEnds, CallFails, PostFails, Elapse,
                 loopVars, histVars
  <1>12. QED
    BY <1>3, <1>4, <1>5, <1>6, <1>7, <1>8, <1>9, <1>10, <1>11 DEF Next, Loop, Process

\* Where each envelope is, what is known of its call, what the vault holds and what a
\* read has seen, in every reachable state.
THEOREM InductiveHolds == Spec => []Inductive
  <1>1. Init => Inductive
    BY InitCore, InitAnswerInv, InitSeenInv, InitBackoffInv DEF Inductive
  <1>2. Inductive /\ [Next]_vars => Inductive'
    BY NextCore, NextAnswerInv, NextSeenInv, NextBackoffInv DEF Inductive, Core
  <1>3. QED
    BY <1>1, <1>2, PTL DEF Spec

\* As long as the model tells apart every failure that still changes the backoff, the
\* sleep after the n-th failure in a row is within 25% of MinBackoff * 2^(n-1), cut at
\* MaxBackoff (poll.go:99-110, 220-236).
THEOREM PausesMatchFailures == FailsTellAll => (Spec => []PauseMatchesFailures)
  <1>1. FailsTellAll /\ Inductive => PauseMatchesFailures
    BY DEF Inductive, BackoffInv, PauseMatchesFailures
  <1>2. SUFFICES ASSUME FailsTellAll PROVE Spec => []PauseMatchesFailures
    OBVIOUS
  <1>3. Inductive => PauseMatchesFailures
    BY <1>1, <1>2
  <1>4. QED
    BY <1>3, InductiveHolds, PTL

\* A read that was queued after a change of its path was answered sees that change or a
\* later one, and is answered by what it saw (vault.go:57-110, poll.go:158-177).
THEOREM ReadsSeeAnsweredWrites == Spec => []ReadSeesAnsweredWrites
  <1>1. Inductive => ReadSeesAnsweredWrites
    <2> SUFFICES ASSUME Inductive, NEW r \in Env, Op[r] = "read",
                        answers[r] \in {"ok", "not_found"}
                 PROVE  /\ answers[r] = "ok" <=> seen[r] # None /\ Op[seen[r]] = "write"
                        /\ \A w \in known[r] :
                              Op[w] \in {"write", "delete"} /\ PathOf[w] = PathOf[r] =>
                                \E i, j \in DOMAIN effects :
                                    i <= j /\ effects[i] = w /\ effects[j] = seen[r]
      BY DEF ReadSeesAnsweredWrites
    <2>1. answers[r] = "ok" <=> seen[r] # None /\ Op[seen[r]] = "write"
      BY DEF Inductive, SeenInv
    <2>2. PICK k \in DOMAIN effects : effects[k] = r
      BY DEF Inductive, Core, ResultInv, EffectSet
    <2>3. LastChange(PathOf[r], k, seen[r])
      BY <2>2 DEF Inductive, SeenInv
    <2>4. ASSUME NEW w \in known[r], Op[w] \in {"write", "delete"}, PathOf[w] = PathOf[r]
          PROVE  \E i, j \in DOMAIN effects :
                    i <= j /\ effects[i] = w /\ effects[j] = seen[r]
      <3>1. PICK i \in DOMAIN effects : i < k /\ effects[i] = w
        BY <2>2 DEF Inductive, Core, AnswerOrdersCalls
      <3>2. i <= k
        BY <2>2, <3>1 DEF Inductive, Core, TypeOK
      <3>3. QED
        BY <2>3, <2>4, <3>1, <3>2 DEF LastChange, IsChange
    <2>5. QED
      BY <2>1, <2>4
  <1>2. QED
    BY <1>1, InductiveHolds, PTL
=============================================================================
