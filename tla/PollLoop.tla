------------------------------ MODULE PollLoop ------------------------------
(***************************************************************************)
(* The poll-and-dispatch loop of the agent (internal/poll) with the        *)
(* dispatcher and one single-request driver (internal/upstream), between   *)
(* the control plane's queue and the upstream vault.                       *)
(*                                                                         *)
(* One goroutine polls; every envelope it receives is handled by a         *)
(* goroutine of its own, which calls the vault and posts the result under  *)
(* one context: dead once the process is told to stop or 30 s have passed. *)
(* A request that has left the agent may still arrive after the agent gave *)
(* up on it, so a vault call and a posted result each have a moment of     *)
(* arrival of their own.  Nothing is kept on disk, nothing is repeated.    *)
(***************************************************************************)
EXTENDS Integers, Sequences, FiniteSets

CONSTANTS Env,        \* identities of the envelopes the control plane may queue
          Path,       \* secret paths
          Op,         \* the operation each envelope asks for
          PathOf,     \* the path each envelope names
          MinBackoff, \* Config.MinBackoff
          MaxBackoff, \* Config.MaxBackoff
          CallLimit,  \* the longest a driver call can last, cut by nothing but its client
          HandleLimit, \* the deadline of handle's context (30 s), in the same unit
          MaxStarts,  \* bound: how many times the process is started
          MaxFails,   \* bound: failures in a row that are told apart
          None,       \* no envelope
          NoResult    \* not answered

Ops == {"ping", "read", "write", "delete"}

ASSUME EnvAssumption ==
    /\ IsFiniteSet(Env)
    /\ None \notin Env
    /\ Op \in [Env -> Ops \cup {"unknown"}]
    /\ PathOf \in [Env -> Path]
    /\ NoResult \notin {"ok", "not_found", "error"}

ASSUME BackoffAssumption ==
    /\ MinBackoff \in Nat \ {0}
    /\ MaxBackoff \in Nat
    /\ MinBackoff <= MaxBackoff
    /\ MaxFails \in Nat
    /\ MaxStarts \in Nat \ {0}
    /\ CallLimit \in Nat /\ HandleLimit \in Nat

VARIABLES
    \* ---- the control plane ----
    queue,     \* envelopes waiting to be polled
    pushed,    \* envelopes ever queued
    inbound,   \* the envelope travelling in the poll response
    postWire,  \* posted results travelling to the control plane
    answers,   \* what the control plane was told about each envelope
    \* ---- the polling goroutine ----
    loop,      \* where poll.Run is
    cancelled, \* is the root context done?
    backoff,   \* the variable of that name
    pause,     \* the jittered sleep it is in
    starts,    \* times the process was started
    \* ---- the handler goroutines ----
    h,         \* where each envelope's goroutine is
    lasted,    \* how long the context of a handler has been running
    result,    \* what Dispatcher.Handle returned
    \* ---- the vault ----
    wire,      \* driver requests travelling to the vault
    replies,   \* replies travelling back
    vault,     \* the last write or delete that took effect on each path
    seen,      \* what a read found there
    \* ---- history ----
    effects,   \* calls the vault carried out, in order
    known,     \* for each envelope, those answered without error when it was queued
    fails      \* poll failures in a row

cpVars    == <<queue, pushed, inbound, postWire, answers>>
loopVars  == <<loop, cancelled, backoff, pause, starts>>
handVars  == <<h, lasted, result>>
vaultVars == <<wire, replies, vault, seen>>
histVars  == <<effects, known, fails>>
vars      == <<cpVars, loopVars, handVars, vaultVars, histVars>>

Verdicts     == {"ok", "not_found", "error"}
LoopStates   == {"top", "polling", "sleeping", "returned", "down"}
Live         == {"start", "calling", "respond", "posting"}
HandlerState == {"none"} \cup Live \cup {"done", "killed"}

EffectSet == {effects[i] : i \in DOMAIN effects}
InFlight  == {e \in Env : h[e] \in Live}
Running   == loop \notin {"returned", "down"}

\* The context of a handler: the root context, cut after 30 s.
CtxDead(e) == cancelled \/ lasted[e] >= HandleLimit

(***************************************************************************)
(* Backoff arithmetic, in units of time.                                   *)
(***************************************************************************)
NextBackoff(d) == IF 2 * d > MaxBackoff THEN MaxBackoff ELSE 2 * d

\* d + (rand*2-1) * d/4 with rand in [0,1): at least 3d/4, below 5d/4.
Jitter(d) == {t \in 0..(2 * d) : 4 * t >= 3 * d /\ 4 * t < 5 * d}

Init ==
    /\ queue = <<>> /\ pushed = {} /\ inbound = None /\ postWire = {}
    /\ answers = [e \in Env |-> NoResult]
    /\ loop = "top" /\ cancelled = FALSE /\ backoff = MinBackoff
    /\ pause = 0 /\ starts = 1
    /\ h = [e \in Env |-> "none"] /\ lasted = [e \in Env |-> 0]
    /\ result = [e \in Env |-> NoResult]
    /\ wire = {} /\ replies = {} /\ vault = [p \in Path |-> None]
    /\ seen = [e \in Env |-> None]
    /\ effects = <<>> /\ known = [e \in Env |-> {}] /\ fails = 0

(***************************************************************************)
(* The control plane's queue.  It hands an envelope to one poll and        *)
(* forgets it; what is in the response when the poll breaks is gone.       *)
(***************************************************************************)
CpPush(e) ==
    /\ e \notin pushed
    /\ pushed' = pushed \cup {e}
    /\ queue' = Append(queue, e)
    /\ known' = [known EXCEPT ![e] = {d \in Env : answers[d] \in {"ok", "not_found"}}]
    /\ UNCHANGED <<inbound, postWire, answers, loopVars, handVars, vaultVars,
                   effects, fails>>

CpPop ==
    /\ loop = "polling" /\ inbound = None /\ queue # <<>>
    /\ inbound' = Head(queue)
    /\ queue' = Tail(queue)
    /\ UNCHANGED <<pushed, postWire, answers, loopVars, handVars, vaultVars, histVars>>

(***************************************************************************)
(* Run and pollOnce.                                                       *)
(***************************************************************************)
\* Mutant: the context is not looked at before a poll.
LoopTopUnchecked ==
    /\ loop = "top"
    /\ loop' = "polling"
    /\ UNCHANGED <<cpVars, cancelled, backoff, pause, starts, handVars,
                   vaultVars, histVars>>

LoopTop ==
    /\ loop = "top"
    /\ loop' = IF cancelled THEN "returned" ELSE "polling"
    /\ UNCHANGED <<cpVars, cancelled, backoff, pause, starts, handVars,
                   vaultVars, histVars>>

\* Mutant: a successful poll leaves the backoff where it was.
PollSucceededNoReset ==
    /\ loop' = "top"
    /\ fails' = 0
    /\ UNCHANGED <<backoff, cancelled, pause, starts, effects, known>>

PollSucceeded ==
    /\ loop' = "top"
    /\ backoff' = MinBackoff
    /\ fails' = 0
    /\ UNCHANGED <<cancelled, pause, starts, effects, known>>

\* 204, or a body without an id: poll again.
PollEmpty ==
    /\ loop = "polling" /\ inbound = None
    /\ PollSucceeded
    /\ UNCHANGED <<cpVars, handVars, vaultVars>>

\* Mutant: the envelope of the last poll is not cleared.
PollEnvelopeKept ==
    /\ loop = "polling" /\ inbound # None
    /\ PollSucceeded
    /\ h' = [h EXCEPT ![inbound] = "start"]
    /\ UNCHANGED <<cpVars, lasted, result, vaultVars>>

\* Mutant: an envelope that finds another one in flight is dropped.
PollEnvelopeBusy ==
    /\ loop = "polling" /\ inbound # None
    /\ PollSucceeded
    /\ h' = [h EXCEPT ![inbound] = IF InFlight = {} THEN "start" ELSE "done"]
    /\ inbound' = None
    /\ UNCHANGED <<queue, pushed, postWire, answers, lasted, result, vaultVars>>

PollEnvelope ==
    /\ loop = "polling" /\ inbound # None
    /\ PollSucceeded
    /\ h' = [h EXCEPT ![inbound] = "start"]
    /\ inbound' = None
    /\ UNCHANGED <<queue, pushed, postWire, answers, lasted, result, vaultVars>>

\* Transport error, HTTP >= 400 or an undecodable body.
PollFails ==
    /\ loop = "polling"
    /\ loop' = "sleeping"
    /\ pause' \in Jitter(backoff)
    /\ fails' = IF fails < MaxFails THEN fails + 1 ELSE fails
    /\ inbound' = None
    /\ UNCHANGED <<queue, pushed, postWire, answers, cancelled, backoff, starts,
                   handVars, vaultVars, effects, known>>

PollCancelled ==
    /\ loop = "polling" /\ cancelled
    /\ loop' = "returned"
    /\ inbound' = None
    /\ UNCHANGED <<queue, pushed, postWire, answers, cancelled, backoff, pause,
                   starts, handVars, vaultVars, histVars>>

\* The timer fires or the context is done; either way the backoff grows.
\* Mutant: the sleep waits for the context alone.
WakeOnCancel ==
    /\ loop = "sleeping" /\ cancelled
    /\ loop' = "top"
    /\ pause' = 0
    /\ backoff' = NextBackoff(backoff)
    /\ UNCHANGED <<cpVars, cancelled, starts, handVars, vaultVars, histVars>>

Wake ==
    /\ loop = "sleeping"
    /\ loop' = "top"
    /\ pause' = 0
    /\ backoff' = NextBackoff(backoff)
    /\ UNCHANGED <<cpVars, cancelled, starts, handVars, vaultVars, histVars>>

(***************************************************************************)
(* handle: dispatch to the driver, then post the result.                   *)
(***************************************************************************)
Dispatched(e, verdict) ==
    /\ result' = [result EXCEPT ![e] = verdict]
    /\ h' = [h EXCEPT ![e] = "respond"]
    /\ lasted' = lasted

\* The dispatcher's default case.
HandleUnknown(e) ==
    /\ h[e] = "start" /\ Op[e] \notin Ops
    /\ Dispatched(e, "error")
    /\ UNCHANGED <<cpVars, loopVars, vaultVars, histVars>>

\* With a dead context the driver's request fails before it is sent.
HandleCancelled(e) ==
    /\ h[e] = "start" /\ Op[e] \in Ops /\ CtxDead(e)
    /\ Dispatched(e, "error")
    /\ UNCHANGED <<cpVars, loopVars, vaultVars, histVars>>

\* Mutant: the result is reported without waiting for the driver.
HandleCallAsync(e) ==
    /\ h[e] = "start" /\ Op[e] \in Ops /\ ~CtxDead(e)
    /\ wire' = wire \cup {e}
    /\ Dispatched(e, "ok")
    /\ UNCHANGED <<cpVars, loopVars, replies, vault, seen, histVars>>

HandleCall(e) ==
    /\ h[e] = "start" /\ Op[e] \in Ops /\ ~CtxDead(e)
    /\ wire' = wire \cup {e}
    /\ h' = [h EXCEPT ![e] = "calling"]
    /\ UNCHANGED <<cpVars, loopVars, lasted, result, replies, vault, seen, histVars>>

\* Mutant: a key that was deleted counts as found.
CallReturnsFound(e) ==
    /\ h[e] = "calling" /\ e \in replies
    /\ Dispatched(e, IF Op[e] = "read" /\ seen[e] = None THEN "not_found" ELSE "ok")
    /\ replies' = replies \ {e}
    /\ UNCHANGED <<cpVars, loopVars, wire, vault, seen, histVars>>

\* The driver returns (data, found, nil): a missing key is a normal outcome.
CallReturns(e) ==
    /\ h[e] = "calling" /\ e \in replies
    /\ Dispatched(e, IF Op[e] = "read" /\ (seen[e] = None \/ Op[seen[e]] = "delete")
                     THEN "not_found" ELSE "ok")
    /\ replies' = replies \ {e}
    /\ UNCHANGED <<cpVars, loopVars, wire, vault, seen, histVars>>

\* Mutant: a failed call is sent once more.
CallFailsRetried(e) ==
    /\ h[e] = "calling"
    /\ wire' = wire \cup {e}
    /\ replies' = replies \ {e}
    /\ UNCHANGED <<cpVars, loopVars, handVars, vault, seen, histVars>>

\* Mutant: any failed call is taken for a missing key.
CallFailsAsMissing(e) ==
    /\ h[e] = "calling"
    /\ Dispatched(e, "not_found")
    /\ wire' \in {wire, wire \ {e}}
    /\ replies' = replies \ {e}
    /\ UNCHANGED <<cpVars, loopVars, vault, seen, histVars>>

\* Mutant: a driver without a timeout waits for the vault.
CallFailsNoTimeout(e) ==
    /\ h[e] = "calling" /\ e \notin wire
    /\ Dispatched(e, "error")
    /\ replies' = replies \ {e}
    /\ UNCHANGED <<cpVars, loopVars, wire, vault, seen, histVars>>

\* The driver returns an error: the vault refused, the connection broke, the
\* driver's own timeout or the context cut the call.  The request may be gone or
\* still on its way.
CallFails(e) ==
    /\ h[e] = "calling"
    /\ Dispatched(e, "error")
    /\ wire' \in {wire, wire \ {e}}
    /\ replies' = replies \ {e}
    /\ UNCHANGED <<cpVars, loopVars, vault, seen, histVars>>

\* The goroutine ends, and with it its context.
Ends(e) ==
    /\ h' = [h EXCEPT ![e] = "done"]
    /\ lasted' = [lasted EXCEPT ![e] = 0]
    /\ UNCHANGED result

\* The result is posted under the context the call was made with.
Post(e) ==
    /\ h[e] = "respond" /\ ~CtxDead(e)
    /\ postWire' = postWire \cup {e}
    /\ h' = [h EXCEPT ![e] = "posting"]
    /\ UNCHANGED <<queue, pushed, inbound, answers, loopVars, lasted, result,
                   vaultVars, histVars>>

PostRefused(e) ==
    /\ h[e] = "respond" /\ CtxDead(e)
    /\ Ends(e)
    /\ UNCHANGED <<cpVars, loopVars, vaultVars, histVars>>

\* The control plane's reply arrived; an HTTP error is logged and ignored.
PostEnds(e) ==
    /\ h[e] = "posting" /\ e \notin postWire
    /\ Ends(e)
    /\ UNCHANGED <<cpVars, loopVars, vaultVars, histVars>>

\* Mutant: a failed POST hands the envelope back to the queue.
PostFailsRequeued(e) ==
    /\ h[e] = "posting" /\ e \in postWire
    /\ Ends(e)
    /\ postWire' = postWire \ {e}
    /\ queue' = Append(queue, e)
    /\ UNCHANGED <<pushed, inbound, answers, loopVars, vaultVars, histVars>>

\* The POST ends with an error: logged, never tried again.
PostFails(e) ==
    /\ h[e] = "posting" /\ e \in postWire
    /\ Ends(e)
    /\ postWire' \in {postWire, postWire \ {e}}
    /\ UNCHANGED <<queue, pushed, inbound, answers, loopVars, vaultVars, histVars>>

\* Mutant: the driver's client has no timeout of its own.
ElapseUncut(e) ==
    /\ h[e] \in {"calling", "posting"} /\ lasted[e] < HandleLimit
    /\ lasted' = [lasted EXCEPT ![e] = @ + 1]
    /\ UNCHANGED <<cpVars, loopVars, h, result, vaultVars, histVars>>

\* Time passes in the call, until the driver's client cuts it, and in the POST, until
\* the context does: that is one more way for it to fail.  A driver that makes one
\* request is cut after 15 s; one that makes several, or has no timeout of its own, is
\* still calling when the 30 s are over.
Elapse(e) ==
    /\ (h[e] = "calling" /\ lasted[e] < CallLimit) \/ h[e] = "posting"
    /\ lasted[e] < HandleLimit
    /\ lasted' = [lasted EXCEPT ![e] = @ + 1]
    /\ UNCHANGED <<cpVars, loopVars, h, result, vaultVars, histVars>>

(***************************************************************************)
(* The two services at the far end of a connection.                        *)
(***************************************************************************)
VaultApplies(e) ==
    /\ e \in wire
    /\ wire' = wire \ {e}
    /\ effects' = Append(effects, e)
    /\ seen'  = [seen EXCEPT ![e] = IF Op[e] = "read" THEN vault[PathOf[e]] ELSE @]
    /\ vault' = [vault EXCEPT ![PathOf[e]] = IF Op[e] \in {"write", "delete"} THEN e ELSE @]
    /\ replies' = IF h[e] = "calling" THEN replies \cup {e} ELSE replies
    /\ UNCHANGED <<cpVars, loopVars, handVars, known, fails>>

CpReceives(e) ==
    /\ e \in postWire
    /\ postWire' = postWire \ {e}
    /\ answers' = [answers EXCEPT ![e] = result[e]]
    /\ UNCHANGED <<queue, pushed, inbound, loopVars, handVars, vaultVars, histVars>>

(***************************************************************************)
(* The process: SIGTERM, the return of main, a crash, the next start.      *)
(***************************************************************************)
Signal ==
    /\ Running /\ ~cancelled
    /\ cancelled' = TRUE
    /\ UNCHANGED <<cpVars, loop, backoff, pause, starts, handVars, vaultVars, histVars>>

\* Every goroutine ends with the process; what it sent is on its way.
ProcessEnds ==
    /\ loop' = "down"
    /\ h' = [e \in Env |-> IF h[e] \in Live THEN "killed" ELSE h[e]]
    /\ lasted' = [e \in Env |-> 0]
    /\ replies' = {}
    /\ inbound' = None
    /\ UNCHANGED <<queue, pushed, postWire, answers, cancelled, backoff, pause,
                   starts, result, wire, vault, seen, histVars>>

MainExits == loop = "returned" /\ ProcessEnds

Crash == Running /\ ProcessEnds

Restart ==
    /\ loop = "down" /\ starts < MaxStarts
    /\ loop' = "top" /\ cancelled' = FALSE /\ backoff' = MinBackoff
    /\ pause' = 0 /\ starts' = starts + 1 /\ fails' = 0
    /\ UNCHANGED <<cpVars, handVars, vaultVars, effects, known>>

Handler(e) ==
    \/ HandleUnknown(e) \/ HandleCancelled(e) \/ HandleCall(e) \/ CallReturns(e)
    \/ Post(e) \/ PostRefused(e) \/ PostEnds(e)

HandlerFaults(e) == CallFails(e) \/ PostFails(e) \/ Elapse(e)

Loop == LoopTop \/ PollEmpty \/ PollEnvelope \/ PollCancelled \/ Wake

Services == CpPop \/ \E e \in Env : CpPush(e) \/ VaultApplies(e) \/ CpReceives(e)

Process == Signal \/ MainExits \/ Crash \/ Restart

Next ==
    \/ Loop \/ PollFails \/ Services \/ Process
    \/ \E e \in Env : Handler(e) \/ HandlerFaults(e)

Spec == Init /\ [][Next]_vars

(***************************************************************************)
(* Fairness.  Goroutines are scheduled and timers fire; a poll, a driver   *)
(* call and a POST each end, one way or another, because the HTTP client   *)
(* and the context carry deadlines.  Nothing is assumed of the services.   *)
(***************************************************************************)
AgentFairness ==
    /\ WF_vars(LoopTop) /\ WF_vars(Wake) /\ WF_vars(MainExits)
    /\ WF_vars(PollEmpty \/ PollEnvelope \/ PollFails \/ PollCancelled)
    /\ \A e \in Env :
        /\ WF_vars(HandleUnknown(e) \/ HandleCancelled(e) \/ HandleCall(e))
        /\ WF_vars(CallReturns(e) \/ CallFails(e))
        /\ WF_vars(Post(e) \/ PostRefused(e))
        /\ WF_vars(PostEnds(e) \/ PostFails(e))

\* No fault, no shutdown, and services that serve.  The control plane hands out
\* an envelope it holds before it lets a poll time out.
HealthyNext ==
    \/ LoopTop \/ PollEnvelope
    \/ (PollEmpty /\ queue = <<>>)
    \/ Services
    \/ \E e \in Env : Handler(e)

-----------------------------------------------------------------------------
TypeOK ==
    /\ queue \in Seq(Env) /\ pushed \subseteq Env /\ inbound \in Env \cup {None}
    /\ postWire \subseteq Env /\ answers \in [Env -> Verdicts \cup {NoResult}]
    /\ loop \in LoopStates /\ cancelled \in BOOLEAN
    /\ backoff \in MinBackoff..MaxBackoff /\ pause \in Nat /\ starts \in 1..MaxStarts
    /\ h \in [Env -> HandlerState] /\ lasted \in [Env -> 0..HandleLimit]
    /\ result \in [Env -> Verdicts \cup {NoResult}]
    /\ wire \subseteq Env /\ replies \subseteq Env
    /\ vault \in [Path -> Env \cup {None}] /\ seen \in [Env -> Env \cup {None}]
    /\ effects \in Seq(Env) /\ known \in [Env -> SUBSET Env] /\ fails \in 0..MaxFails

\* No call is carried out twice by the vault, whatever is lost, cut short or
\* restarted: no path of poll.go, upstream.go or vault.go repeats a request.
AtMostOnce ==
    \A i, j \in DOMAIN effects : effects[i] = effects[j] => i = j

\* An envelope answered "ok" or "not_found" was carried out by the vault first
\* (handle derives the outcome from the driver's result, poll.go:158-177).
AnsweredMeansApplied ==
    \A e \in Env : answers[e] \in {"ok", "not_found"} => e \in EffectSet

\* The calls of d and e reached the vault in the order of the answer to d and the
\* arrival of e in the queue: a caller that waits for an answer before it sends the
\* next request sees them carried out in order, although every handler runs in a
\* goroutine of its own (poll.go:117-121).
AnswerOrdersCalls ==
    \A e \in Env : \A d \in known[e] :
        \A j \in DOMAIN effects : effects[j] = e =>
            \E i \in DOMAIN effects : i < j /\ effects[i] = d

\* A read that was queued after a write (or delete) of its path was answered sees
\* that change or a later one, and is answered "ok" only for a value that was
\* written, "not_found" only for an absent one.
ReadSeesAnsweredWrites ==
    \A r \in Env : Op[r] = "read" /\ answers[r] \in {"ok", "not_found"} =>
        /\ answers[r] = "ok" <=> seen[r] # None /\ Op[seen[r]] = "write"
        /\ \A w \in known[r] : Op[w] \in {"write", "delete"} /\ PathOf[w] = PathOf[r] =>
              \E i, j \in DOMAIN effects : i <= j /\ effects[i] = w /\ effects[j] = seen[r]

\* The backoff n failures in a row make of MinBackoff.
BackoffAfter(n) ==
    LET uncut == MinBackoff * 2 ^ n IN IF uncut > MaxBackoff THEN MaxBackoff ELSE uncut

\* The sleep after the n-th failure in a row is within 25% of MinBackoff * 2^(n-1),
\* cut at MaxBackoff; a successful poll in between starts over (poll.go:99-110).
PauseMatchesFailures == loop = "sleeping" => pause \in Jitter(BackoffAfter(fails - 1))

\* The call and the POST share one deadline.  With a driver whose calls its client cuts
\* before it, only the shutdown of the process keeps a handler from sending its result:
\* whatever the call did, some of the 30 s is left for the POST (poll.go:153, vault.go:34).
OnlyShutdownSilencesHandler ==
    [][\A e \in Env : h[e] = "respond" /\ h'[e] = "done" => cancelled]_vars

\* Every goroutine started for an envelope ends (with its process if need be).
HandlerEnds == \A e \in Env : h[e] = "start" ~> h[e] \in {"done", "killed"}

\* A loop that is not stopped polls again and again, whatever fails.
KeepsPolling == []<>(loop = "polling") \/ <>(cancelled \/ loop = "down")

(***************************************************************************)
(* The inductive invariant the proofs rest on.  An envelope moves one way: *)
(* out of the queue into one poll response, from there to one goroutine,   *)
(* which sends at most one request to the vault.                           *)
(***************************************************************************)
PlaceInv ==
    /\ \A i, j \in DOMAIN queue : queue[i] = queue[j] => i = j
    /\ \A i \in DOMAIN queue :
        queue[i] \in pushed /\ h[queue[i]] = "none" /\ queue[i] # inbound
    /\ inbound # None => inbound \in pushed /\ h[inbound] = "none" /\ loop = "polling"
    /\ \A e \in Env : h[e] # "none" => e \in pushed

LifeInv == loop = "down" => \A e \in Env : h[e] \notin Live

CallInv ==
    /\ \A e \in Env : e \in wire \/ e \in EffectSet => h[e] \notin {"none", "start"}
    /\ \A e \in wire : e \notin EffectSet
    /\ replies \subseteq EffectSet

ResultInv ==
    \A e \in Env : result[e] \in {"ok", "not_found"} \/ answers[e] \in {"ok", "not_found"}
                       => e \in EffectSet

KnownInv == \A e \in Env : known[e] \subseteq EffectSet

\* A call counts from the start of its context, and no longer than its client lets it.
DeadlineInv ==
    /\ \A e \in Env : h[e] \in {"none", "start"} => lasted[e] = 0
    /\ \A e \in Env : h[e] \in {"calling", "respond"} => lasted[e] <= CallLimit

Core ==
    /\ TypeOK /\ PlaceInv /\ LifeInv /\ CallInv /\ ResultInv /\ KnownInv /\ DeadlineInv
    /\ AtMostOnce /\ AnswerOrdersCalls

\* A result travels at most once: it is not on its way before it is known, and no longer
\* when it has arrived.
AnswerInv ==
    /\ \A e \in Env : h[e] \in {"none", "start", "calling", "respond"} =>
            answers[e] = NoResult /\ e \notin postWire
    /\ \A e \in Env : h[e] = "respond" => result[e] \in Verdicts
    /\ \A e \in postWire : answers[e] = NoResult /\ result[e] \in Verdicts

\* The last write or delete of a path among the first n calls.
IsChange(i, p) == Op[effects[i]] \in {"write", "delete"} /\ PathOf[effects[i]] = p

LastChange(p, n, w) ==
    LET before == {i \in DOMAIN effects : i <= n /\ IsChange(i, p)}
    IN  IF w = None THEN before = {}
        ELSE \E j \in before : effects[j] = w /\ \A i \in before : i <= j

\* The vault holds the last change of each path, a read the last before it, and what
\* is answered to a read says which of the two that was.
SeenInv ==
    /\ \A p \in Path : LastChange(p, Len(effects), vault[p])
    /\ \A k \in DOMAIN effects : Op[effects[k]] = "read" =>
            LastChange(PathOf[effects[k]], k, seen[effects[k]])
    /\ \A r \in Env : Op[r] = "read" =>
            \A v \in {result[r], answers[r]} \cap {"ok", "not_found"} :
                v = "ok" <=> seen[r] # None /\ Op[seen[r]] = "write"

\* The failures that are told apart are those that still change the backoff.
FailsTellAll == MaxFails > 0 /\ MinBackoff * 2 ^ (MaxFails - 1) >= MaxBackoff

BackoffInv ==
    FailsTellAll =>
        /\ loop \in {"top", "polling"} => backoff = BackoffAfter(fails)
        /\ loop = "sleeping" =>
              fails > 0 /\ backoff = BackoffAfter(fails - 1) /\ pause \in Jitter(backoff)

Inductive == Core /\ AnswerInv /\ SeenInv /\ BackoffInv

(***************************************************************************)
(* The loop implements Bridge, its promise to the control plane.           *)
(***************************************************************************)
StageOf(e) ==
    CASE answers[e] # NoResult -> "answered"
      [] answers[e] = NoResult /\ e \notin pushed -> "idle"
      [] answers[e] = NoResult /\ \E i \in DOMAIN queue : queue[i] = e -> "queued"
      [] answers[e] = NoResult /\ (e = inbound \/ h[e] \in Live \/ e \in postWire) -> "taken"
      [] OTHER -> "lost"

Promise == INSTANCE Bridge WITH
    stage   <- [e \in Env |-> StageOf(e)],
    effect  <- EffectSet,
    verdict <- answers

ImplementsBridge == Promise!Spec
=============================================================================
