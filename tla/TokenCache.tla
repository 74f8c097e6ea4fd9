----------------------------- MODULE TokenCache -----------------------------
(***************************************************************************)
(* The token cache of five drivers (token in gcp.go, azure.go, akeyless.go *)
(* and conjur.go, bearer in bitwarden_sm.go).  Handlers share a mutex, a   *)
(* token and the time until which it is used; whoever finds no usable      *)
(* token asks for one with the mutex in hand.                              *)
(*                                                                         *)
(*   told    the service says how long the token lives; it is used until   *)
(*           a Margin before that     gcp.go, azure.go, bitwarden_sm.go    *)
(*   fixed   it is used for a time written in the code      akeyless.go    *)
(*   raw     the same, and the body is the token, whole or not  conjur.go  *)
(*                                                                         *)
(* A token is the time it has left at the service, which starts when the   *)
(* service makes it, or Bad if the service refuses it for another reason.  *)
(* Time passes in steps as long as ClientTimeout or shorter; everything    *)
(* but HTTP takes no time.                                                 *)
(***************************************************************************)
EXTENDS Integers, Sequences, FiniteSets

CONSTANTS Call,          \* handler goroutines, each one handler after another
          Kinds,         \* the drivers looked at
          Lives,         \* lifetimes of the tokens a service makes
          Margin,        \* ExpiresIn-60
          Keep,          \* 50 minutes of akeyless.go, 6 of conjur.go
          FixedLife,     \* how long the tokens of those two live
          ClientTimeout, \* http.Client.Timeout, 15 s
          HandleLimit,   \* the deadline of handle's context, 30 s
          None, Bad

ASSUME CacheAssumption ==
    /\ IsFiniteSet(Call) /\ Kinds \subseteq {"told", "fixed", "raw"}
    /\ ClientTimeout \in Nat \ {0} /\ HandleLimit \in Nat \ {0}
    /\ Margin \in Nat /\ Margin >= ClientTimeout + HandleLimit
    /\ Keep \in Nat /\ FixedLife \in Nat /\ FixedLife >= Keep + Margin
    /\ FixedLife \in Lives /\ IsFiniteSet(Lives)
    /\ \A l \in Lives : l \in Nat /\ l > HandleLimit
    /\ None # Bad /\ {None, Bad} \cap (Nat \cup Call) = {}

VARIABLES
    kind,     \* the driver
    \* ---- the cache ----
    cached,   \* cachedToken
    keepFor,  \* time until expiresAt
    \* ---- its mutex ----
    holder,   \* who has it
    line,     \* who waits in Lock, in the order of the mutex
    starving, \* is it in starvation mode?
    \* ---- the handlers ----
    at,       \* where each is: before its call, in Lock, in token(), at its requests
    age,      \* time since its context was made
    tok,      \* the token it was given
    \* ---- the token request ----
    spent,    \* time it has taken
    grant     \* the token the service made for it, and the life it told

lockVars  == <<holder, line, starving>>
cacheVars == <<cached, keepFor>>
callVars  == <<at, age, tok>>
askVars   == <<spent, grant>>
vars      == <<kind, cacheVars, lockVars, callVars, askVars>>

Late     == HandleLimit + ClientTimeout + 1 \* ages from here on are not told apart
Usable   == cached # None /\ keepFor > 0
CtxDead(c) == age[c] >= HandleLimit

Init ==
    /\ kind \in Kinds
    /\ cached = None /\ keepFor = 0
    /\ holder = None /\ line = <<>> /\ starving = FALSE
    /\ at = [c \in Call |-> "idle"] /\ age = [c \in Call |-> 0]
    /\ tok = [c \in Call |-> None]
    /\ spent = 0 /\ grant = None

(***************************************************************************)
(* sync.Mutex.  A waiter that is woken competes with newcomers; one that   *)
(* has waited (for 1 ms) and loses puts the mutex into starvation mode, in *)
(* which newcomers queue up, until the last waiter has had its turn.       *)
(***************************************************************************)
\* A waiter that has been there for less than a unit of time may or may not be that old.
Waited(c) == IF age[c] = 0 THEN BOOLEAN ELSE {TRUE}

Arrives(c, to) == at[c] = "idle" /\ at' = [at EXCEPT ![c] = to] /\ UNCHANGED <<age, tok>>

LockFree(c) ==
    /\ holder = None /\ line = <<>>
    /\ Arrives(c, "locked") /\ holder' = c
    /\ UNCHANGED <<kind, cacheVars, line, starving, askVars>>

LockAhead(c) ==
    /\ holder = None /\ line # <<>> /\ ~starving
    /\ Arrives(c, "locked") /\ holder' = c
    /\ starving' \in Waited(Head(line))
    /\ UNCHANGED <<kind, cacheVars, line, askVars>>

LockWaits(c) ==
    /\ holder # None \/ starving
    /\ Arrives(c, "wait") /\ line' = Append(line, c)
    /\ UNCHANGED <<kind, cacheVars, holder, starving, askVars>>

\* The first in line gets the mutex, whatever has become of its context.
LockTurn(c) ==
    /\ holder = None /\ line # <<>> /\ c = Head(line)
    /\ holder' = c /\ line' = Tail(line)
    /\ starving' \in IF Len(line) = 1 THEN {FALSE} ELSE {starving /\ w : w \in Waited(c)}
    /\ at' = [at EXCEPT ![c] = "locked"]
    /\ UNCHANGED <<kind, cacheVars, age, tok, askVars>>

\* token returns, and the deferred Unlock runs.
Unlocks == holder' = None /\ spent' = 0 /\ grant' = None /\ UNCHANGED <<line, starving>>

(***************************************************************************)
(* token() under the mutex.                                                *)
(***************************************************************************)
\* token returns: the handler goes on with what it was given.
Given(c, t) ==
    /\ at' = [at EXCEPT ![c] = "use"] /\ tok' = [tok EXCEPT ![c] = t]
    /\ UNCHANGED <<kind, age>>

\* The handler is over, and its goroutine with it.
Leaves(c) ==
    /\ at' = [at EXCEPT ![c] = "over"] /\ age' = [age EXCEPT ![c] = 0]
    /\ tok' = [tok EXCEPT ![c] = None]
    /\ UNCHANGED kind

\* Mutant: each use makes the token young again.
HitRenewed(c) ==
    /\ at[c] = "locked" /\ Usable
    /\ Given(c, cached) /\ Unlocks
    /\ keepFor' = Keep
    /\ UNCHANGED cached

Hit(c) ==
    /\ at[c] = "locked" /\ Usable
    /\ Given(c, cached) /\ Unlocks
    /\ UNCHANGED cacheVars

\* Mutant: the mutex is not held across the request.
AskUnlocked(c) ==
    /\ at[c] = "locked" /\ ~Usable /\ ~CtxDead(c)
    /\ at' = [at EXCEPT ![c] = "asking"]
    /\ Unlocks
    /\ UNCHANGED <<kind, cacheVars, age, tok>>

Ask(c) ==
    /\ at[c] = "locked" /\ ~Usable /\ ~CtxDead(c)
    /\ at' = [at EXCEPT ![c] = "asking"]
    /\ UNCHANGED <<kind, cacheVars, lockVars, age, tok, askVars>>

\* The context is looked at by nobody before the request.
AskCancelled(c) ==
    /\ at[c] = "locked" /\ ~Usable /\ CtxDead(c)
    /\ Leaves(c) /\ Unlocks
    /\ UNCHANGED cacheVars

\* Mutant: the whole life, without the margin.
KeepTimeWhole(told) == IF kind = "told" THEN told ELSE Keep

\* A life shorter than the margin, or none told, gives a token that is used once.
KeepTime(told) ==
    IF kind # "told" THEN Keep ELSE IF told > Margin THEN told - Margin ELSE 0

\* The answer is there, with a token, and decodes.
AskReturns(c) ==
    /\ at[c] = "asking" /\ grant # None
    /\ cached' = grant.left /\ keepFor' = KeepTime(grant.told)
    /\ Given(c, grant.left) /\ Unlocks

\* An answer without the token; the empty token is sent, and counts as none.
AskEmpty(c) ==
    /\ at[c] = "asking"
    /\ cached' = None /\ keepFor' = Keep
    /\ Given(c, Bad) /\ Unlocks

\* Conjur: the error of reading the body is ignored, and what came of it is cached.
AskTorn(c) ==
    /\ kind = "raw" /\ at[c] = "asking" /\ grant # None
    /\ cached' = Bad /\ keepFor' = Keep
    /\ Given(c, Bad) /\ Unlocks

\* Mutant: an error return leaves the mutex locked.
AskFailsLocked(c) ==
    /\ at[c] = "asking"
    /\ Leaves(c)
    /\ UNCHANGED <<cacheVars, lockVars, askVars>>

\* A transport error, a status, a body that does not decode, a time-out.  What was
\* cached stays.
AskFails(c) ==
    /\ at[c] = "asking"
    /\ Leaves(c) /\ Unlocks
    /\ UNCHANGED cacheVars

\* The requests of Read, Write or Delete, all with the token they began with; a Ping
\* may have none.  Refused or not, the cache does not hear of it.
Uses(c) ==
    /\ at[c] = "use"
    /\ Leaves(c)
    /\ UNCHANGED <<cacheVars, lockVars, askVars>>

(***************************************************************************)
(* The service, and time.                                                  *)
(***************************************************************************)
\* The life that is told may be missing.
ServiceMints(c) ==
    /\ at[c] = "asking" /\ grant = None
    /\ \E l \in IF kind = "told" THEN Lives ELSE {FixedLife} : \E told \in {0, l} :
           grant' = [left |-> l, told |-> told]
    /\ UNCHANGED <<kind, cacheVars, lockVars, callVars, spent>>

\* The service refuses from now on what it has given out.
ServiceRevokes ==
    /\ cached \notin {None, Bad}
    /\ cached' = Bad
    /\ tok' = [c \in Call |-> IF tok[c] = None THEN None ELSE Bad]
    /\ UNCHANGED <<kind, keepFor, lockVars, at, age, askVars>>

\* Mutant: an http.Client without a timeout.
AskOverNoTimeout(c) == CtxDead(c)

\* The client's timeout and the context both end a token request.
AskOver(c) == spent = ClientTimeout \/ CtxDead(c)

Older(t) == IF t \in {None, Bad, 0} THEN t ELSE t - 1

\* A new handler comes where one is over: as many in a unit of time as there are goroutines.
Tick ==
    /\ holder = None => line = <<>>
    /\ \A c \in Call : /\ at[c] # "locked"
                       /\ at[c] = "asking" => ~AskOver(c)
                       /\ at[c] = "use" => ~CtxDead(c)
    /\ cached' = Older(cached)
    /\ keepFor' = IF keepFor > 0 THEN keepFor - 1 ELSE 0
    /\ age' = [c \in Call |-> IF at[c] \in {"idle", "over"} \/ age[c] = Late THEN age[c] ELSE age[c] + 1]
    /\ at' = [c \in Call |-> IF at[c] = "over" THEN "idle" ELSE at[c]]
    /\ tok' = [c \in Call |-> Older(tok[c])]
    /\ spent' = IF \E c \in Call : at[c] = "asking" THEN spent + 1 ELSE 0
    /\ grant' = IF grant = None THEN None ELSE [grant EXCEPT !.left = Older(@)]
    /\ UNCHANGED <<kind, lockVars>>

Token(c) ==
    Hit(c) \/ Ask(c) \/ AskCancelled(c) \/ AskReturns(c) \/ AskEmpty(c) \/ AskTorn(c)
    \/ AskFails(c)

Handler(c) ==
    LockFree(c) \/ LockAhead(c) \/ LockWaits(c) \/ LockTurn(c) \/ Token(c) \/ Uses(c)

Next == ServiceRevokes \/ Tick \/ \E c \in Call : Handler(c) \/ ServiceMints(c)

Spec == Init /\ [][Next]_vars

\* Goroutines run, every request ends, and time passes.  Nothing is assumed of the
\* service.
FairSpec ==
    /\ Spec /\ WF_vars(Tick)
    /\ \A c \in Call : WF_vars(LockTurn(c)) /\ WF_vars(Token(c)) /\ WF_vars(Uses(c))

-----------------------------------------------------------------------------
\* No request leaves with a token whose life is over, though the life began before the
\* answer came, the token waited in the cache, and the handler uses it for the whole
\* of its deadline: the 60 s cover the 15 and the 30 (gcp.go:250, azure.go:177).
SentTokenLives == \A c \in Call : at[c] = "use" => tok[c] # 0

\* However many handlers miss at once, none fetches a token beside one that can be
\* used: the cache is looked at again behind the mutex (gcp.go:175-179).
FetchesWhenNeeded ==
    [][\A c \in Call : at[c] = "asking" /\ at'[c] # "asking" => ~Usable]_vars

\* Behind the mutex a handler outlives its deadline by one token request at most, the
\* one of a newcomer that overtook it, although Lock does not look at the context
\* (azure.go:147).
HeldUpAtMost == \A c \in Call : at[c] = "wait" => age[c] <= HandleLimit + ClientTimeout

\* Every handler gets out of Lock and ends, whatever becomes of the token requests of
\* the others.
CallsEnd == \A c \in Call : at[c] = "wait" ~> at[c] = "over"

\* A token the service refuses, revoked or cut short, is given up some day, although
\* no refusal reaches the cache and handlers keep asking for it (conjur.go:111, 127).
RefusedTokenLeaves == Usable /\ cached = Bad ~> ~(Usable /\ cached = Bad)

(***************************************************************************)
(* The inductive invariant of the proofs.  One handler asks at a time, and *)
(* only for want of a usable token; what it is granted, what is cached and *)
(* what is in use all live as long as they may still be needed.            *)
(***************************************************************************)
LockType == holder \in Call \cup {None} /\ line \in Seq(Call) /\ starving \in BOOLEAN

CacheType ==
    /\ kind \in Kinds /\ cached \in Nat \cup {None, Bad} /\ keepFor \in Nat
    /\ at \in [Call -> {"idle", "wait", "locked", "asking", "use", "over"}]
    /\ age \in [Call -> Nat] /\ tok \in [Call -> Nat \cup {None, Bad}]
    /\ spent \in 0..ClientTimeout
    /\ grant \in [left : Nat, told : Nat] \cup {None}

TypeOK == LockType /\ CacheType

LockInv == \A c \in Call : at[c] \in {"locked", "asking"} => holder = c

AskInv == \A c \in Call : at[c] = "asking" => ~Usable /\ age[c] <= HandleLimit

\* The life that keepFor will be derived from.
Told == IF kind = "told" THEN grant.told ELSE FixedLife

GrantInv ==
    grant # None =>
        /\ \E c \in Call : at[c] = "asking"
        /\ \A c \in Call : at[c] = "asking" => grant.left + age[c] > HandleLimit
        /\ grant.left >= Told - spent

KeepInv == Usable /\ cached # Bad => cached >= keepFor + Margin - ClientTimeout

UseInv ==
    \A c \in Call : at[c] = "use" =>
        tok[c] = Bad \/ (tok[c] \in Nat \ {0} /\ tok[c] + age[c] > HandleLimit)

TokensLast == TypeOK /\ LockInv /\ AskInv /\ GrantInv /\ KeepInv /\ UseInv

Waiting(c) == at[c] = "wait"

\* Who waits is in line once, behind whoever came before; who holds the mutex is in token().
LineInv ==
    /\ \A i \in DOMAIN line : Waiting(line[i])
    /\ \A i, j \in DOMAIN line : i # j => line[i] # line[j]
    /\ \A c \in Call : Waiting(c) => \E i \in DOMAIN line : line[i] = c
    /\ \A i, j \in DOMAIN line : i <= j => age[line[i]] >= age[line[j]]
    /\ \A c \in Call : at[c] \in {"idle", "over"} => age[c] = 0
    /\ holder # None => at[holder] \in {"locked", "asking"}

AllWithin(limit) == \A d \in Call : Waiting(d) => age[d] <= limit
Eldest(c)        == AllWithin(age[c])

\* A handler in token() is older than all that wait, or overtook them and put the mutex
\* into starvation mode, in which none overtakes them again.
WaitInv ==
    /\ AllWithin(IF starving THEN HandleLimit + ClientTimeout ELSE HandleLimit)
    /\ \A c \in Call :
        /\ at[c] = "locked" => Eldest(c) \/ (starving /\ AllWithin(HandleLimit))
        /\ at[c] = "asking" => Eldest(c) \/ (starving /\ AllWithin(HandleLimit + spent))

\* Tokens last, and so does no wait for the mutex.
Inductive == TokensLast /\ LineInv /\ WaitInv
=============================================================================
