--------------------------- MODULE TokenCacheProofs ---------------------------
(***************************************************************************)
(* What TokenCache guarantees for any number of handlers, any lifetimes    *)
(* longer than a handler's deadline, and any margin no shorter than a      *)
(* client's timeout and that deadline together.                            *)
(***************************************************************************)
EXTENDS TokenCache, TLAPS

\* The names of the absent and the refused token are no times, and no handlers.
LEMMA NamesApart ==
    /\ None # Bad /\ None \notin Nat /\ Bad \notin Nat
    /\ \A c \in Call : c # None
  BY CacheAssumption

\* The times of the code, as far as the proofs use them.
LEMMA Times ==
    /\ ClientTimeout \in Nat /\ ClientTimeout > 0 /\ HandleLimit \in Nat /\ HandleLimit > 0
    /\ Margin \in Nat /\ Margin >= ClientTimeout + HandleLimit
    /\ Keep \in Nat /\ FixedLife \in Nat /\ FixedLife >= Keep + Margin
    /\ FixedLife > HandleLimit
    /\ Late = HandleLimit + ClientTimeout + 1
    /\ \A l \in Lives : l \in Nat /\ l > HandleLimit
  BY CacheAssumption DEF Late

\* A unit of time takes a unit of life, or none from a token that has none.
LEMMA OlderByOne ==
    ASSUME NEW t \in Nat \cup {None, Bad}
    PROVE  /\ Older(t) \in Nat \cup {None, Bad}
           /\ t \in {None, Bad} => Older(t) = t
           /\ t \in Nat /\ t > 0 => Older(t) = t - 1
           /\ t \in Nat => Older(t) \in Nat
           /\ Older(t) = None => t = None
           /\ Older(t) = Bad => t = Bad
  BY NamesApart DEF Older

\* The invariant without the types of the mutex, on which nothing else depends.
TokensHold == CacheType /\ LockInv /\ AskInv /\ GrantInv /\ KeepInv /\ UseInv

\* Whoever is in token() has the mutex, and is there alone.
LEMMA OneInside ==
    ASSUME LockInv, NEW c \in Call, NEW d \in Call,
           at[c] \in {"locked", "asking"}, at[d] \in {"locked", "asking"}
    PROVE  c = d /\ holder = c
  BY DEF LockInv

LEMMA InitTokensHold == Init => TokensHold
  <1> SUFFICES ASSUME Init PROVE TokensHold
    OBVIOUS
  <1>1. CacheType
    BY Times DEF Init, CacheType
  <1>2. LockInv /\ AskInv /\ UseInv
    BY DEF Init, LockInv, AskInv, UseInv
  <1>3. GrantInv /\ KeepInv
    BY DEF Init, GrantInv, KeepInv, Usable
  <1> QED
    BY <1>1, <1>2, <1>3 DEF TokensHold

(***************************************************************************)
(* The mutex: nothing but who has it and who is in line changes.           *)
(***************************************************************************)
\* Taking the free mutex, or a place in line, brings nobody beside the holder.
LEMMA LockKeeps ==
    ASSUME TokensHold, NEW c \in Call,
           LockFree(c) \/ LockAhead(c) \/ LockWaits(c) \/ LockTurn(c)
    PROVE  TokensHold'
  <1> USE DEF TokensHold, cacheVars, askVars, lockVars
  <1>1. /\ UNCHANGED <<kind, cached, keepFor, age, tok, spent, grant>>
        /\ \/ at' = [at EXCEPT ![c] = "locked"] /\ holder = None /\ holder' = c
           \/ at' = [at EXCEPT ![c] = "wait"] /\ at[c] = "idle" /\ UNCHANGED holder
    BY DEF LockFree, LockAhead, LockWaits, LockTurn, Arrives
  <1>2. CacheType'
    BY <1>1 DEF CacheType
  <1>3. \A d \in Call : d # c => at'[d] = at[d]
    BY <1>1 DEF CacheType
  <1>4. at'[c] \in {"locked", "wait"}
    BY <1>1 DEF CacheType
  <1>5. LockInv'
    BY <1>1, <1>3, <1>4, NamesApart DEF LockInv, CacheType
  <1>6. at[c] # "asking"
    BY <1>1, NamesApart DEF LockInv, CacheType
  <1>7. \A d \in Call : /\ at'[d] = "asking" <=> at[d] = "asking"
                        /\ at'[d] = "use" => at[d] = "use"
    BY <1>3, <1>4, <1>6
  <1>8. AskInv' /\ UseInv'
    BY <1>1, <1>7 DEF AskInv, UseInv, Usable
  <1>9. GrantInv' /\ KeepInv'
    BY <1>1, <1>7 DEF GrantInv, KeepInv, Usable, Told
  <1> QED
    BY <1>2, <1>5, <1>8, <1>9

(***************************************************************************)
(* token().                                                                *)
(***************************************************************************)
\* When token returns, the others are not inside: nothing is granted to anybody, and
\* what has to be shown is of the cache and of the one that leaves.
LEMMA LeavingToken ==
    ASSUME TokensHold, NEW c \in Call, at[c] \in {"locked", "asking"},
           NEW to \in {"use", "over"},
           at' = [at EXCEPT ![c] = to], Unlocks, UNCHANGED kind,
           age' \in [Call -> Nat], tok' \in [Call -> Nat \cup {None, Bad}],
           \A d \in Call \ {c} : age'[d] = age[d] /\ tok'[d] = tok[d],
           cached' \in Nat \cup {None, Bad}, keepFor' \in Nat,
           KeepInv',
           to = "use" => \/ tok'[c] = Bad
                         \/ tok'[c] \in Nat \ {0} /\ tok'[c] + age'[c] > HandleLimit
    PROVE  TokensHold'
  <1> USE DEF TokensHold
  <1>1. /\ at'[c] = to
        /\ \A d \in Call \ {c} : at'[d] = at[d]
    BY DEF CacheType
  <1>2. CacheType'
    <2>1. at' \in [Call -> {"idle", "wait", "locked", "asking", "use", "over"}]
      BY DEF CacheType
    <2>2. spent' \in 0..ClientTimeout /\ grant' = None
      BY Times DEF Unlocks
    <2> QED
      BY <2>1, <2>2 DEF CacheType
  <1>3. \A d \in Call : at'[d] \notin {"locked", "asking"}
    BY <1>1, OneInside
  <1>4. LockInv' /\ AskInv' /\ GrantInv'
    BY <1>3 DEF LockInv, AskInv, GrantInv, Unlocks
  <1>5. UseInv'
    BY <1>1 DEF UseInv
  <1> QED
    BY <1>2, <1>4, <1>5

\* The cached token outlives its use by the margin less the time it took to get it.
LEMMA HitKeeps ==
    ASSUME TokensHold, NEW c \in Call, Hit(c)
    PROVE  TokensHold'
  <1> USE DEF TokensHold
  <1>1. /\ at[c] = "locked" /\ Usable
        /\ at' = [at EXCEPT ![c] = "use"] /\ tok' = [tok EXCEPT ![c] = cached]
        /\ UNCHANGED <<kind, age, cached, keepFor>> /\ Unlocks
    BY DEF Hit, Given, cacheVars
  <1>2. cached = Bad \/ (cached \in Nat /\ cached > HandleLimit)
    BY <1>1, Times, NamesApart DEF KeepInv, Usable, CacheType
  <1>3. /\ tok'[c] = cached /\ age'[c] = age[c] /\ age[c] \in Nat
        /\ age' \in [Call -> Nat] /\ tok' \in [Call -> Nat \cup {None, Bad}]
        /\ \A d \in Call \ {c} : age'[d] = age[d] /\ tok'[d] = tok[d]
    BY <1>1 DEF CacheType
  <1>4. KeepInv'
    BY <1>1 DEF KeepInv, Usable
  <1>5. tok'[c] = Bad \/ (tok'[c] \in Nat \ {0} /\ tok'[c] + age'[c] > HandleLimit)
    BY <1>2, <1>3, Times
  <1>6. cached' \in Nat \cup {None, Bad} /\ keepFor' \in Nat
    BY <1>1 DEF CacheType
  <1> QED
    BY <1>1, <1>3, <1>4, <1>5, <1>6, LeavingToken

\* A miss keeps the mutex, and finds no grant left from anybody before.
LEMMA AskKeeps ==
    ASSUME TokensHold, NEW c \in Call, Ask(c)
    PROVE  TokensHold'
  <1> USE DEF TokensHold
  <1>1. /\ at[c] = "locked" /\ ~Usable /\ ~CtxDead(c)
        /\ at' = [at EXCEPT ![c] = "asking"]
        /\ UNCHANGED <<kind, cached, keepFor, holder, age, tok, spent, grant>>
    BY DEF Ask, cacheVars, lockVars, askVars
  <1>2. /\ at'[c] = "asking" /\ \A d \in Call \ {c} : at'[d] = at[d]
        /\ age[c] \in Nat
    BY <1>1 DEF CacheType
  <1>3. CacheType'
    BY <1>1 DEF CacheType
  <1>4. LockInv'
    BY <1>1, <1>2 DEF LockInv
  <1>5. \A d \in Call : at[d] # "asking"
    BY <1>1, OneInside
  <1>6. age[c] < HandleLimit
    BY <1>1, <1>2, Times DEF CtxDead
  <1>7. AskInv'
    BY <1>1, <1>2, <1>5, <1>6, Times DEF AskInv, Usable
  <1>8. GrantInv'
    BY <1>1, <1>5 DEF GrantInv
  <1>9. KeepInv' /\ UseInv'
    BY <1>1, <1>2 DEF KeepInv, Usable, UseInv
  <1> QED
    BY <1>3, <1>4, <1>7, <1>8, <1>9

\* What is granted lasts for the handler's deadline, and for as long as it will be kept
\* and the margin, less the time the request has taken.
LEMMA ReturnKeeps ==
    ASSUME TokensHold, NEW c \in Call, AskReturns(c)
    PROVE  TokensHold'
  <1> USE DEF TokensHold
  <1>1. /\ at[c] = "asking" /\ grant # None
        /\ cached' = grant.left /\ keepFor' = KeepTime(grant.told)
        /\ at' = [at EXCEPT ![c] = "use"] /\ tok' = [tok EXCEPT ![c] = grant.left]
        /\ UNCHANGED <<kind, age>> /\ Unlocks
    BY DEF AskReturns, Given
  <1>2. /\ grant.left \in Nat /\ grant.told \in Nat /\ age[c] \in Nat
        /\ spent \in Nat /\ spent <= ClientTimeout
    BY <1>1, Times DEF CacheType
  <1>3. /\ grant.left + age[c] > HandleLimit /\ age[c] <= HandleLimit
        /\ grant.left >= Told - spent
    BY <1>1 DEF GrantInv, AskInv
  <1>4. KeepTime(grant.told) \in Nat
    BY <1>2, Times DEF KeepTime
  <1>5. KeepTime(grant.told) > 0 => grant.left >= KeepTime(grant.told) + Margin - ClientTimeout
    BY <1>2, <1>3, Times DEF KeepTime, Told
  <1>6. KeepInv'
    BY <1>1, <1>5 DEF KeepInv, Usable
  <1>7. /\ tok'[c] = grant.left /\ age'[c] = age[c]
        /\ age' \in [Call -> Nat] /\ tok' \in [Call -> Nat \cup {None, Bad}]
        /\ \A d \in Call \ {c} : age'[d] = age[d] /\ tok'[d] = tok[d]
    BY <1>1, <1>2 DEF CacheType
  <1>8. tok'[c] \in Nat \ {0} /\ tok'[c] + age'[c] > HandleLimit
    BY <1>2, <1>3, <1>7, Times
  <1>9. cached' \in Nat \cup {None, Bad} /\ keepFor' \in Nat
    BY <1>1, <1>2, <1>4
  <1> QED
    BY <1>1, <1>6, <1>7, <1>8, <1>9, LeavingToken

\* A token that is no token is given on as such, and is nothing that could run out.
LEMMA BadAnswerKeeps ==
    ASSUME TokensHold, NEW c \in Call, AskEmpty(c) \/ AskTorn(c)
    PROVE  TokensHold'
  <1> USE DEF TokensHold
  <1>1. /\ at[c] = "asking" /\ cached' \in {None, Bad} /\ keepFor' = Keep
        /\ at' = [at EXCEPT ![c] = "use"] /\ tok' = [tok EXCEPT ![c] = Bad]
        /\ UNCHANGED <<kind, age>> /\ Unlocks
    BY DEF AskEmpty, AskTorn, Given
  <1>2. KeepInv'
    BY <1>1 DEF KeepInv, Usable
  <1>3. /\ tok'[c] = Bad
        /\ age' \in [Call -> Nat] /\ tok' \in [Call -> Nat \cup {None, Bad}]
        /\ \A d \in Call \ {c} : age'[d] = age[d] /\ tok'[d] = tok[d]
    BY <1>1 DEF CacheType
  <1>4. cached' \in Nat \cup {None, Bad} /\ keepFor' \in Nat
    BY <1>1, Times
  <1> QED
    BY <1>1, <1>2, <1>3, <1>4, LeavingToken

\* An error leaves the cache as it was.
LEMMA ErrorKeeps ==
    ASSUME TokensHold, NEW c \in Call, AskCancelled(c) \/ AskFails(c)
    PROVE  TokensHold'
  <1> USE DEF TokensHold
  <1>1. /\ at[c] \in {"locked", "asking"}
        /\ at' = [at EXCEPT ![c] = "over"] /\ age' = [age EXCEPT ![c] = 0]
        /\ tok' = [tok EXCEPT ![c] = None]
        /\ UNCHANGED <<kind, cached, keepFor>> /\ Unlocks
    BY DEF AskCancelled, AskFails, Leaves, cacheVars
  <1>2. KeepInv'
    BY <1>1 DEF KeepInv, Usable
  <1>3. /\ age' \in [Call -> Nat] /\ tok' \in [Call -> Nat \cup {None, Bad}]
        /\ \A d \in Call \ {c} : age'[d] = age[d] /\ tok'[d] = tok[d]
    BY <1>1 DEF CacheType
  <1>4. cached' \in Nat \cup {None, Bad} /\ keepFor' \in Nat
    BY <1>1 DEF CacheType
  <1> QED
    BY <1>1, <1>2, <1>3, <1>4, LeavingToken

\* A handler that is done takes nothing with it.
LEMMA UsesKeeps ==
    ASSUME TokensHold, NEW c \in Call, Uses(c)
    PROVE  TokensHold'
  <1> USE DEF TokensHold
  <1>1. /\ at[c] = "use"
        /\ at' = [at EXCEPT ![c] = "over"] /\ age' = [age EXCEPT ![c] = 0]
        /\ tok' = [tok EXCEPT ![c] = None]
        /\ UNCHANGED <<kind, cached, keepFor, holder, spent, grant>>
    BY DEF Uses, Leaves, cacheVars, lockVars, askVars
  <1>2. /\ at'[c] = "over"
        /\ \A d \in Call \ {c} : at'[d] = at[d] /\ age'[d] = age[d] /\ tok'[d] = tok[d]
    BY <1>1 DEF CacheType
  <1>3. CacheType'
    BY <1>1 DEF CacheType
  <1>4. LockInv' /\ AskInv' /\ UseInv' /\ KeepInv'
    BY <1>1, <1>2 DEF LockInv, AskInv, UseInv, KeepInv, Usable
  <1>5. GrantInv'
    BY <1>1, <1>2 DEF GrantInv, Told
  <1> QED
    BY <1>3, <1>4, <1>5

(***************************************************************************)
(* The service, and time.                                                  *)
(***************************************************************************)
\* Every life is longer than a handler's deadline, and as long as it is told.
LEMMA MintKeeps ==
    ASSUME TokensHold, NEW c \in Call, ServiceMints(c)
    PROVE  TokensHold'
  <1> USE DEF TokensHold
  <1>1. /\ at[c] = "asking" /\ grant = None
        /\ UNCHANGED <<kind, cached, keepFor, holder, at, age, tok, spent>>
    BY DEF ServiceMints, cacheVars, lockVars, callVars
  <1>2. PICK l \in (IF kind = "told" THEN Lives ELSE {FixedLife}) :
            \E told \in {0, l} : grant' = [left |-> l, told |-> told]
    BY DEF ServiceMints
  <1>3. PICK told \in {0, l} : grant' = [left |-> l, told |-> told]
    BY <1>2
  <1>4. l \in Nat /\ l > HandleLimit /\ told \in Nat /\ told <= l
    BY <1>2, <1>3, Times
  <1>5. CacheType'
    BY <1>1, <1>3, <1>4 DEF CacheType
  <1>6. LockInv' /\ AskInv' /\ UseInv' /\ KeepInv'
    BY <1>1 DEF LockInv, AskInv, UseInv, KeepInv, Usable
  <1>7. grant'.left = l /\ grant'.told = told
    BY <1>3
  <1>8. \A d \in Call : at'[d] = "asking" => grant'.left + age'[d] > HandleLimit
    BY <1>1, <1>4, <1>7, Times DEF CacheType
  <1>9. grant'.left >= Told' - spent'
    <2>1. l \in Nat /\ spent' \in Nat /\ Told' \in Nat /\ Told' <= l
      BY <1>1, <1>2, <1>4, <1>7, Times DEF Told, CacheType
    <2>2. l >= Told' - spent'
      BY <2>1, <1>1, <1>7 DEF Told
    <2> QED
      BY <1>7, <2>2
  <1>10. GrantInv'
    BY <1>1, <1>8, <1>9 DEF GrantInv
  <1> QED
    BY <1>5, <1>6, <1>10

\* A refused token has no life to be counted.
LEMMA RevokeKeeps ==
    ASSUME TokensHold, ServiceRevokes
    PROVE  TokensHold'
  <1> USE DEF TokensHold
  <1>1. /\ cached \notin {None, Bad} /\ cached' = Bad
        /\ tok' = [c \in Call |-> IF tok[c] = None THEN None ELSE Bad]
        /\ UNCHANGED <<kind, keepFor, holder, at, age, spent, grant>>
    BY DEF ServiceRevokes, lockVars, askVars
  <1>2. CacheType'
    BY <1>1 DEF CacheType
  <1>4. LockInv' /\ KeepInv'
    BY <1>1 DEF LockInv, KeepInv
  <1>5. Usable' <=> Usable
    BY <1>1, NamesApart DEF Usable
  <1>6. AskInv'
    BY <1>1, <1>5 DEF AskInv
  <1>7. GrantInv'
    BY <1>1 DEF GrantInv, Told
  <1>8. UseInv'
    BY <1>1, NamesApart DEF UseInv
  <1> QED
    BY <1>2, <1>4, <1>6, <1>7, <1>8

\* Time that passes takes from what is left what it adds to what has been waited, and
\* does not pass where a deadline is due.
LEMMA TickKeeps ==
    ASSUME TokensHold, Tick
    PROVE  TokensHold'
  <1> USE DEF TokensHold
  <1>1. /\ \A c \in Call : /\ at[c] = "asking" => ~AskOver(c)
                           /\ at[c] = "use" => ~CtxDead(c)
        /\ cached' = Older(cached)
        /\ keepFor' = IF keepFor > 0 THEN keepFor - 1 ELSE 0
        /\ age' = [c \in Call |-> IF at[c] \in {"idle", "over"} \/ age[c] = Late
                                  THEN age[c] ELSE age[c] + 1]
        /\ at' = [c \in Call |-> IF at[c] = "over" THEN "idle" ELSE at[c]]
        /\ tok' = [c \in Call |-> Older(tok[c])]
        /\ spent' = IF \E c \in Call : at[c] = "asking" THEN spent + 1 ELSE 0
        /\ grant' = IF grant = None THEN None ELSE [grant EXCEPT !.left = Older(@)]
        /\ UNCHANGED <<kind, holder>>
    BY DEF Tick, lockVars
  <1>2. \A c \in Call : /\ at[c] \in {"asking", "use"} => age[c] < HandleLimit
                        /\ at[c] \in {"asking", "use"} => age'[c] = age[c] + 1
                        /\ at[c] = "asking" => spent < ClientTimeout
                        /\ age'[c] \in Nat
    BY <1>1, Times DEF CacheType, AskOver, CtxDead
  <1>4. /\ cached' \in Nat \cup {None, Bad} /\ keepFor' \in Nat
        /\ cached' = None <=> cached = None
        /\ cached' = Bad <=> cached = Bad
    BY <1>1, OlderByOne DEF CacheType
  <1>5. tok' \in [Call -> Nat \cup {None, Bad}]
    BY <1>1, OlderByOne DEF CacheType
  <1>6. spent' \in 0..ClientTimeout
    BY <1>1, <1>2, Times DEF CacheType
  <1>7. grant # None =>
            /\ grant' \in [left : Nat, told : Nat]
            /\ grant'.left = Older(grant.left) /\ grant'.told = grant.told
    <2> SUFFICES ASSUME grant # None
                 PROVE  /\ grant' \in [left : Nat, told : Nat]
                        /\ grant'.left = Older(grant.left) /\ grant'.told = grant.told
      OBVIOUS
    <2>1. grant \in [left : Nat, told : Nat] /\ grant.left \in Nat
      BY DEF CacheType
    <2>2. Older(grant.left) \in Nat
      BY <2>1, OlderByOne
    <2>3. PICK c \in Call : at[c] = "asking"
      BY DEF GrantInv
    <2> QED
      BY <1>1, <2>1, <2>2
  <1>8. CacheType'
    BY <1>1, <1>2, <1>4, <1>5, <1>6, <1>7 DEF CacheType
  <1>9. \A c \in Call : \A s \in {"locked", "asking", "use"} : at'[c] = s <=> at[c] = s
    BY <1>1 DEF CacheType
  <1>10. LockInv'
    BY <1>1, <1>9 DEF LockInv
  <1>11. Usable' => Usable
    BY <1>1, <1>4 DEF Usable, CacheType
  <1>12. AskInv'
    BY <1>2, <1>9, <1>11, Times DEF AskInv, CacheType
  <1>13. KeepInv'
    <2> SUFFICES ASSUME Usable', cached' # Bad
                 PROVE  cached' >= keepFor' + Margin - ClientTimeout
      BY DEF KeepInv
    <2>1. /\ cached \in Nat /\ keepFor > 0 /\ keepFor \in Nat
          /\ cached >= keepFor + Margin - ClientTimeout
      BY <1>4, <1>11 DEF Usable, KeepInv, CacheType
    <2>2. cached > 0
      BY <2>1, Times
    <2>3. cached' = cached - 1 /\ keepFor' = keepFor - 1
      BY <1>1, <2>1, <2>2, OlderByOne
    <2> QED
      BY <2>1, <2>3, Times
  <1>14. UseInv'
    <2> SUFFICES ASSUME NEW c \in Call, at'[c] = "use", tok'[c] # Bad
                 PROVE  tok'[c] \in Nat \ {0} /\ tok'[c] + age'[c] > HandleLimit
      BY DEF UseInv
    <2>1. at[c] = "use" /\ age[c] < HandleLimit /\ age'[c] = age[c] + 1 /\ age[c] \in Nat
      BY <1>2, <1>9 DEF CacheType
    <2>2. tok'[c] = Older(tok[c]) /\ tok[c] # Bad
      BY <1>1, <2>1, OlderByOne DEF CacheType
    <2>3. tok[c] \in Nat \ {0} /\ tok[c] + age[c] > HandleLimit
      BY <2>1, <2>2 DEF UseInv
    <2>4. tok'[c] = tok[c] - 1
      BY <2>2, <2>3, OlderByOne
    <2> QED
      BY <2>1, <2>3, <2>4, Times
  <1>15. GrantInv'
    <2> SUFFICES ASSUME grant' # None
                 PROVE  /\ \E c \in Call : at'[c] = "asking"
                        /\ \A c \in Call : at'[c] = "asking" =>
                               grant'.left + age'[c] > HandleLimit
                        /\ grant'.left >= Told' - spent'
      BY DEF GrantInv
    <2>1. grant # None
      BY <1>1
    <2>2. PICK c \in Call : at[c] = "asking"
      BY <2>1 DEF GrantInv
    <2>3. /\ grant.left \in Nat /\ grant.told \in Nat /\ Told \in Nat
          /\ grant.left >= Told - spent /\ spent \in Nat
      BY <2>1, Times DEF GrantInv, CacheType, Told
    <2>4. \A d \in Call : at[d] = "asking" =>
              age[d] \in Nat /\ age[d] < HandleLimit /\ grant.left + age[d] > HandleLimit
      BY <1>2, <2>1 DEF GrantInv, CacheType
    <2>5. grant.left > 0
      BY <2>2, <2>3, <2>4, Times
    <2>6. grant'.left = grant.left - 1
      BY <1>7, <2>1, <2>3, <2>5, OlderByOne
    <2>7. Told' = Told /\ spent' = spent + 1
      BY <1>1, <1>7, <2>1, <2>2 DEF Told
    <2>8. grant'.left >= Told' - spent'
      BY <2>3, <2>6, <2>7
    <2>9. ASSUME NEW d \in Call, at'[d] = "asking"
          PROVE  grant'.left + age'[d] > HandleLimit
      BY <1>2, <1>9, <2>3, <2>4, <2>6, <2>9, Times
    <2> QED
      BY <1>9, <2>2, <2>8, <2>9
  <1> QED
    BY <1>8, <1>10, <1>12, <1>13, <1>14, <1>15

(***************************************************************************)
(* The theorems.                                                           *)
(***************************************************************************)
LEMMA NextLockType == LockType /\ [Next]_vars => LockType'
  <1> SUFFICES ASSUME LockType, [Next]_vars PROVE LockType'
    OBVIOUS
  <1>1. /\ holder \in Call \cup {None} /\ line \in Seq(Call) /\ starving \in BOOLEAN
        /\ \A c \in Call : Append(line, c) \in Seq(Call)
        /\ line # <<>> => Tail(line) \in Seq(Call)
    BY DEF LockType
  <1>2. ASSUME NEW c \in Call, Handler(c) PROVE LockType'
    <2>1. CASE LockFree(c)
      BY <1>1, <2>1 DEF LockFree, LockType
    <2>2. CASE LockAhead(c)
      <3>1. holder' = c /\ UNCHANGED line
        BY <2>2 DEF LockAhead
      <3>2. starving' \in BOOLEAN
        BY <2>2 DEF LockAhead, Waited
      <3> QED
        BY <1>1, <3>1, <3>2 DEF LockType
    <2>3. CASE LockWaits(c)
      BY <1>1, <2>3 DEF LockWaits, LockType
    <2>4. CASE LockTurn(c)
      <3>1. holder' = c /\ line' = Tail(line) /\ line # <<>>
        BY <2>4 DEF LockTurn
      <3>2. starving' \in BOOLEAN
        BY <1>1, <2>4 DEF LockTurn, Waited
      <3> QED
        BY <1>1, <3>1, <3>2 DEF LockType
    <2>5. CASE Token(c)
      <3>1. UNCHANGED <<line, starving>> /\ holder' \in {holder, None}
        BY <2>5 DEF Token, Hit, Ask, AskCancelled, AskReturns, AskEmpty, AskTorn, AskFails,
            Unlocks, lockVars
      <3> QED
        BY <1>1, <3>1 DEF LockType
    <2>6. CASE Uses(c)
      BY <1>1, <2>6 DEF Uses, lockVars, LockType
    <2> QED
      BY <1>2, <2>1, <2>2, <2>3, <2>4, <2>5, <2>6 DEF Handler
  <1>3. ASSUME UNCHANGED lockVars PROVE LockType'
    BY <1>1, <1>3 DEF lockVars, LockType
  <1> QED
    BY <1>2, <1>3 DEF Next, ServiceRevokes, ServiceMints, Tick, vars

LEMMA NextTokensHold == TokensHold /\ [Next]_vars => TokensHold'
  <1> SUFFICES ASSUME TokensHold, [Next]_vars PROVE TokensHold'
    OBVIOUS
  <1>1. CASE ServiceRevokes
    BY <1>1, RevokeKeeps
  <1>2. CASE Tick
    BY <1>2, TickKeeps
  <1>3. ASSUME NEW c \in Call, Handler(c) PROVE TokensHold'
    <2>1. CASE LockFree(c) \/ LockAhead(c) \/ LockWaits(c) \/ LockTurn(c)
      BY <2>1, LockKeeps
    <2>2. CASE Token(c)
      BY <2>2, HitKeeps, AskKeeps, ReturnKeeps, BadAnswerKeeps, ErrorKeeps DEF Token
    <2>3. CASE Uses(c)
      BY <2>3, UsesKeeps
    <2> QED
      BY <1>3, <2>1, <2>2, <2>3 DEF Handler
  <1>4. ASSUME NEW c \in Call, ServiceMints(c) PROVE TokensHold'
    BY <1>4, MintKeeps
  <1>5. CASE UNCHANGED vars
    BY <1>5 DEF vars, cacheVars, lockVars, callVars, askVars, TokensHold, CacheType,
        LockInv, AskInv, GrantInv, KeepInv, UseInv, Usable, Told
  <1> QED
    BY <1>1, <1>2, <1>3, <1>4, <1>5 DEF Next

(***************************************************************************)
(* The line of those that wait for the mutex.                              *)
(***************************************************************************)
\* A step that leaves the line and the ages of who waits as they are.
LEMMA LineStays ==
    ASSUME CacheType, LineInv, UNCHANGED line,
           \A d \in Call : Waiting(d) <=> Waiting(d)',
           \A d \in Call : Waiting(d) => age'[d] = age[d],
           \A d \in Call : at'[d] \in {"idle", "over"} => age'[d] = 0,
           holder' # None => at'[holder'] \in {"locked", "asking"},
           line \in Seq(Call)
    PROVE  LineInv'
  <1>1. \A i \in DOMAIN line : line[i] \in Call
    OBVIOUS
  <1>2. QED
    BY <1>1 DEF LineInv

\* What a step of token() leaves alone.
LEMMA TokenStep ==
    ASSUME CacheType, LockInv, NEW c \in Call, Token(c)
    PROVE  /\ at[c] \in {"locked", "asking"} /\ at'[c] \in {"asking", "use", "over"}
           /\ at'[c] = "asking" => at[c] = "locked" /\ holder = c /\ spent' = spent
           /\ holder' = IF at'[c] = "asking" THEN c ELSE None
           /\ at'[c] = "over" => age'[c] = 0
           /\ \A d \in Call : d # c => at'[d] = at[d] /\ age'[d] = age[d]
           /\ UNCHANGED <<line, starving>>
  <1>1. CASE Hit(c)
    BY <1>1 DEF Hit, Given, Unlocks, CacheType
  <1>2. CASE Ask(c)
    <2>1. holder = c
      BY <1>2 DEF Ask, LockInv
    <2>2. QED
      BY <1>2, <2>1 DEF Ask, lockVars, askVars, CacheType
  <1>3. CASE AskReturns(c) \/ AskEmpty(c) \/ AskTorn(c)
    BY <1>3 DEF AskReturns, AskEmpty, AskTorn, Given, Unlocks, CacheType
  <1>4. CASE AskCancelled(c) \/ AskFails(c)
    BY <1>4 DEF AskCancelled, AskFails, Leaves, Unlocks, CacheType
  <1>5. QED
    BY <1>1, <1>2, <1>3, <1>4 DEF Token

LEMMA ArrivesStep ==
    ASSUME CacheType, NEW c \in Call, NEW to \in {"locked", "wait"}, Arrives(c, to)
    PROVE  /\ at[c] = "idle" /\ at'[c] = to /\ age' = age
           /\ \A d \in Call : d # c => at'[d] = at[d]
  BY DEF Arrives, CacheType

LEMMA TurnStep ==
    ASSUME CacheType, LockType, LineInv, NEW c \in Call, LockTurn(c)
    PROVE  /\ line # <<>> /\ c = line[1] /\ holder' = c /\ line' = Tail(line) /\ age' = age
           /\ at'[c] = "locked" /\ Waiting(c)
           /\ \A d \in Call : d # c => at'[d] = at[d]
           /\ Eldest(c)
           /\ starving' \in BOOLEAN /\ (starving /\ ~starving' => AllWithin(0)')
  <1>1. /\ line # <<>> /\ c = line[1] /\ holder' = c /\ line' = Tail(line) /\ age' = age
        /\ at' = [at EXCEPT ![c] = "locked"]
    BY DEF LockTurn, LockType
  <1>2. /\ at'[c] = "locked"
        /\ \A d \in Call : d # c => at'[d] = at[d]
    BY <1>1 DEF CacheType
  <1>3. DOMAIN line = 1..Len(line) /\ Len(line) \in Nat /\ 1 \in DOMAIN line
    BY <1>1 DEF LockType
  <1>4. \A d \in Call : Waiting(d) => age[d] <= age[c]
    <2>1. SUFFICES ASSUME NEW d \in Call, Waiting(d) PROVE age[d] <= age[c]
      OBVIOUS
    <2>2. PICK i \in DOMAIN line : line[i] = d
      BY <2>1 DEF LineInv
    <2>3. 1 <= i
      BY <1>3
    <2>4. QED
      BY <1>1, <1>3, <2>2, <2>3 DEF LineInv, CacheType
  <1>5. Waiting(c)
    BY <1>1, <1>3 DEF LineInv
  <1>6. starving' \in BOOLEAN /\ (starving /\ ~starving' => Len(line) = 1 \/ age[c] = 0)
    BY DEF LockTurn, Waited, LockType
  <1>7. ASSUME Len(line) = 1 PROVE \A d \in Call : ~Waiting(d)'
    <2>1. \A d \in Call : Waiting(d) => d = c
      BY <1>1, <1>3, <1>7 DEF LineInv
    <2>2. QED
      BY <1>2, <2>1 DEF Waiting
  <1>8. ASSUME age[c] = 0 PROVE \A d \in Call : Waiting(d)' => age'[d] <= 0
    BY <1>1, <1>2, <1>4, <1>8 DEF Waiting
  <1>9. QED
    BY <1>1, <1>2, <1>4, <1>5, <1>6, <1>7, <1>8 DEF Eldest, AllWithin

\* A unit of time, for those that wait: there is no line, or somebody asks.
LEMMA TickStep ==
    ASSUME CacheType, LockType, LineInv, WaitInv, Tick
    PROVE  /\ UNCHANGED lockVars
           /\ \A d \in Call : at'[d] = IF at[d] = "over" THEN "idle" ELSE at[d]
           /\ \A d \in Call : at[d] \in {"idle", "over"} => age'[d] = age[d]
           /\ \A d \in Call : Waiting(d) => age'[d] = age[d] + 1
           /\ \A d \in Call : at[d] # "locked"
           /\ \A d \in Call : at[d] = "asking" =>
                 /\ age[d] < HandleLimit /\ age'[d] = age[d] + 1
                 /\ spent < ClientTimeout /\ spent' = spent + 1
           /\ \A d \in Call : Waiting(d) => \E e \in Call : at[e] = "asking"
  <1>1. /\ UNCHANGED lockVars
        /\ \A d \in Call : at'[d] = IF at[d] = "over" THEN "idle" ELSE at[d]
        /\ \A d \in Call : at[d] # "locked"
        /\ \A d \in Call : age'[d] = IF at[d] \in {"idle", "over"} \/ age[d] = Late
                                     THEN age[d] ELSE age[d] + 1
        /\ \A d \in Call : at[d] = "asking" => ~AskOver(d) /\ spent' = spent + 1
        /\ holder = None => line = <<>>
    BY DEF Tick
  <1>2. \A d \in Call : age[d] \in Nat
    BY DEF CacheType
  <1>3. \A d \in Call : Waiting(d) => age[d] <= HandleLimit + ClientTimeout
    BY <1>2, Times DEF WaitInv, AllWithin
  <1>4. \A d \in Call : Waiting(d) => age'[d] = age[d] + 1
    BY <1>1, <1>2, <1>3, Times DEF Waiting
  <1>5. \A d \in Call : at[d] = "asking" =>
            /\ age[d] < HandleLimit /\ age'[d] = age[d] + 1
            /\ spent < ClientTimeout /\ spent' = spent + 1
    BY <1>1, <1>2, Times DEF AskOver, CtxDead, CacheType
  <1>6. ASSUME NEW d \in Call, Waiting(d) PROVE \E e \in Call : at[e] = "asking"
    <2>1. line # <<>>
      BY <1>6 DEF LineInv
    <2>2. holder # None /\ holder \in Call /\ at[holder] \in {"locked", "asking"}
      BY <1>1, <2>1 DEF LineInv, LockType
    <2>3. QED
      BY <1>1, <2>2
  <1>7. QED
    BY <1>1, <1>4, <1>5, <1>6

LEMMA NextLineInv ==
    LockType /\ CacheType /\ LockInv /\ LineInv /\ WaitInv /\ [Next]_vars => LineInv'
  <1> SUFFICES ASSUME LockType, CacheType, LockInv, LineInv, WaitInv, [Next]_vars
               PROVE  LineInv'
    OBVIOUS
  <1>1. line \in Seq(Call) /\ \A i \in DOMAIN line : line[i] \in Call
    BY DEF LockType
  <1>2. /\ \A d \in Call : at[d] \in {"idle", "over"} => age[d] = 0
        /\ holder # None => holder \in Call /\ at[holder] \in {"locked", "asking"}
    BY DEF LineInv, LockType
  <1>3. ASSUME NEW c \in Call, LockFree(c) \/ LockAhead(c) PROVE LineInv'
    <2>1. Arrives(c, "locked") /\ holder' = c /\ UNCHANGED line
      BY <1>3 DEF LockFree, LockAhead
    <2>2. /\ at[c] = "idle" /\ at'[c] = "locked" /\ age' = age
          /\ \A d \in Call : d # c => at'[d] = at[d]
      BY <2>1, ArrivesStep
    <2>3. QED
      BY <1>1, <1>2, <2>1, <2>2, LineStays DEF Waiting
  <1>4. ASSUME NEW c \in Call, LockWaits(c) PROVE LineInv'
    <2>1. Arrives(c, "wait") /\ line' = Append(line, c) /\ UNCHANGED holder
      BY <1>4 DEF LockWaits
    <2>2. /\ at[c] = "idle" /\ at'[c] = "wait" /\ age' = age /\ age[c] = 0
          /\ \A d \in Call : d # c => at'[d] = at[d]
      BY <1>2, <2>1, ArrivesStep
    <2>3. PICK n \in Nat : n = Len(line)
      BY <1>1
    <2>4. /\ DOMAIN line = 1..n /\ DOMAIN line' = 1..(n + 1) /\ line'[n + 1] = c
          /\ \A i \in 1..n : line'[i] = line[i] /\ line[i] # c
      BY <1>1, <2>1, <2>2, <2>3 DEF LineInv, Waiting
    <2>5. \A d \in Call : age[d] \in Nat
      BY DEF CacheType
    <2>6. \A i \in 1..n : at'[line[i]] = "wait"
      BY <1>1, <2>2, <2>4 DEF LineInv, Waiting
    <2>7. \A i \in 1..(n + 1) : i \in 1..n \/ i = n + 1
      BY <2>3
    <2>8. \A i \in DOMAIN line' : at'[line'[i]] = "wait"
      BY <2>2, <2>4, <2>6, <2>7
    <2>9. \A i, j \in DOMAIN line' : i # j => line'[i] # line'[j]
      BY <2>4, <2>7 DEF LineInv
    <2>10. \A d \in Call : Waiting(d)' => \E i \in DOMAIN line' : line'[i] = d
      <3>1. SUFFICES ASSUME NEW d \in Call, Waiting(d)' PROVE \E i \in DOMAIN line' : line'[i] = d
        OBVIOUS
      <3>2. CASE d = c
        <4>1. n + 1 \in 1..(n + 1)
          BY <2>3
        <4>2. QED
          BY <2>4, <3>2, <4>1
      <3>3. CASE d # c
        <4>1. PICK i \in 1..n : line[i] = d
          BY <2>2, <2>4, <3>1, <3>3 DEF LineInv, Waiting
        <4>2. QED
          BY <2>4, <4>1
      <3>4. QED
        BY <3>2, <3>3
    <2>11. ASSUME NEW i \in DOMAIN line', NEW j \in DOMAIN line', i <= j
           PROVE  age'[line'[i]] >= age'[line'[j]]
      <3>1. CASE j = n + 1
        <4>1. line'[i] \in Call
          BY <1>1, <2>4, <2>7
        <4>2. QED
          BY <2>2, <2>4, <2>5, <3>1, <4>1
      <3>2. CASE j \in 1..n
        <4>1. i \in 1..n
          BY <2>3, <2>4, <2>11, <3>2
        <4>2. QED
          BY <2>2, <2>4, <2>11, <3>2, <4>1 DEF LineInv
      <3>3. QED
        BY <2>4, <2>7, <3>1, <3>2
    <2>12. /\ \A d \in Call : at'[d] \in {"idle", "over"} => age'[d] = 0
           /\ holder' # None => at'[holder'] \in {"locked", "asking"}
      BY <1>2, <2>1, <2>2
    <2>13. QED
      BY <2>8, <2>9, <2>10, <2>11, <2>12 DEF LineInv, Waiting
  <1>5. ASSUME NEW c \in Call, LockTurn(c) PROVE LineInv'
    <2>1. /\ line # <<>> /\ c = line[1] /\ holder' = c /\ line' = Tail(line) /\ age' = age
          /\ at'[c] = "locked"
          /\ \A d \in Call : d # c => at'[d] = at[d]
      BY <1>5, TurnStep
    <2>2. PICK n \in Nat : n = Len(line) /\ n > 0
      BY <1>1, <2>1
    <2>3. /\ DOMAIN line = 1..n /\ DOMAIN line' = 1..(n - 1)
          /\ \A i \in 1..(n - 1) : line'[i] = line[i + 1] /\ i + 1 \in 1..n /\ i + 1 # 1
      BY <1>1, <2>1, <2>2
    <2>4. \A i \in 1..n : i # 1 => line[i] # c
      BY <2>1, <2>2, <2>3 DEF LineInv
    <2>5. \A i \in DOMAIN line' : at'[line'[i]] = "wait"
      BY <1>1, <2>1, <2>3, <2>4 DEF LineInv, Waiting
    <2>6. \A i, j \in DOMAIN line' : i # j => line'[i] # line'[j]
      <3>1. SUFFICES ASSUME NEW i \in 1..(n - 1), NEW j \in 1..(n - 1), i # j
                     PROVE  line'[i] # line'[j]
        BY <2>3
      <3>2. i + 1 # j + 1 /\ i + 1 \in DOMAIN line /\ j + 1 \in DOMAIN line
        BY <2>3, <3>1
      <3>3. line[i + 1] # line[j + 1]
        BY <3>2 DEF LineInv
      <3>4. QED
        BY <2>3, <3>3
    <2>7. \A d \in Call : Waiting(d)' => \E i \in DOMAIN line' : line'[i] = d
      <3>1. SUFFICES ASSUME NEW d \in Call, Waiting(d)' PROVE \E i \in DOMAIN line' : line'[i] = d
        OBVIOUS
      <3>2. d # c /\ Waiting(d)
        BY <2>1, <3>1 DEF Waiting
      <3>3. PICK i \in 1..n : line[i] = d
        BY <2>3, <3>2 DEF LineInv
      <3>4. i # 1
        BY <2>1, <3>2, <3>3
      <3>5. i - 1 \in 1..(n - 1) /\ (i - 1) + 1 = i
        BY <2>2, <3>3, <3>4
      <3>6. QED
        BY <2>3, <3>3, <3>5
    <2>8. ASSUME NEW i \in DOMAIN line', NEW j \in DOMAIN line', i <= j
          PROVE  age'[line'[i]] >= age'[line'[j]]
      <3>1. i + 1 <= j + 1
        BY <2>3, <2>8
      <3>2. QED
        BY <2>1, <2>3, <2>8, <3>1 DEF LineInv
    <2>9. \A d \in Call : at'[d] \in {"idle", "over"} => age'[d] = 0
      BY <1>2, <2>1
    <2>10. QED
      BY <2>1, <2>5, <2>6, <2>7, <2>8, <2>9 DEF LineInv, Waiting
  <1>6. ASSUME NEW c \in Call, Token(c) PROVE LineInv'
    BY <1>1, <1>2, <1>6, TokenStep, LineStays DEF Waiting
  <1>7. ASSUME NEW c \in Call, Uses(c) PROVE LineInv'
    <2>1. /\ at[c] = "use" /\ at'[c] = "over" /\ age'[c] = 0 /\ UNCHANGED <<line, holder>>
          /\ \A d \in Call : d # c => at'[d] = at[d] /\ age'[d] = age[d]
      BY <1>7 DEF Uses, Leaves, lockVars, CacheType
    <2>2. QED
      BY <1>1, <1>2, <2>1, LineStays DEF Waiting
  <1>8. CASE Tick
    <2>1. /\ UNCHANGED lockVars
          /\ \A d \in Call : at'[d] = IF at[d] = "over" THEN "idle" ELSE at[d]
          /\ \A d \in Call : at[d] \in {"idle", "over"} => age'[d] = age[d]
          /\ \A d \in Call : Waiting(d) => age'[d] = age[d] + 1
      BY <1>8, TickStep
    <2>2. \A i \in DOMAIN line : Waiting(line[i]) /\ at'[line[i]] = "wait"
      BY <1>1, <2>1 DEF LineInv, Waiting
    <2>3. \A i, j \in DOMAIN line : i <= j => age'[line[i]] >= age'[line[j]]
      BY <1>1, <2>1, <2>2 DEF LineInv, CacheType
    <2>4. \A d \in Call : Waiting(d)' => Waiting(d)
      BY <2>1 DEF Waiting
    <2>5. \A d \in Call : at'[d] \in {"idle", "over"} => age'[d] = 0
      BY <1>2, <2>1 DEF CacheType
    <2>6. holder' # None => at'[holder'] \in {"locked", "asking"}
      BY <1>2, <2>1 DEF lockVars
    <2>7. QED
      BY <2>1, <2>2, <2>3, <2>4, <2>5, <2>6 DEF LineInv, lockVars, Waiting
  <1>9. CASE ServiceRevokes \/ (\E c \in Call : ServiceMints(c)) \/ UNCHANGED vars
    <2>1. UNCHANGED <<line, holder, at, age>>
      BY <1>9 DEF ServiceRevokes, ServiceMints, vars, lockVars, callVars
    <2>2. QED
      BY <1>1, <1>2, <2>1, LineStays DEF Waiting
  <1>10. QED
    BY <1>3, <1>4, <1>5, <1>6, <1>7, <1>8, <1>9 DEF Next, Handler

(***************************************************************************)
(* How long they wait.                                                     *)
(***************************************************************************)
LEMMA NextWaitInv ==
    LockType /\ CacheType /\ LockInv /\ LineInv /\ WaitInv /\ [Next]_vars => WaitInv'
  <1> SUFFICES ASSUME LockType, CacheType, LockInv, LineInv, WaitInv, [Next]_vars
               PROVE  WaitInv'
    OBVIOUS
  <1>1. /\ \A d \in Call : age[d] \in Nat /\ (at[d] = "idle" => age[d] = 0)
        /\ spent \in 0..ClientTimeout /\ starving \in BOOLEAN
    BY DEF CacheType, LineInv, LockType
  <1>2. AllWithin(IF starving THEN HandleLimit + ClientTimeout ELSE HandleLimit)
    BY DEF WaitInv
  \* Whoever has just come, in front of the line or into it.
  <1>3. ASSUME NEW c \in Call, LockFree(c) PROVE WaitInv'
    <2>1. Arrives(c, "locked") /\ UNCHANGED <<starving, spent>> /\ line = <<>>
      BY <1>3 DEF LockFree, askVars
    <2>2. /\ at[c] = "idle" /\ at'[c] = "locked" /\ age' = age
          /\ \A d \in Call : d # c => at'[d] = at[d]
      BY <2>1, ArrivesStep
    <2>3. \A d \in Call : ~Waiting(d)
      BY <2>1 DEF LineInv
    <2>4. \A d \in Call : ~Waiting(d)'
      BY <2>2, <2>3 DEF Waiting
    <2>5. QED
      BY <2>4 DEF WaitInv, AllWithin, Eldest
  <1>4. ASSUME NEW c \in Call, LockAhead(c) PROVE WaitInv'
    <2>1. /\ Arrives(c, "locked") /\ UNCHANGED spent /\ holder = None /\ ~starving /\ line # <<>>
          /\ starving' \in BOOLEAN /\ (~starving' => age[line[1]] = 0)
      <3>1. /\ Arrives(c, "locked") /\ UNCHANGED spent /\ holder = None /\ ~starving /\ line # <<>>
            /\ starving' \in Waited(Head(line))
        BY <1>4 DEF LockAhead, askVars
      <3>2. Head(line) = line[1]
        BY <3>1 DEF LockType
      <3>3. starving' \in IF age[line[1]] = 0 THEN BOOLEAN ELSE {TRUE}
        BY <3>1, <3>2 DEF Waited
      <3>4. CASE age[line[1]] = 0
        BY <3>1, <3>3, <3>4
      <3>5. CASE age[line[1]] # 0
        <4>1. starving' = TRUE
          BY <3>3, <3>5
        <4>2. QED
          BY <3>1, <4>1
      <3>6. QED
        BY <3>4, <3>5
    <2>2. /\ at[c] = "idle" /\ at'[c] = "locked" /\ age' = age
          /\ \A d \in Call : d # c => at'[d] = at[d]
      BY <2>1, ArrivesStep
    <2>3. \A d \in Call : d # c => at'[d] \notin {"locked", "asking"}
      BY <2>1, <2>2, NamesApart DEF LockInv
    <2>4. \A d \in Call : Waiting(d)' => Waiting(d) /\ age'[d] <= HandleLimit
      BY <1>2, <2>1, <2>2 DEF Waiting, AllWithin
    <2>5. ~starving' => \A d \in Call : Waiting(d)' => age'[d] <= age'[c]
      <3>1. SUFFICES ASSUME ~starving', NEW d \in Call, Waiting(d) PROVE age[d] <= 0
        BY <1>1, <2>2, <2>4
      <3>2. PICK i \in DOMAIN line : line[i] = d
        BY <3>1 DEF LineInv
      <3>3. 1 \in DOMAIN line /\ 1 <= i
        BY <2>1, <3>2 DEF LockType
      <3>4. age[line[1]] >= age[d]
        BY <3>2, <3>3 DEF LineInv
      <3>5. QED
        BY <1>1, <2>1, <3>1, <3>4
    <2>6. QED
      BY <1>1, <2>1, <2>2, <2>3, <2>4, <2>5, Times DEF WaitInv, AllWithin, Eldest
  <1>5. ASSUME NEW c \in Call, LockWaits(c) PROVE WaitInv'
    <2>1. Arrives(c, "wait") /\ UNCHANGED <<starving, spent>>
      BY <1>5 DEF LockWaits, askVars
    <2>2. /\ at[c] = "idle" /\ at'[c] = "wait" /\ age' = age /\ age[c] = 0
          /\ \A d \in Call : d # c => at'[d] = at[d]
      BY <1>1, <2>1, ArrivesStep
    <2>3. \A limit \in Nat : AllWithin(limit) => \A d \in Call : Waiting(d)' => age'[d] <= limit
      BY <1>1, <2>2 DEF AllWithin, Waiting
    <2>4. \A d \in Call : at'[d] \in {"locked", "asking"} => at'[d] = at[d]
      BY <2>2
    <2>5. HandleLimit + ClientTimeout \in Nat /\ HandleLimit + spent \in Nat /\ HandleLimit \in Nat
      BY <1>1, Times
    <2>6. QED
      BY <1>1, <2>1, <2>2, <2>3, <2>4, <2>5 DEF WaitInv, AllWithin, Eldest
  \* The eldest gets its turn.
  <1>6. ASSUME NEW c \in Call, LockTurn(c) PROVE WaitInv'
    <2>1. /\ at'[c] = "locked" /\ age' = age /\ Waiting(c)
          /\ \A d \in Call : d # c => at'[d] = at[d]
          /\ Eldest(c) /\ starving' \in BOOLEAN /\ (starving /\ ~starving' => AllWithin(0)')
      BY <1>6, TurnStep
    <2>2. ~starving => ~starving'
      BY <1>6 DEF LockTurn
    <2>3. \A d \in Call : Waiting(d)' => Waiting(d)
      BY <2>1 DEF Waiting
    <2>4. \A d \in Call : d # c => at'[d] \notin {"locked", "asking"}
      BY <1>6, <2>1, NamesApart DEF LockTurn, LockInv
    <2>5. AllWithin(age[c])'
      BY <2>1, <2>3 DEF Eldest, AllWithin
    <2>6. AllWithin(IF starving THEN HandleLimit + ClientTimeout ELSE HandleLimit)'
      BY <1>1, <1>2, <2>1, <2>2, <2>3, Times DEF AllWithin
    <2>7. QED
      BY <2>1, <2>4, <2>5, <2>6 DEF WaitInv, Eldest, AllWithin
  <1>7. ASSUME NEW c \in Call, Token(c) PROVE WaitInv'
    <2>1. /\ at[c] \in {"locked", "asking"} /\ at'[c] \in {"asking", "use", "over"}
          /\ at'[c] = "asking" => at[c] = "locked" /\ spent' = spent
          /\ \A d \in Call : d # c => at'[d] = at[d] /\ age'[d] = age[d]
          /\ UNCHANGED starving
      BY <1>7, TokenStep
    <2>2. at'[c] = "asking" => age' = age
      BY <1>7, <2>1 DEF Token, Hit, Ask, AskReturns, AskEmpty, AskTorn, AskCancelled, AskFails,
                        Given, Leaves, CacheType
    <2>3. \A d \in Call : Waiting(d)' => Waiting(d) /\ age'[d] = age[d]
      BY <2>1 DEF Waiting
    <2>4. \A d \in Call : d # c => at'[d] \notin {"locked", "asking"}
      BY <2>1, OneInside
    <2>5. at'[c] = "asking" => (Eldest(c) \/ (starving /\ AllWithin(HandleLimit)))
      BY <2>1 DEF WaitInv
    <2>6. AllWithin(IF starving THEN HandleLimit + ClientTimeout ELSE HandleLimit)'
      BY <1>2, <2>1, <2>3 DEF AllWithin
    <2>7. at'[c] = "asking" => (Eldest(c) \/ (starving /\ AllWithin(HandleLimit + spent)))'
      BY <1>1, <2>1, <2>2, <2>3, <2>5, Times DEF Eldest, AllWithin
    <2>8. QED
      BY <2>1, <2>4, <2>6, <2>7 DEF WaitInv
  <1>8. ASSUME NEW c \in Call, Uses(c) PROVE WaitInv'
    <2>1. /\ at[c] = "use" /\ at'[c] = "over" /\ UNCHANGED <<starving, spent>>
          /\ \A d \in Call : d # c => at'[d] = at[d] /\ age'[d] = age[d]
      BY <1>8 DEF Uses, Leaves, lockVars, askVars, CacheType
    <2>2. QED
      BY <2>1 DEF WaitInv, AllWithin, Eldest, Waiting
  \* Time passes for those that wait only while somebody asks.
  <1>9. CASE Tick
    <2>1. /\ UNCHANGED lockVars
          /\ \A d \in Call : at'[d] = IF at[d] = "over" THEN "idle" ELSE at[d]
          /\ \A d \in Call : Waiting(d) => age'[d] = age[d] + 1
          /\ \A d \in Call : at[d] # "locked"
          /\ \A d \in Call : at[d] = "asking" =>
                /\ age[d] < HandleLimit /\ age'[d] = age[d] + 1
                /\ spent < ClientTimeout /\ spent' = spent + 1
          /\ \A d \in Call : Waiting(d) => \E e \in Call : at[e] = "asking"
      BY <1>9, TickStep
    <2>2. \A d \in Call : Waiting(d)' <=> Waiting(d)
      BY <2>1 DEF Waiting
    <2>3. starving' = starving
      BY <2>1 DEF lockVars
    <2>4. ASSUME NEW e \in Call, at[e] = "asking"
          PROVE  /\ (Eldest(e) \/ (starving /\ AllWithin(HandleLimit + spent)))'
                 /\ AllWithin(IF starving THEN HandleLimit + ClientTimeout ELSE HandleLimit)'
      <3>1. CASE Eldest(e)
        <4>1. \A d \in Call : Waiting(d)' => age'[d] <= age'[e] /\ age'[d] <= HandleLimit
          BY <1>1, <2>1, <2>2, <2>4, <3>1, Times DEF Eldest, AllWithin
        <4>2. \A d \in Call : Waiting(d)' => age'[d] <= HandleLimit + ClientTimeout
          <5>1. \A d \in Call : Waiting(d)' => age'[d] \in Nat
            BY <1>1, <2>1, <2>2
          <5>2. QED
            BY <4>1, <5>1, Times
        <4>3. AllWithin(IF starving THEN HandleLimit + ClientTimeout ELSE HandleLimit)'
          BY <4>1, <4>2 DEF AllWithin
        <4>4. Eldest(e)'
          BY <4>1 DEF Eldest, AllWithin
        <4>5. QED
          BY <4>3, <4>4
      <3>2. CASE starving /\ AllWithin(HandleLimit + spent)
        <4>1. \A d \in Call : Waiting(d)' => /\ age'[d] <= HandleLimit + spent'
                                             /\ age'[d] <= HandleLimit + ClientTimeout
          BY <1>1, <2>1, <2>2, <2>4, <3>2, Times DEF AllWithin
        <4>2. QED
          BY <2>3, <3>2, <4>1 DEF AllWithin
      <3>3. QED
        BY <2>4, <3>1, <3>2 DEF WaitInv
    <2>5. AllWithin(IF starving THEN HandleLimit + ClientTimeout ELSE HandleLimit)'
      BY <2>1, <2>2, <2>4 DEF AllWithin
    <2>6. QED
      BY <2>1, <2>4, <2>5 DEF WaitInv
  <1>10. CASE ServiceRevokes \/ (\E c \in Call : ServiceMints(c)) \/ UNCHANGED vars
    <2>1. UNCHANGED <<starving, spent, at, age>>
      BY <1>10 DEF ServiceRevokes, ServiceMints, vars, lockVars, callVars, askVars
    <2>2. QED
      BY <2>1 DEF WaitInv, AllWithin, Eldest, Waiting
  <1>11. QED
    BY <1>3, <1>4, <1>5, <1>6, <1>7, <1>8, <1>9, <1>10 DEF Next, Handler

\* What is granted, cached and in use always lasts as long as the code may still need
\* it, and whoever asks is alone and has a reason to (gcp.go:170-256).
THEOREM TokensAlwaysLast == Spec => []TokensLast
  <1>1. TokensLast <=> LockType /\ TokensHold
    BY DEF TokensLast, TypeOK, TokensHold
  <1>2. Init => LockType
    <2> SUFFICES ASSUME Init PROVE LockType
      OBVIOUS
    <2>1. line \in Seq(Call)
      BY DEF Init
    <2> QED
      BY <2>1 DEF Init, LockType
  <1> QED
    BY <1>1, <1>2, InitTokensHold, NextLockType, NextTokensHold, PTL DEF Spec

\* No request leaves with a token that is past its life: the margin of 60 s covers the
\* 15 s of the answer on its way and the 30 s of the handler (gcp.go:250, azure.go:177).
THEOREM SentTokensAlwaysLive == Spec => []SentTokenLives
  <1>1. TokensLast => SentTokenLives
    BY NamesApart DEF TokensLast, UseInv, SentTokenLives
  <1> QED
    BY <1>1, TokensAlwaysLast, PTL

\* No handler fetches a token beside one that can be used, however many miss the cache
\* at the same time (gcp.go:175-179).
THEOREM FetchesOnlyWhenNeeded == Spec => FetchesWhenNeeded
  <1>1. TokensLast /\ [Next]_vars =>
            [\A c \in Call : at[c] = "asking" /\ at'[c] # "asking" => ~Usable]_vars
    BY DEF TokensLast, AskInv
  <1> QED
    BY <1>1, TokensAlwaysLast, PTL DEF Spec, FetchesWhenNeeded

\* Tokens last, the line is in order, and nobody in it has waited for more than a token
\* request past its deadline.
THEOREM CacheInductive == Spec => []Inductive
  <1>1. Init => LineInv /\ WaitInv
    <2> SUFFICES ASSUME Init PROVE LineInv /\ WaitInv
      OBVIOUS
    <2>1. line = <<>> /\ holder = None /\ \A c \in Call : at[c] = "idle" /\ age[c] = 0
      BY DEF Init
    <2>2. QED
      BY <2>1 DEF LineInv, WaitInv, AllWithin, Waiting
  <1>2. TokensLast /\ LineInv /\ WaitInv /\ [Next]_vars => (LineInv /\ WaitInv)'
    BY NextLineInv, NextWaitInv DEF TokensLast, TypeOK
  <1>3. QED
    BY <1>1, <1>2, TokensAlwaysLast, PTL DEF Spec, Inductive

\* A handler that waits in Lock outlives its deadline by one token request at most,
\* however many handlers there are and whoever overtakes it (azure.go:147-179, sync.Mutex).
THEOREM HeldUpByOneRequest == Spec => []HeldUpAtMost
  <1>1. Inductive => HeldUpAtMost
    <2> SUFFICES ASSUME Inductive, NEW c \in Call, at[c] = "wait"
                 PROVE  age[c] <= HandleLimit + ClientTimeout
      BY DEF HeldUpAtMost
    <2>1. age[c] \in Nat
      BY DEF Inductive, TokensLast, TypeOK, CacheType
    <2>2. QED
      BY <2>1, Times DEF Inductive, WaitInv, AllWithin, Waiting
  <1>2. QED
    BY <1>1, CacheInductive, PTL
=============================================================================
