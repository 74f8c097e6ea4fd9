------------------------------ MODULE Drivers ------------------------------
(***************************************************************************)
(* The drivers of internal/upstream as protocols: which requests a Read, a *)
(* Write or a Delete of one path makes of the service, in which order, and *)
(* what it does with each reply.  Calls run concurrently, one per handler  *)
(* goroutine, so the requests of several interleave at the service.        *)
(*                                                                         *)
(*   plain       one request      vault.go, doppler.go, pulumi_esc.go      *)
(*   ssm         the same, repeated by the AWS SDK     awsssm.go           *)
(*   kept        one request, and none for a delete    conjur.go           *)
(*   put_create  put, else create infisical.go                             *)
(*   sm          the same, repeated by the AWS SDK     aws.go              *)
(*   create_put  create, else put akeyless.go                              *)
(*   ensure_add  create the container, add a version   gcp.go              *)
(*   soft        a delete leaves a name to purge       azure.go            *)
(*   lookup      find the item's id, then use it       bitwarden_sm.go,    *)
(*                                                     onepassword.go      *)
(*                                                                         *)
(* A request may reach the service after the call has given up on it.  The *)
(* two AWS clients are built with the default retryer of their SDK, which  *)
(* sends a request again when no answer comes, or an error; each copy may  *)
(* be carried out.  (The retryer stops after three attempts; here it makes *)
(* any number of them.  Secrets Manager knows a repeated put by its token  *)
(* until the secret is deleted; here it knows none.)                       *)
(* Tokens, names and the encoding of values are left out.                  *)
(***************************************************************************)
EXTENDS Integers, Sequences, FiniteSets, SequencesExt

CONSTANTS Call,    \* calls of the driver, all of one path
          Op,      \* "read", "write" or "delete", for each
          Kinds,   \* the drivers looked at
          None, Empty, Gone

AllKinds == {"plain", "ssm", "kept", "put_create", "sm", "create_put", "ensure_add", "soft",
             "lookup"}
Sdk      == {"ssm", "sm"}

ASSUME DriverAssumption ==
    /\ IsFiniteSet(Call) /\ Op \in [Call -> {"read", "write", "delete"}]
    /\ Kinds \subseteq AllKinds
    /\ Call \cap {None, Empty, Gone} = {}
    /\ None # Empty /\ None # Gone /\ Empty # Gone
    /\ None \notin {"ok", "missing", "conflict", "error"}

VARIABLES
    kind,   \* the driver
    items,  \* the items the service holds under the path, oldest first
    wire,   \* requests under way, the ones their callers count on
    stale,  \* requests under way that the SDK has sent again since (one for all its copies)
    at,     \* the request each call waits for
    reply,  \* the status it was given
    found,  \* the id a lookup returned
    result, \* what the driver returned
    took,   \* calls that have taken effect
    saw,    \* what a read found
    raced,  \* did two writes look for an item neither had made yet?
    mistold \* Akeyless creates that were carried out and answered with an error

callVars == <<at, reply, found, result>>
histVars == <<took, saw, raced>>
vars     == <<kind, items, wire, stale, callVars, histVars, mistold>>

ById     == {"put_id", "get_id", "remove_id"}
Updating == {"set", "put", "add", "put_id"}
Creating == {"set", "create", "ensure", "post"}
Removing == {"remove", "remove_id"}
Reading  == {"get", "get_id", "list"}
Verbs    == Updating \cup Creating \cup Removing \cup Reading \cup {"purge"}

Waits(c) == at[c] \in Verbs

Init ==
    /\ kind \in Kinds
    /\ items = <<>> /\ wire = {} /\ stale = {}
    /\ at = [c \in Call |-> "idle"] /\ reply = [c \in Call |-> None]
    /\ found = [c \in Call |-> None] /\ result = [c \in Call |-> None]
    /\ took = {} /\ saw = [c \in Call |-> None] /\ raced = FALSE
    /\ mistold = {}

(***************************************************************************)
(* The driver's side: a request, and what each reply leads to.             *)
(***************************************************************************)
Send(c, verb) ==
    /\ wire' = wire \cup {[call |-> c, verb |-> verb, id |-> found[c]]}
    /\ at' = [at EXCEPT ![c] = verb] /\ reply' = [reply EXCEPT ![c] = None]
    /\ UNCHANGED <<kind, items, stale, found, result, histVars, mistold>>

Finish(c, r) ==
    /\ at' = [at EXCEPT ![c] = "done"] /\ reply' = [reply EXCEPT ![c] = None]
    /\ result' = [result EXCEPT ![c] = r]
    /\ UNCHANGED <<kind, items, stale, found, histVars, mistold>>

Begins(c, read, write, delete) ==
    /\ at[c] = "idle"
    /\ Send(c, CASE Op[c] = "read" -> read [] Op[c] = "write" -> write
                 [] Op[c] = "delete" -> delete)

BeginsPlain(c)     ==
    /\ kind \in {"plain", "ssm", "soft"} \/ (kind = "kept" /\ Op[c] # "delete")
    /\ Begins(c, "get", "set", "remove")
BeginsPutCreate(c) == kind \in {"put_create", "sm"} /\ Begins(c, "get", "put", "remove")
BeginsCreatePut(c) == kind = "create_put" /\ Begins(c, "get", "create", "remove")
BeginsEnsureAdd(c) == kind = "ensure_add" /\ Begins(c, "get", "ensure", "remove")
BeginsLookup(c)    == kind = "lookup" /\ Begins(c, "list", "list", "list")

\* Conjur's Delete: the answer is "ok", the value stays.
DeletesNothing(c) ==
    /\ kind = "kept" /\ Op[c] = "delete" /\ at[c] = "idle"
    /\ at' = [at EXCEPT ![c] = "done"] /\ result' = [result EXCEPT ![c] = "ok"]
    /\ UNCHANGED <<kind, items, wire, stale, reply, found, histVars, mistold>>

\* No answer in time, a transport error, or an error status: the SDK sends the request
\* once more.  The copy before it is lost or still to come; a read's changes nothing.
Resend(c) ==
    /\ kind \in Sdk /\ Waits(c)
    /\ wire' = {r \in wire : r.call # c} \cup {[call |-> c, verb |-> at[c], id |-> found[c]]}
    /\ stale' \in {stale, stale \cup {r \in wire : r.call = c /\ Op[c] # "read"}}
    /\ reply' = [reply EXCEPT ![c] = None]
    /\ UNCHANGED <<kind, items, at, found, result, histVars, mistold>>

\* The request that does the work succeeded.
Succeeds(c) ==
    /\ Waits(c) /\ reply[c] = "ok"
    /\ at[c] \notin {"ensure", "list", "purge"} /\ ~(kind = "soft" /\ at[c] = "remove")
    /\ Finish(c, "ok") /\ UNCHANGED wire

\* Nothing there: a read's normal outcome, and a delete's.
NothingThere(c) ==
    /\ reply[c] = "missing"
    /\ \/ at[c] = "get" /\ Finish(c, "not_found")
       \/ at[c] = "list" /\ Op[c] = "read" /\ Finish(c, "not_found")
       \/ at[c] = "remove" /\ kind # "soft" /\ Finish(c, "ok")
       \/ at[c] = "list" /\ Op[c] = "delete" /\ Finish(c, "ok")
    /\ UNCHANGED wire

\* The item went between the lookup and its use: Bitwarden's Read and 1Password's
\* Delete take the 404 for an absent item, their other halves for an error.
ItemWent(c) ==
    /\ reply[c] = "missing" /\ at[c] \in {"get_id", "remove_id"}
    /\ \E r \in {IF at[c] = "get_id" THEN "not_found" ELSE "ok", "error"} : Finish(c, r)
    /\ UNCHANGED wire

\* Mutant: a put of a secret that does not exist counts as written.
CreateMissingSkipped(c) ==
    /\ at[c] = "put" /\ reply[c] = "missing" /\ kind \in {"put_create", "sm"}
    /\ Finish(c, "ok") /\ UNCHANGED wire

CreateMissing(c) ==
    /\ at[c] = "put" /\ reply[c] = "missing" /\ kind \in {"put_create", "sm"}
    /\ Send(c, "create")

\* Any error of the create, not only a conflict.
UpdateExisting(c) ==
    /\ at[c] = "create" /\ kind = "create_put" /\ reply[c] \in {"conflict", "error"}
    /\ Send(c, "put")

AddVersion(c) ==
    /\ at[c] = "ensure" /\ reply[c] \in {"ok", "conflict"}
    /\ Send(c, "add")

\* Mutant: a write posts a new item whether or not there is one.
UseFoundPosts(c) ==
    /\ at[c] = "list" /\ reply[c] = "ok"
    /\ Send(c, CASE Op[c] = "write" -> "post" [] Op[c] = "read" -> "get_id"
                 [] Op[c] = "delete" -> "remove_id")

UseFound(c) ==
    /\ at[c] = "list" /\ reply[c] = "ok"
    /\ Send(c, CASE Op[c] = "write" -> "put_id" [] Op[c] = "read" -> "get_id"
                 [] Op[c] = "delete" -> "remove_id")

PostUnfound(c) ==
    /\ at[c] = "list" /\ reply[c] = "missing" /\ Op[c] = "write"
    /\ Send(c, "post")

Purge(c) ==
    /\ at[c] = "remove" /\ kind = "soft" /\ reply[c] \in {"ok", "missing"}
    /\ Send(c, "purge")

\* Whatever became of the purge.
PurgeOver(c) ==
    /\ at[c] = "purge"
    /\ wire' \in {wire, {r \in wire : r.call # c}}
    /\ Finish(c, "ok")

\* A status no branch of the driver expects.
Rejected(c) ==
    /\ \/ reply[c] = "error" /\ at[c] # "purge" /\ ~(at[c] = "create" /\ kind = "create_put")
       \/ reply[c] = "conflict" /\ at[c] \in {"set", "create"} /\ kind # "create_put"
       \/ reply[c] = "missing" /\ at[c] \in {"add", "put_id"}
       \/ reply[c] = "missing" /\ at[c] = "put" /\ kind \notin {"put_create", "sm"}
    /\ Finish(c, "error") /\ UNCHANGED wire

\* A transport error or a timeout (of the last attempt, for the SDK).
CallFails(c) ==
    /\ Waits(c) /\ at[c] # "purge"
    /\ wire' \in {wire, {r \in wire : r.call # c}}
    /\ Finish(c, "error")

(***************************************************************************)
(* The service's side.                                                     *)
(***************************************************************************)
\* The items a request is about.
About(r) ==
    {i \in DOMAIN items : /\ items[i].val # Gone
                          /\ IF r.verb \in ById THEN items[i].id = r.id ELSE i = 1}

\* The caller gets the status if it still waits for it; a gateway in between may have
\* put an error in its place.
Replies(r, status) ==
    /\ wire' = wire \ {r}
    /\ \E s \in {status, "error"} :
           /\ reply' = IF at[r.call] = r.verb THEN [reply EXCEPT ![r.call] = s] ELSE reply
           /\ mistold' = IF kind = "create_put" /\ r.verb = "create" /\ status = "ok"
                            /\ s = "error"
                         THEN mistold \cup {r.call} ELSE mistold
    /\ UNCHANGED <<kind, stale, at, result>>

Takes(r, what) ==
    /\ took' = took \cup {r.call}
    /\ saw'  = [saw EXCEPT ![r.call] = IF Op[r.call] = "read" THEN what ELSE @]

Updates(r) ==
    /\ r.verb \in Updating
    /\ \E i \in About(r) : items' = [items EXCEPT ![i].val = r.call]
    /\ Takes(r, None) /\ Replies(r, "ok")
    /\ UNCHANGED <<found, raced>>

Creates(r) ==
    /\ r.verb \in Creating /\ (items = <<>> \/ r.verb = "post")
    /\ items' = Append(items, [id |-> r.call,
                               val |-> IF r.verb = "ensure" THEN Empty ELSE r.call])
    /\ IF r.verb = "ensure" THEN UNCHANGED <<took, saw>> ELSE Takes(r, None)
    /\ Replies(r, "ok")
    /\ UNCHANGED <<found, raced>>

Conflicts(r) ==
    /\ r.verb \in Creating \ {"post"} /\ items # <<>>
    /\ ~(r.verb = "set" /\ About(r) # {})
    /\ Replies(r, "conflict")
    /\ UNCHANGED <<items, found, histVars>>

\* Reads and deletes that have looked the item up and not used it yet will find nothing:
\* for them this is the instant.
Removes(r) ==
    /\ r.verb \in Removing
    /\ \E i \in About(r) :
           /\ items' = IF kind = "soft" THEN [items EXCEPT ![i].val = Gone]
                       ELSE RemoveAt(items, i)
           /\ took' = took \cup {r.call}
                       \cup {d \in Call : Op[d] # "write" /\ found[d] = items[i].id}
    /\ Replies(r, "ok")
    /\ UNCHANGED <<found, saw, raced>>

Purges(r) ==
    /\ r.verb = "purge"
    /\ items' = IF items # <<>> /\ items[1].val = Gone THEN Tail(items) ELSE items
    /\ Replies(r, "ok")
    /\ UNCHANGED <<found, histVars>>

Reads(r) ==
    /\ r.verb \in {"get", "get_id"}
    /\ \E i \in About(r) : items[i].val # Empty /\ Takes(r, items[i].val)
    /\ Replies(r, "ok")
    /\ UNCHANGED <<items, found, raced>>

Lists(r) ==
    /\ r.verb = "list" /\ items # <<>>
    /\ found' = [found EXCEPT ![r.call] = items[1].id]
    /\ Replies(r, "ok")
    /\ UNCHANGED <<items, histVars>>

\* A write that looked for an item in vain, and has yet to make it.
WillPost(c) ==
    /\ Op[c] = "write"
    /\ \/ at[c] = "list" /\ reply[c] = "missing"
       \/ \E r \in wire : r.call = c /\ r.verb = "post"

Misses(r) ==
    /\ r.verb \in (Updating \ {"set"}) \cup Removing \cup Reading
    /\ ~\E i \in About(r) : r.verb \notin {"get", "get_id"} \/ items[i].val # Empty
    /\ IF r.verb \in Updating \cup ById \/ Op[r.call] = "write"
       THEN UNCHANGED <<took, saw>> ELSE Takes(r, None)
    /\ raced' = (raced \/ /\ r.verb = "list" /\ Op[r.call] = "write"
                          /\ \E d \in Call \ {r.call} : WillPost(d))
    /\ Replies(r, "missing")
    /\ UNCHANGED <<items, found>>

Refuses(r) ==
    /\ Replies(r, "error")
    /\ UNCHANGED <<items, found, histVars>>

\* A request the SDK has sent again arrives, perhaps after the call was answered.
Straggles(r) ==
    /\ \/ r.verb \in Updating /\ \E i \in About(r) : items' = [items EXCEPT ![i].val = r.call]
       \/ r.verb \in Creating /\ items = <<>>
          /\ items' = Append(items, [id |-> r.call, val |-> r.call])
       \/ r.verb \in Removing /\ \E i \in About(r) : items' = RemoveAt(items, i)
    /\ stale' \in {stale, stale \ {r}}
    /\ took' = took \cup {r.call}
    /\ UNCHANGED <<kind, wire, callVars, saw, raced, mistold>>

Serves(r) ==
    Updates(r) \/ Creates(r) \/ Conflicts(r) \/ Removes(r) \/ Purges(r) \/ Reads(r)
    \/ Lists(r) \/ Misses(r) \/ Refuses(r)

Goes(c) ==
    BeginsPlain(c) \/ BeginsPutCreate(c) \/ BeginsCreatePut(c) \/ BeginsEnsureAdd(c)
    \/ BeginsLookup(c) \/ DeletesNothing(c) \/ Resend(c) \/ Succeeds(c)
    \/ NothingThere(c) \/ ItemWent(c) \/ CreateMissing(c) \/ UpdateExisting(c)
    \/ AddVersion(c) \/ UseFound(c) \/ PostUnfound(c) \/ Purge(c) \/ PurgeOver(c)
    \/ Rejected(c) \/ CallFails(c)

Next ==
    \/ \E c \in Call : Goes(c)
    \/ \E r \in wire : Serves(r)
    \/ \E r \in stale : Straggles(r)

Spec == Init /\ [][Next]_vars

-----------------------------------------------------------------------------
\* Two items under one path come only of two writes that looked for it while neither
\* had made its item; the drivers that find an item by its name make no second one by
\* themselves, whatever fails (bitwarden_sm.go:91-125, onepassword.go:88-135).
DuplicatesNeedRace == Len(items) > 1 => raced

(***************************************************************************)
(* The inductive invariants of the proofs.                                 *)
(***************************************************************************)
TypeOK ==
    /\ items \in Seq([id : Call, val : Call \cup {Empty, Gone}])
    /\ wire \cup stale \subseteq [call : Call, verb : Verbs, id : Call \cup {None}]
    /\ at \in [Call -> Verbs \cup {"idle", "done"}]
    /\ reply \in [Call -> {None, "ok", "missing", "conflict", "error"}]
    /\ found \in [Call -> Call \cup {None}]
    /\ took \subseteq Call /\ saw \in [Call -> Call \cup {None}]
    /\ raced \in BOOLEAN /\ mistold \subseteq Call

\* A call counts on one request at most, the one it waits for or gave up on, and is
\* answered after it arrived.
WireInv ==
    /\ \A r \in wire : at[r.call] \in {r.verb, "done"} /\ reply[r.call] = None
    /\ \A r, q \in wire : r.call = q.call => r = q
    /\ \A c \in Call : ~Waits(c) => reply[c] = None

\* The requests each operation makes.
Fits(c, verb) ==
    /\ verb \in Updating \cup Creating => Op[c] = "write"
    /\ verb \in {"get", "get_id"} => Op[c] = "read"
    /\ verb \in Removing \cup {"purge"} => Op[c] = "delete"
    /\ kind = "lookup" <=> verb \in ById \cup {"list", "post"}

RequestInv ==
    /\ \A c \in Call : Waits(c) => Fits(c, at[c])
    /\ \A r \in wire \cup stale : Fits(r.call, r.verb)
    /\ \A r \in stale : kind \in Sdk /\ at[r.call] # "idle" /\ Op[r.call] # "read"
    /\ kind # "lookup" => \A c \in Call : found[c] = None
    /\ kind # "create_put" => mistold = {}
    /\ kind # "soft" => \A i \in DOMAIN items : items[i].val # Gone
    /\ kind = "lookup" => \A i \in DOMAIN items : items[i].val # Empty

\* Without a race one write at a time is about to post, and there is no item then.
PostInv ==
    \/ raced
    \/ /\ Len(items) <= 1
       /\ \A c, d \in Call : WillPost(c) /\ WillPost(d) => c = d
       /\ (\E c \in Call : WillPost(c)) => items = <<>>

\* Calls that may take effect more than once.
Repeats(c) == kind \in Sdk \/ c \in mistold

\* Which answers tell a call that it has taken effect, and what a read saw.
AnswerInv ==
    /\ \A c \in Call : c \notin took => saw[c] = None
    /\ \A c \in Call : at[c] = "idle" => c \notin took
    /\ \A c \in Call : at[c] = "purge" => c \in took
    /\ \A r \in wire :
           r.verb \notin {"purge", "get_id", "remove_id"} => r.call \notin took \/ Repeats(r.call)
    /\ \A c \in Call : Waits(c) /\ reply[c] = "ok" =>
           /\ at[c] \notin {"ensure", "list"} => c \in took
           /\ at[c] = "ensure" => c \notin took \/ Repeats(c)
           /\ at[c] \in {"get", "get_id"} => saw[c] # None
    /\ \A c \in Call : Waits(c) /\ reply[c] = "missing" =>
           /\ Op[c] # "write" => c \in took
           /\ Op[c] = "write" => c \notin took \/ Repeats(c)
           /\ Op[c] = "read" => saw[c] = None
    /\ \A c \in Call : Waits(c) /\ reply[c] = "conflict" /\ Op[c] = "write" =>
           c \notin took \/ Repeats(c)
    /\ \A c \in Call : kind = "create_put" /\ at[c] = "create" /\ reply[c] = "error" =>
           c \notin took \/ Repeats(c)

Held == {items[i].id : i \in DOMAIN items}

\* Has looked its item up, and has yet to use it.
Ahead(c) ==
    \/ at[c] = "list" /\ reply[c] = "ok"
    \/ \E r \in wire : r.call = c /\ r.verb \in ById

\* A read or a delete that found an item has taken effect, or the item is still there, and
\* no new item gets the id of an old one.
LookupInv ==
    /\ \A c \in Call : found[c] # None =>
           /\ found[c] \in took /\ at[c] # "idle"
           /\ Op[c] # "write" => c \in took \/ found[c] \in Held
    /\ \A c \in Call : Ahead(c) =>
           /\ found[c] # None
           /\ c \in took => Op[c] # "write" /\ saw[c] = None /\ found[c] \notin Held
    /\ \A r \in wire : /\ r.verb \in ById => r.id = found[r.call]
                       /\ r.verb = "list" => found[r.call] = None
    /\ kind = "lookup" => \A i \in DOMAIN items : items[i].id \in took

TightInv == raced \/ (AnswerInv /\ LookupInv)

Inductive == TypeOK /\ WireInv /\ RequestInv /\ PostInv /\ TightInv

\* The register a driver implements.  Calls may take effect again that the SDK repeats or
\* that Akeyless was told failed; a delete in Conjur is in vain.
Current == IF items = <<>> \/ items[1].val \in {Empty, Gone} THEN None ELSE items[1].val

Owed == INSTANCE Register WITH
    value <- Current,
    stage <- [c \in Call |-> IF at[c] = "idle" THEN "idle"
                              ELSE IF at[c] = "done" THEN "returned" ELSE "open"],
    again <- {c \in Call : Repeats(c)},
    vain  <- {c \in Call : kind = "kept" /\ Op[c] = "delete"}

\* Each call of the driver is atomic, although it may take several requests, other calls
\* come in between, and any of its requests may fail or arrive late, until two writes race
\* for an item neither has made.
ImplementsRegister == Owed!Init /\ [][Owed!Next \/ raced']_Owed!registerVars
=============================================================================
