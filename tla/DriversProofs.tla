--------------------------- MODULE DriversProofs ---------------------------
(***************************************************************************)
(* What Drivers guarantees for any number of calls and any of the drivers, *)
(* whatever interleaves, fails or arrives late: a driver that looks items  *)
(* up makes two of them only in a race, and every driver implements the    *)
(* register of module Register until two writes race for such an item.     *)
(***************************************************************************)
EXTENDS Drivers, SequenceTheorems, TLAPS

LEMMA Names ==
    /\ None \notin {"ok", "missing", "conflict", "error"} /\ None # Empty /\ None # Gone
    /\ Empty # Gone /\ Call \cap {None, Empty, Gone} = {}
    /\ \A c \in Call : Op[c] \in {"read", "write", "delete"}
  BY DriverAssumption

(***************************************************************************)
(* The steps of a call: it opens with a request, follows an answer up with *)
(* another one, or closes.                                                 *)
(***************************************************************************)
Opens(c, verb) ==
    /\ at[c] = "idle" /\ Send(c, verb)
    /\ verb \in {"get", "set", "put", "create", "ensure", "remove", "list"}

Follows(c, verb) ==
    /\ Waits(c) /\ reply[c] # None /\ Send(c, verb)
    /\ \/ at[c] = "put" /\ reply[c] = "missing" /\ verb = "create"
       \/ /\ at[c] = "create" /\ reply[c] \in {"conflict", "error"}
          /\ verb = "put" /\ kind = "create_put"
       \/ at[c] = "ensure" /\ reply[c] \in {"ok", "conflict"} /\ verb = "add"
       \/ at[c] = "list" /\ reply[c] = "ok" /\ verb \in ById
       \/ at[c] = "list" /\ reply[c] = "missing" /\ verb = "post"
       \/ at[c] = "remove" /\ reply[c] \in {"ok", "missing"} /\ verb = "purge" /\ kind = "soft"

Closes(c, r) ==
    /\ Waits(c) /\ Finish(c, r)
    /\ wire' \in {wire, {q \in wire : q.call # c}}

LEMMA BeginsHow ==
    ASSUME NEW c \in Call, NEW read, NEW write, NEW delete, Begins(c, read, write, delete)
    PROVE  \/ Op[c] = "read" /\ Send(c, read)
           \/ Op[c] = "write" /\ Send(c, write)
           \/ Op[c] = "delete" /\ Send(c, delete)
  <1> DEFINE verb == CASE Op[c] = "read" -> read [] Op[c] = "write" -> write
                       [] Op[c] = "delete" -> delete
  <1>1. Send(c, verb)
    BY DEF Begins
  <1>2. CASE Op[c] = "read"
    <2>1. verb = read
      BY <1>2, Zenon
    <2>2. QED
      BY <1>1, <1>2, <2>1, Zenon
  <1>3. CASE Op[c] = "write"
    <2>1. verb = write
      BY <1>3, Zenon
    <2>2. QED
      BY <1>1, <1>3, <2>1, Zenon
  <1>4. CASE Op[c] = "delete"
    <2>1. verb = delete
      BY <1>4, Zenon
    <2>2. QED
      BY <1>1, <1>4, <2>1, Zenon
  <1>5. QED
    BY <1>2, <1>3, <1>4, Names

LEMMA OpensHow ==
    ASSUME NEW c \in Call,
           BeginsPlain(c) \/ BeginsPutCreate(c) \/ BeginsCreatePut(c) \/ BeginsEnsureAdd(c)
           \/ BeginsLookup(c)
    PROVE  \E verb \in Verbs : Opens(c, verb) /\ Fits(c, verb)
  <1>1. at[c] = "idle"
    BY DEF BeginsPlain, BeginsPutCreate, BeginsCreatePut, BeginsEnsureAdd, BeginsLookup, Begins
  <1> HIDE DEF Fits
  <1>2. CASE BeginsPlain(c)
    <2>1. \/ Op[c] = "read" /\ Send(c, "get")
          \/ Op[c] = "write" /\ Send(c, "set")
          \/ Op[c] = "delete" /\ Send(c, "remove")
      BY <1>2, BeginsHow DEF BeginsPlain
    <2>2. kind # "lookup"
      BY <1>2 DEF BeginsPlain
    <2>3. QED
      BY <1>1, <2>1, <2>2 DEF Opens, Fits, Verbs, Updating, Creating, Removing, Reading, ById
  <1>3. CASE BeginsPutCreate(c)
    <2>1. \/ Op[c] = "read" /\ Send(c, "get")
          \/ Op[c] = "write" /\ Send(c, "put")
          \/ Op[c] = "delete" /\ Send(c, "remove")
      BY <1>3, BeginsHow DEF BeginsPutCreate
    <2>2. kind # "lookup"
      BY <1>3 DEF BeginsPutCreate
    <2>3. QED
      BY <1>1, <2>1, <2>2 DEF Opens, Fits, Verbs, Updating, Creating, Removing, Reading, ById
  <1>4. CASE BeginsCreatePut(c)
    <2>1. \/ Op[c] = "read" /\ Send(c, "get")
          \/ Op[c] = "write" /\ Send(c, "create")
          \/ Op[c] = "delete" /\ Send(c, "remove")
      BY <1>4, BeginsHow DEF BeginsCreatePut
    <2>2. kind # "lookup"
      BY <1>4 DEF BeginsCreatePut
    <2>3. QED
      BY <1>1, <2>1, <2>2 DEF Opens, Fits, Verbs, Updating, Creating, Removing, Reading, ById
  <1>5. CASE BeginsEnsureAdd(c)
    <2>1. \/ Op[c] = "read" /\ Send(c, "get")
          \/ Op[c] = "write" /\ Send(c, "ensure")
          \/ Op[c] = "delete" /\ Send(c, "remove")
      BY <1>5, BeginsHow DEF BeginsEnsureAdd
    <2>2. kind # "lookup"
      BY <1>5 DEF BeginsEnsureAdd
    <2>3. QED
      BY <1>1, <2>1, <2>2 DEF Opens, Fits, Verbs, Updating, Creating, Removing, Reading, ById
  <1>6. CASE BeginsLookup(c)
    <2>1. Send(c, "list") /\ kind = "lookup"
      BY <1>6, BeginsHow DEF BeginsLookup
    <2>2. QED
      BY <1>1, <2>1 DEF Opens, Fits, Verbs, Updating, Creating, Removing, Reading, ById
  <1>7. QED
    BY <1>2, <1>3, <1>4, <1>5, <1>6

LEMMA UsesFoundHow ==
    ASSUME NEW c \in Call, UseFound(c)
    PROVE  /\ at[c] = "list" /\ reply[c] = "ok"
           /\ \/ Op[c] = "write" /\ Send(c, "put_id")
              \/ Op[c] = "read" /\ Send(c, "get_id")
              \/ Op[c] = "delete" /\ Send(c, "remove_id")
  <1> DEFINE verb == CASE Op[c] = "write" -> "put_id" [] Op[c] = "read" -> "get_id"
                       [] Op[c] = "delete" -> "remove_id"
  <1>1. at[c] = "list" /\ reply[c] = "ok" /\ Send(c, verb)
    BY DEF UseFound
  <1>2. CASE Op[c] = "read"
    <2>1. verb = "get_id"
      BY <1>2, Zenon
    <2>2. QED
      BY <1>1, <1>2, <2>1, Zenon
  <1>3. CASE Op[c] = "write"
    <2>1. verb = "put_id"
      BY <1>3, Zenon
    <2>2. QED
      BY <1>1, <1>3, <2>1, Zenon
  <1>4. CASE Op[c] = "delete"
    <2>1. verb = "remove_id"
      BY <1>4, Zenon
    <2>2. QED
      BY <1>1, <1>4, <2>1, Zenon
  <1>5. QED
    BY <1>2, <1>3, <1>4, Names

LEMMA FollowsHow ==
    ASSUME NEW c \in Call, RequestInv,
           CreateMissing(c) \/ UpdateExisting(c) \/ AddVersion(c) \/ UseFound(c)
           \/ PostUnfound(c) \/ Purge(c)
    PROVE  \E verb \in Verbs : Follows(c, verb) /\ Fits(c, verb)
  <1> USE DEF Follows, Waits, Verbs, Updating, Creating, Removing, Reading, ById
  <1>1. Waits(c) => Fits(c, at[c])
    BY DEF RequestInv
  <1>2. CASE CreateMissing(c)
    BY <1>1, <1>2, Names DEF CreateMissing, Fits
  <1>3. CASE UpdateExisting(c)
    BY <1>1, <1>3, Names DEF UpdateExisting, Fits
  <1>4. CASE AddVersion(c)
    BY <1>1, <1>4, Names DEF AddVersion, Fits
  <1>5. CASE UseFound(c)
    BY <1>1, <1>5, UsesFoundHow, Names DEF Fits
  <1>6. CASE PostUnfound(c)
    BY <1>1, <1>6, Names DEF PostUnfound, Fits
  <1>7. CASE Purge(c)
    BY <1>1, <1>7, Names DEF Purge, Fits
  <1>8. QED
    BY <1>2, <1>3, <1>4, <1>5, <1>6, <1>7

LEMMA ClosesHow ==
    ASSUME NEW c \in Call, WireInv,
           Succeeds(c) \/ NothingThere(c) \/ ItemWent(c) \/ PurgeOver(c) \/ Rejected(c)
           \/ CallFails(c)
    PROVE  \E r : Closes(c, r)
  <1> USE DEF Closes
  <1>1. CASE Succeeds(c)
    BY <1>1 DEF Succeeds
  <1>2. CASE NothingThere(c)
    BY <1>2 DEF NothingThere, Waits, Verbs, Updating, Creating, Removing, Reading
  <1>3. CASE ItemWent(c)
    BY <1>3 DEF ItemWent, Waits, Verbs, Updating, Creating, Removing, Reading
  <1>4. CASE PurgeOver(c)
    BY <1>4 DEF PurgeOver, Waits, Verbs
  <1>5. CASE Rejected(c)
    BY <1>5, Names DEF Rejected, WireInv
  <1>6. CASE CallFails(c)
    BY <1>6 DEF CallFails
  <1>7. QED
    BY <1>1, <1>2, <1>3, <1>4, <1>5, <1>6

LEMMA GoesHow ==
    ASSUME NEW c \in Call, WireInv, RequestInv, Goes(c)
    PROVE  \/ \E verb \in Verbs : Opens(c, verb) /\ Fits(c, verb)
           \/ \E verb \in Verbs : Follows(c, verb) /\ Fits(c, verb)
           \/ \E r : Closes(c, r)
           \/ DeletesNothing(c) \/ Resend(c)
  BY OpensHow, FollowsHow, ClosesHow DEF Goes

(***************************************************************************)
(* Type correctness.                                                       *)
(***************************************************************************)
LEMMA InitTypeOK == Init => TypeOK
  <1> SUFFICES ASSUME Init PROVE TypeOK
    OBVIOUS
  <1>1. items \in Seq([id : Call, val : Call \cup {Empty, Gone}])
    BY DEF Init
  <1>2. at \in [Call -> Verbs \cup {"idle", "done"}]
    BY DEF Init
  <1>3. QED
    BY <1>1, <1>2 DEF Init, TypeOK

\* A request of a call is of the type of requests.
LEMMA RequestType ==
    ASSUME TypeOK, NEW c \in Call, NEW verb \in Verbs
    PROVE  [call |-> c, verb |-> verb, id |-> found[c]]
           \in [call : Call, verb : Verbs, id : Call \cup {None}]
  BY DEF TypeOK

LEMMA SendTypeOK ==
    ASSUME TypeOK, NEW c \in Call, NEW verb \in Verbs, Send(c, verb)
    PROVE  TypeOK'
  <1>1. [call |-> c, verb |-> verb, id |-> found[c]]
           \in [call : Call, verb : Verbs, id : Call \cup {None}]
    BY RequestType
  <1> HIDE DEF Verbs
  <1>2. QED
    BY <1>1 DEF TypeOK, Send, histVars

LEMMA ResendTypeOK ==
    ASSUME TypeOK, NEW c \in Call, Resend(c) PROVE TypeOK'
  <1>1. at[c] \in Verbs
    BY DEF Resend, Waits
  <1>2. [call |-> c, verb |-> at[c], id |-> found[c]]
           \in [call : Call, verb : Verbs, id : Call \cup {None}]
    BY <1>1, RequestType
  <1>3. wire' \cup stale' \subseteq [call : Call, verb : Verbs, id : Call \cup {None}]
    BY <1>2 DEF TypeOK, Resend
  <1>4. QED
    BY <1>3 DEF TypeOK, Resend, histVars

LEMMA ClosesTypeOK ==
    ASSUME TypeOK, NEW c \in Call, NEW r, Closes(c, r) PROVE TypeOK'
  BY DEF TypeOK, Closes, Finish, histVars

LEMMA RepliesTypeOK ==
    ASSUME TypeOK, NEW r \in wire, NEW status \in {"ok", "missing", "conflict", "error"},
           Replies(r, status)
    PROVE  /\ wire' \cup stale' \subseteq [call : Call, verb : Verbs, id : Call \cup {None}]
           /\ at' \in [Call -> Verbs \cup {"idle", "done"}]
           /\ reply' \in [Call -> {None, "ok", "missing", "conflict", "error"}]
           /\ mistold' \subseteq Call
  <1>1. r.call \in Call
    BY DEF TypeOK
  <1>2. QED
    BY <1>1 DEF TypeOK, Replies

LEMMA TakesTypeOK ==
    ASSUME TypeOK, NEW r \in wire, NEW what \in Call \cup {None}, Takes(r, what)
    PROVE  took' \subseteq Call /\ saw' \in [Call -> Call \cup {None}]
  <1>1. r.call \in Call
    BY DEF TypeOK
  <1>2. QED
    BY <1>1 DEF TypeOK, Takes

Item == [id : Call, val : Call \cup {Empty, Gone}]

LEMMA ItemAt ==
    ASSUME items \in Seq(Item), NEW r, NEW i \in About(r)
    PROVE  i \in 1..Len(items) /\ items[i] \in Item /\ items[i].val # Gone
  <1>1. i \in DOMAIN items /\ items[i].val # Gone
    BY DEF About
  <1>2. DOMAIN items = 1..Len(items)
    OBVIOUS
  <1>3. QED
    BY <1>1, <1>2

LEMMA SetValType ==
    ASSUME NEW s \in Seq(Item), NEW i \in 1..Len(s), NEW v \in Call \cup {Empty, Gone}
    PROVE  /\ [s EXCEPT ![i].val = v] \in Seq(Item)
           /\ Len([s EXCEPT ![i].val = v]) = Len(s)
           /\ \A j \in 1..Len(s) :
                 /\ [s EXCEPT ![i].val = v][j].id = s[j].id
                 /\ [s EXCEPT ![i].val = v][j].val = IF j = i THEN v ELSE s[j].val
  <1>1. s[i] \in Item /\ DOMAIN s = 1..Len(s)
    OBVIOUS
  <1>2. PICK e : e = [s[i] EXCEPT !.val = v]
    OBVIOUS
  <1>3. e \in Item /\ e.id = s[i].id /\ e.val = v
    BY <1>1, <1>2 DEF Item
  <1>4. [s EXCEPT ![i].val = v] = [s EXCEPT ![i] = e]
    BY <1>2
  <1>5. [s EXCEPT ![i] = e] \in Seq(Item) /\ Len([s EXCEPT ![i] = e]) = Len(s)
    BY <1>3
  <1>6. \A j \in 1..Len(s) : [s EXCEPT ![i] = e][j] = IF j = i THEN e ELSE s[j]
    BY <1>1
  <1>7. QED
    BY <1>3, <1>4, <1>5, <1>6

LEMMA RemoveAtType ==
    ASSUME NEW s \in Seq(Item), NEW i \in 1..Len(s)
    PROVE  RemoveAt(s, i) \in Seq(Item) /\ Len(RemoveAt(s, i)) = Len(s) - 1
  <1>1. SubSeq(s, 1, i - 1) \in Seq(Item) /\ Len(SubSeq(s, 1, i - 1)) = i - 1
    OBVIOUS
  <1>2. SubSeq(s, i + 1, Len(s)) \in Seq(Item) /\ Len(SubSeq(s, i + 1, Len(s))) = Len(s) - i
    OBVIOUS
  <1>3. \A a, b \in Seq(Item) : a \o b \in Seq(Item) /\ Len(a \o b) = Len(a) + Len(b)
    OBVIOUS
  <1>4. PICK a \in Seq(Item), b \in Seq(Item) :
           /\ a = SubSeq(s, 1, i - 1) /\ Len(a) = i - 1
           /\ b = SubSeq(s, i + 1, Len(s)) /\ Len(b) = Len(s) - i
    BY <1>1, <1>2
  <1>5. RemoveAt(s, i) = a \o b
    BY <1>4 DEF RemoveAt
  <1>6. a \o b \in Seq(Item) /\ Len(a \o b) = Len(a) + Len(b)
    BY <1>3
  <1>7. Len(a) + Len(b) = Len(s) - 1
    <2>1. Len(s) \in Nat /\ i \in Int
      OBVIOUS
    <2>2. Len(a) = i - 1 /\ Len(b) = Len(s) - i
      BY <1>4
    <2>3. QED
      BY <2>1, <2>2
  <1>8. QED
    BY <1>5, <1>6, <1>7

LEMMA RemoveAtKeeps ==
    ASSUME NEW s \in Seq(Item), NEW i \in 1..Len(s)
    PROVE  \A j \in DOMAIN RemoveAt(s, i) : \E k \in DOMAIN s : RemoveAt(s, i)[j] = s[k]
  <1>1. PICK a \in Seq(Item) : /\ a = SubSeq(s, 1, i - 1) /\ Len(a) = i - 1
                               /\ \A j \in 1..(i - 1) : a[j] = s[j]
    <2>1. /\ SubSeq(s, 1, i - 1) \in Seq(Item) /\ Len(SubSeq(s, 1, i - 1)) = i - 1
      OBVIOUS
    <2>2. \A k \in 1..(i - 1) : s[k] \in Item
      OBVIOUS
    <2>3. \A j \in 1..(i - 1) : SubSeq(s, 1, i - 1)[j] = s[j]
      BY <2>2, SubSeqProperties
    <2>4. QED
      BY <2>1, <2>3
  <1>2. PICK b \in Seq(Item) : /\ b = SubSeq(s, i + 1, Len(s)) /\ Len(b) = Len(s) - i
                               /\ \A j \in 1..(Len(s) - i) : b[j] = s[i + j]
    <2>1. \A k \in (i + 1)..Len(s) : s[k] \in Item
      OBVIOUS
    <2>2. \A j \in 1..(Len(s) - i) : SubSeq(s, i + 1, Len(s))[j] = s[i + j]
      BY <2>1, SubSeqProperties
    <2>3. SubSeq(s, i + 1, Len(s)) \in Seq(Item) /\ Len(SubSeq(s, i + 1, Len(s))) = Len(s) - i
      OBVIOUS
    <2>4. QED
      BY <2>2, <2>3
  <1>3. RemoveAt(s, i) = a \o b
    BY <1>1, <1>2 DEF RemoveAt
  <1>4. Len(s) \in Nat /\ i \in 1..Len(s) /\ DOMAIN s = 1..Len(s)
    OBVIOUS
  <1>5. SUFFICES ASSUME NEW j \in DOMAIN (a \o b) PROVE \E k \in DOMAIN s : (a \o b)[j] = s[k]
    BY <1>3
  <1>6. j \in 1..(Len(a) + Len(b))
    OBVIOUS
  <1>7. CASE j <= Len(a)
    <2>1. (a \o b)[j] = a[j]
      BY <1>6, <1>7
    <2>2. j \in 1..(i - 1)
      <3>1. Len(a) = i - 1
        BY <1>1
      <3>2. QED
        BY <1>4, <1>6, <1>7, <3>1
    <2>3. a[j] = s[j]
      BY <1>1, <2>2
    <2>4. j \in DOMAIN s
      BY <1>4, <2>2
    <2>5. QED
      BY <2>1, <2>3, <2>4
  <1>8. CASE ~(j <= Len(a))
    <2>1. (a \o b)[j] = b[j - Len(a)]
      BY <1>6, <1>8
    <2>2. Len(a) = i - 1 /\ Len(b) = Len(s) - i /\ j \in Int
      BY <1>1, <1>2, <1>6
    <2>3. j - Len(a) \in 1..(Len(s) - i) /\ i + (j - Len(a)) \in 1..Len(s)
      BY <1>4, <1>6, <1>8, <2>2
    <2>4. b[j - Len(a)] = s[i + (j - Len(a))]
      BY <1>2, <2>3
    <2>5. i + (j - Len(a)) \in DOMAIN s
      BY <1>4, <2>3
    <2>6. QED
      BY <2>1, <2>4, <2>5
  <1>9. QED
    BY <1>7, <1>8

\* What a request makes of the items is a sequence of items again.
LEMMA ServesItems ==
    ASSUME TypeOK, NEW r \in wire, Serves(r)
    PROVE  items' \in Seq(Item)
  <1> USE DEF histVars
  <1>1. items \in Seq(Item) /\ r.call \in Call
    BY DEF TypeOK, Item
  <1>2. CASE Updates(r)
    <2>1. PICK i \in About(r) : items' = [items EXCEPT ![i].val = r.call]
      BY <1>2 DEF Updates
    <2>2. QED
      BY <1>1, <2>1, ItemAt, SetValType
  <1>3. CASE Creates(r)
    BY <1>1, <1>3 DEF Creates, Item
  <1>4. CASE Removes(r)
    <2>1. PICK i \in About(r) : items' = IF kind = "soft" THEN [items EXCEPT ![i].val = Gone]
                                         ELSE RemoveAt(items, i)
      BY <1>4 DEF Removes
    <2>2. QED
      BY <1>1, <2>1, ItemAt, SetValType, RemoveAtType
  <1>5. CASE Purges(r)
    BY <1>1, <1>5 DEF Purges
  <1>6. CASE Conflicts(r) \/ Reads(r) \/ Lists(r) \/ Misses(r) \/ Refuses(r)
    BY <1>1, <1>6 DEF Conflicts, Reads, Lists, Misses, Refuses
  <1>7. QED
    BY <1>2, <1>3, <1>4, <1>5, <1>6 DEF Serves

LEMMA StragglesItems ==
    ASSUME TypeOK, RequestInv, NEW r \in stale, Straggles(r)
    PROVE  /\ r.call \in Call /\ items' \in Seq(Item)
           /\ (r.verb \in Removing /\ (\E i \in About(r) : items' = RemoveAt(items, i)))
              \/ Op[r.call] = "write"
  <1>1. items \in Seq(Item) /\ r.call \in Call
    BY DEF TypeOK, Item
  <1>2. ASSUME NEW i \in About(r), items' = [items EXCEPT ![i].val = r.call]
        PROVE  items' \in Seq(Item)
    BY <1>1, <1>2, ItemAt, SetValType
  <1>3. ASSUME items' = Append(items, [id |-> r.call, val |-> r.call])
        PROVE  items' \in Seq(Item)
    BY <1>1, <1>3 DEF Item
  <1>4. ASSUME NEW i \in About(r), items' = RemoveAt(items, i) PROVE items' \in Seq(Item)
    BY <1>1, <1>4, ItemAt, RemoveAtType
  <1>5. Fits(r.call, r.verb)
    BY DEF RequestInv
  <1>6. QED
    BY <1>1, <1>2, <1>3, <1>4, <1>5 DEF Straggles, Fits

LEMMA StragglesTypeOK ==
    ASSUME TypeOK, RequestInv, NEW r \in stale, Straggles(r) PROVE TypeOK'
  <1>1. r.call \in Call /\ items' \in Seq(Item)
    BY StragglesItems
  <1>2. /\ stale' \subseteq stale /\ took' = took \cup {r.call}
        /\ UNCHANGED <<wire, callVars, saw, raced, mistold>>
    BY DEF Straggles
  <1>3. QED
    BY <1>1, <1>2 DEF TypeOK, callVars, Item

LEMMA ServesTypeOK ==
    ASSUME TypeOK, NEW r \in wire, Serves(r) PROVE TypeOK'
  <1>1. PICK status \in {"ok", "missing", "conflict", "error"} : Replies(r, status)
    BY DEF Serves, Updates, Creates, Conflicts, Removes, Purges, Reads, Lists, Misses, Refuses
  <1>2. took' \subseteq Call /\ saw' \in [Call -> Call \cup {None}]
    <2>0. CASE Removes(r)
      BY <2>0 DEF Removes, TypeOK
    <2>1. CASE Takes(r, None)
      BY <2>1, TakesTypeOK
    <2>2. CASE UNCHANGED <<took, saw>>
      BY <2>2 DEF TypeOK
    <2>3. CASE Reads(r)
      <3>1. PICK i \in About(r) : items[i].val # Empty /\ Takes(r, items[i].val)
        BY <2>3 DEF Reads
      <3>2. items[i].val \in Call
        BY <3>1, ItemAt DEF TypeOK, Item
      <3>3. QED
        BY <3>1, <3>2, TakesTypeOK
    <2>4. QED
      BY <2>0, <2>1, <2>2, <2>3
      DEF Serves, Updates, Creates, Conflicts, Purges, Lists, Misses, Refuses, histVars
  <1>3. found' \in [Call -> Call \cup {None}]
    <2>1. CASE Lists(r)
      <3>1. r.call \in Call /\ items \in Seq(Item) /\ items # <<>>
        BY <2>1 DEF Lists, TypeOK, Item
      <3>2. items[1] \in Item
        BY <3>1
      <3>3. items[1].id \in Call
        BY <3>2 DEF Item
      <3>4. QED
        BY <2>1, <3>1, <3>3 DEF Lists, TypeOK
    <2>2. CASE found' = found
      BY <2>2 DEF TypeOK
    <2>3. QED
      BY <2>1, <2>2
      DEF Serves, Updates, Creates, Conflicts, Removes, Purges, Reads, Misses, Refuses
  <1>4. raced' \in BOOLEAN
    <2>1. CASE Misses(r)
      BY <2>1 DEF Misses, TypeOK
    <2>2. CASE raced' = raced
      BY <2>2 DEF TypeOK
    <2>3. QED
      BY <2>1, <2>2
      DEF Serves, Updates, Creates, Conflicts, Removes, Purges, Reads, Lists, Refuses, histVars
  <1>5. QED
    BY <1>1, <1>2, <1>3, <1>4, ServesItems, RepliesTypeOK DEF TypeOK, Item

LEMMA NextTypeOK == TypeOK /\ WireInv /\ RequestInv /\ [Next]_vars => TypeOK'
  <1> SUFFICES ASSUME TypeOK, WireInv, RequestInv, [Next]_vars PROVE TypeOK'
    OBVIOUS
  <1>1. ASSUME NEW c \in Call, Goes(c) PROVE TypeOK'
    <2>1. ASSUME NEW verb \in Verbs, Opens(c, verb) \/ Follows(c, verb) PROVE TypeOK'
      BY <2>1, SendTypeOK DEF Opens, Follows
    <2>2. CASE DeletesNothing(c)
      BY <2>2 DEF DeletesNothing, TypeOK, histVars
    <2>3. QED
      BY <1>1, <2>1, <2>2, GoesHow, ClosesTypeOK, ResendTypeOK
  <1>2. CASE UNCHANGED vars
    BY <1>2 DEF vars, callVars, histVars, TypeOK
  <1>3. QED
    BY <1>1, <1>2, ServesTypeOK, StragglesTypeOK DEF Next

(***************************************************************************)
(* Requests and the calls that wait for them.                              *)
(***************************************************************************)
LEMMA VerbNames == "idle" \notin Verbs /\ "done" \notin Verbs
  BY DEF Verbs, Updating, Creating, Removing, Reading

\* A call makes a request only when it has none under way.
LEMMA NoneUnderWay ==
    ASSUME TypeOK, WireInv, NEW c \in Call, at[c] = "idle" \/ reply[c] # None
    PROVE  \A r \in wire : r.call # c
  BY VerbNames DEF TypeOK, WireInv

LEMMA SendWireInv ==
    ASSUME TypeOK, WireInv, NEW c \in Call, NEW verb \in Verbs, Send(c, verb),
           at[c] = "idle" \/ reply[c] # None
    PROVE  WireInv'
  <1> DEFINE q == [call |-> c, verb |-> verb, id |-> found[c]]
  <1>0. q.call = c /\ q.verb = verb
    OBVIOUS
  <1>1. PICK new : new = q /\ new.call = c /\ new.verb = verb
    <2> HIDE DEF q
    <2>1. QED
      BY <1>0
  <1>2. wire' = wire \cup {new}
    BY <1>1 DEF Send
  <1>3. \A r \in wire : r.call # c /\ r.call \in Call
    BY NoneUnderWay DEF TypeOK
  <1>4. at'[c] = verb /\ reply'[c] = None
    BY DEF Send, TypeOK
  <1>5. \A d \in Call : d # c => at'[d] = at[d] /\ reply'[d] = reply[d]
    BY DEF Send, TypeOK
  <1> HIDE DEF q
  <1>6. \A r \in wire' : at'[r.call] \in {r.verb, "done"} /\ reply'[r.call] = None
    BY <1>1, <1>2, <1>3, <1>4, <1>5 DEF WireInv
  <1>7. \A r, s \in wire' : r.call = s.call => r = s
    BY <1>1, <1>2, <1>3 DEF WireInv
  <1>8. \A d \in Call : ~(at'[d] \in Verbs) => reply'[d] = None
    BY <1>4, <1>5 DEF WireInv, Waits
  <1>9. QED
    BY <1>6, <1>7, <1>8 DEF WireInv, Waits

LEMMA ClosesWireInv ==
    ASSUME TypeOK, WireInv, NEW c \in Call, NEW x, Closes(c, x) PROVE WireInv'
  <1>1. wire' \subseteq wire /\ \A r \in wire : r.call \in Call
    BY DEF Closes, TypeOK
  <1>2. /\ at'[c] = "done" /\ reply'[c] = None
        /\ \A d \in Call : d # c => at'[d] = at[d] /\ reply'[d] = reply[d]
    BY DEF Closes, Finish, TypeOK
  <1>3. QED
    BY <1>1, <1>2 DEF WireInv, Waits

LEMMA ResendWireInv ==
    ASSUME TypeOK, WireInv, NEW c \in Call, Resend(c) PROVE WireInv'
  <1>1. PICK new : /\ new.call = c /\ new.verb = at[c]
                   /\ wire' = {r \in wire : r.call # c} \cup {new}
    <2> DEFINE q == [call |-> c, verb |-> at[c], id |-> found[c]]
    <2>1. q.call = c /\ q.verb = at[c] /\ wire' = {r \in wire : r.call # c} \cup {q}
      BY DEF Resend
    <2> HIDE DEF q
    <2>2. QED
      BY <2>1
  <1>2. /\ at' = at /\ reply'[c] = None /\ \A d \in Call : d # c => reply'[d] = reply[d]
    BY DEF Resend, TypeOK
  <1>3. \A r \in wire : r.call \in Call
    BY DEF TypeOK
  <1>4. QED
    BY <1>1, <1>2, <1>3 DEF WireInv, Waits

LEMMA ServesHow ==
    ASSUME NEW r \in wire, Serves(r)
    PROVE  \E status \in {"ok", "missing", "conflict", "error"} : Replies(r, status)
  BY DEF Serves, Updates, Creates, Conflicts, Removes, Purges, Reads, Lists, Misses, Refuses

LEMMA ServesWireInv ==
    ASSUME TypeOK, WireInv, NEW r \in wire, Serves(r) PROVE WireInv'
  <1>1. PICK s : /\ wire' = wire \ {r} /\ at' = at
                 /\ reply' = IF at[r.call] = r.verb THEN [reply EXCEPT ![r.call] = s] ELSE reply
    BY ServesHow DEF Replies
  <1>2. r.call \in Call /\ r.verb \in Verbs
    BY DEF TypeOK
  <1>3. \A q \in wire' : q.call # r.call /\ q.call \in Call
    BY <1>1 DEF WireInv, TypeOK
  <1>4. \A d \in Call : d # r.call \/ ~Waits(d) => reply'[d] = reply[d]
    BY <1>1, <1>2 DEF TypeOK, Waits
  <1>5. QED
    BY <1>1, <1>3, <1>4 DEF WireInv, Waits

LEMMA NextWireInv == TypeOK /\ WireInv /\ RequestInv /\ [Next]_vars => WireInv'
  <1> SUFFICES ASSUME TypeOK, WireInv, RequestInv, [Next]_vars PROVE WireInv'
    OBVIOUS
  <1>1. ASSUME NEW c \in Call, Goes(c) PROVE WireInv'
    <2>1. ASSUME NEW verb \in Verbs, Opens(c, verb) \/ Follows(c, verb) PROVE WireInv'
      BY <2>1, SendWireInv DEF Opens, Follows
    <2>2. CASE DeletesNothing(c)
      <3>1. /\ at'[c] = "done" /\ UNCHANGED <<wire, reply>> /\ at[c] = "idle"
            /\ \A d \in Call : d # c => at'[d] = at[d]
        BY <2>2 DEF DeletesNothing, TypeOK
      <3>2. \A r \in wire : r.call \in Call
        BY DEF TypeOK
      <3>3. QED
        BY <3>1, <3>2, VerbNames DEF WireInv, Waits
    <2>3. QED
      BY <1>1, <2>1, <2>2, GoesHow, ClosesWireInv, ResendWireInv
  <1>2. CASE UNCHANGED vars
    BY <1>2 DEF vars, callVars, WireInv, Waits
  <1>3. ASSUME NEW r \in stale, Straggles(r) PROVE WireInv'
    BY <1>3 DEF Straggles, callVars, WireInv, Waits
  <1>4. QED
    BY <1>1, <1>2, <1>3, ServesWireInv DEF Next

(***************************************************************************)
(* Which requests an operation makes, and which driver.                    *)
(***************************************************************************)
\* A soft delete alone marks an item gone, and a container alone is empty.
LEMMA ServesMarks ==
    ASSUME TypeOK, NEW r \in wire, Serves(r), NEW x, x \notin Call,
           kind # "soft" \/ x # Gone, r.verb # "ensure" \/ x # Empty,
           \A i \in DOMAIN items : items[i].val # x
    PROVE  \A i \in DOMAIN items' : items'[i].val # x
  <1>1. items \in Seq(Item) /\ r.call \in Call /\ r.call # x
    BY DEF TypeOK, Item
  <1>2. \A i \in DOMAIN items : items[i].val # x
    OBVIOUS
  <1>3. CASE Updates(r)
    <2>1. PICK i \in About(r) : items' = [items EXCEPT ![i].val = r.call]
      BY <1>3 DEF Updates
    <2>2. i \in 1..Len(items)
      BY <1>1, ItemAt
    <2>3. items' \in Seq(Item) /\ Len(items') = Len(items)
      BY <1>1, <2>1, <2>2, SetValType
    <2>4. \A j \in 1..Len(items) : items'[j].val = IF j = i THEN r.call ELSE items[j].val
      BY <1>1, <2>1, <2>2, SetValType
    <2>5. QED
      BY <1>1, <1>2, <2>3, <2>4
  <1>4. CASE Creates(r)
    <2>1. PICK e \in Item : items' = Append(items, e) /\ e.val # x
      <3>1. PICK v : v = IF r.verb = "ensure" THEN Empty ELSE r.call
        OBVIOUS
      <3>2. items' = Append(items, [id |-> r.call, val |-> v]) /\ v # x /\ v \in {Empty, r.call}
        BY <1>1, <1>4, <3>1 DEF Creates
      <3>3. QED
        BY <1>1, <3>2 DEF Item
    <2>2. QED
      BY <1>1, <1>2, <2>1
  <1>5. CASE Removes(r)
    <2>1. PICK i \in About(r) : items' = IF kind = "soft" THEN [items EXCEPT ![i].val = Gone]
                                         ELSE RemoveAt(items, i)
      BY <1>5 DEF Removes
    <2>2. i \in 1..Len(items)
      BY <1>1, ItemAt
    <2>3. CASE kind = "soft"
      <3>0. items' = [items EXCEPT ![i].val = Gone]
        BY <2>1, <2>3
      <3> DEFINE new == [items EXCEPT ![i].val = Gone]
      <3>1. /\ new \in Seq(Item) /\ Len(new) = Len(items)
            /\ \A j \in 1..Len(items) : new[j].val = IF j = i THEN Gone ELSE items[j].val
        BY <1>1, <2>2, SetValType
      <3> HIDE DEF new
      <3>2. items' = new
        BY <3>0 DEF new
      <3>3. QED
        BY <1>1, <1>2, <2>3, <3>1, <3>2
    <2>4. CASE kind # "soft"
      <3>1. \A j \in DOMAIN items' : \E k \in DOMAIN items : items'[j] = items[k]
        BY <1>1, <2>1, <2>2, <2>4, RemoveAtKeeps
      <3>2. QED
        BY <1>2, <3>1
    <2>5. QED
      BY <2>3, <2>4
  <1>6. CASE Purges(r)
    <2>1. \A j \in DOMAIN items' : \E k \in DOMAIN items : items'[j] = items[k]
      BY <1>1, <1>6 DEF Purges
    <2>2. QED
      BY <1>2, <2>1
  <1>7. CASE Conflicts(r) \/ Reads(r) \/ Lists(r) \/ Misses(r) \/ Refuses(r)
    BY <1>2, <1>7 DEF Conflicts, Reads, Lists, Misses, Refuses
  <1>8. QED
    BY <1>3, <1>4, <1>5, <1>6, <1>7 DEF Serves

LEMMA ServesGone ==
    ASSUME TypeOK, RequestInv, NEW r \in wire, Serves(r)
    PROVE  /\ kind # "soft" => \A i \in DOMAIN items' : items'[i].val # Gone
           /\ kind = "lookup" => \A i \in DOMAIN items' : items'[i].val # Empty
  <1>1. kind = "lookup" => r.verb # "ensure"
    BY DEF RequestInv, Fits, ById
  <1>2. Gone \notin Call /\ Empty \notin Call /\ Gone # Empty
    BY Names
  <1>3. ASSUME kind # "soft" PROVE \A i \in DOMAIN items' : items'[i].val # Gone
    <2>1. \A i \in DOMAIN items : items[i].val # Gone
      BY <1>3 DEF RequestInv
    <2>2. QED
      BY <1>2, <1>3, <2>1, ServesMarks
  <1>4. ASSUME kind = "lookup" PROVE \A i \in DOMAIN items' : items'[i].val # Empty
    <2>1. \A i \in DOMAIN items : items[i].val # Empty
      BY <1>4 DEF RequestInv
    <2>2. QED
      BY <1>1, <1>2, <1>4, <2>1, ServesMarks
  <1>5. QED
    BY <1>3, <1>4

LEMMA StragglesGone ==
    ASSUME TypeOK, RequestInv, NEW r \in stale, Straggles(r), kind # "soft"
    PROVE  \A i \in DOMAIN items' : items'[i].val # Gone
  <1>1. items \in Seq(Item) /\ r.call \in Call /\ r.call # Gone
    BY Names DEF TypeOK, Item
  <1>2. \A i \in DOMAIN items : items[i].val # Gone
    BY DEF RequestInv
  <1>3. ASSUME NEW i \in About(r), items' = [items EXCEPT ![i].val = r.call]
        PROVE  \A j \in DOMAIN items' : items'[j].val # Gone
    <2>1. i \in 1..Len(items)
      BY <1>1, ItemAt
    <2>2. items' \in Seq(Item) /\ Len(items') = Len(items)
      BY <1>1, <1>3, <2>1, SetValType
    <2>3. \A j \in 1..Len(items) : items'[j].val = IF j = i THEN r.call ELSE items[j].val
      BY <1>1, <1>3, <2>1, SetValType
    <2>4. QED
      BY <1>1, <1>2, <2>2, <2>3
  <1>4. ASSUME items' = Append(items, [id |-> r.call, val |-> r.call])
        PROVE  \A j \in DOMAIN items' : items'[j].val # Gone
    <2>1. PICK e \in Item : items' = Append(items, e) /\ e.val # Gone
      BY <1>1, <1>4 DEF Item
    <2>2. QED
      BY <1>1, <1>2, <2>1
  <1>5. ASSUME NEW i \in About(r), items' = RemoveAt(items, i)
        PROVE  \A j \in DOMAIN items' : items'[j].val # Gone
    <2>1. \A j \in DOMAIN items' : \E k \in DOMAIN items : items'[j] = items[k]
      BY <1>1, <1>5, ItemAt, RemoveAtKeeps
    <2>2. QED
      BY <1>2, <2>1
  <1>6. QED
    BY <1>3, <1>4, <1>5 DEF Straggles

\* The driver stays what it is, and the rest of a step that RequestInv looks at.
LEMMA NextKind == TypeOK /\ WireInv /\ RequestInv /\ [Next]_vars => kind' = kind
  <1> SUFFICES ASSUME TypeOK, WireInv, RequestInv, [Next]_vars PROVE kind' = kind
    OBVIOUS
  <1>1. CASE \E c \in Call : Goes(c)
    BY <1>1, GoesHow DEF Opens, Follows, Send, Closes, Finish, DeletesNothing, Resend
  <1>2. CASE \E r \in wire : Serves(r)
    BY <1>2, ServesHow DEF Replies
  <1>3. CASE \E r \in stale : Straggles(r)
    BY <1>3 DEF Straggles
  <1>4. QED
    BY <1>1, <1>2, <1>3 DEF Next, vars

\* Only an answer tells an Akeyless create wrong, and only a lookup finds an id.
LEMMA NextFound ==
    TypeOK /\ WireInv /\ RequestInv /\ [Next]_vars =>
        /\ kind # "lookup" => found' = found
        /\ kind # "create_put" => mistold' = mistold
  <1> SUFFICES ASSUME TypeOK, WireInv, RequestInv, [Next]_vars
               PROVE  /\ kind # "lookup" => found' = found
                      /\ kind # "create_put" => mistold' = mistold
    OBVIOUS
  <1>1. CASE \E c \in Call : Goes(c)
    BY <1>1, GoesHow DEF Opens, Follows, Send, Closes, Finish, DeletesNothing, Resend
  <1>2. ASSUME NEW r \in wire, Serves(r)
        PROVE  /\ kind # "lookup" => found' = found
               /\ kind # "create_put" => mistold' = mistold
    <2>1. kind # "create_put" => mistold' = mistold
      BY <1>2, ServesHow DEF Replies
    <2>2. kind # "lookup" => r.verb # "list"
      BY DEF RequestInv, Fits
    <2>3. Lists(r) \/ found' = found
      BY <1>2 DEF Serves, Updates, Creates, Conflicts, Removes, Purges, Reads, Misses, Refuses
    <2>4. QED
      BY <2>1, <2>2, <2>3 DEF Lists
  <1>3. CASE \E r \in stale : Straggles(r)
    BY <1>3 DEF Straggles, callVars
  <1>4. QED
    BY <1>1, <1>2, <1>3 DEF Next, vars, callVars

LEMMA NextRequestInv == TypeOK /\ WireInv /\ RequestInv /\ [Next]_vars => RequestInv'
  <1> SUFFICES ASSUME TypeOK, WireInv, RequestInv, [Next]_vars PROVE RequestInv'
    OBVIOUS
  <1>1. \A r \in wire \cup stale : r.call \in Call /\ r.verb \in Verbs
    BY DEF TypeOK
  <1>2. kind' = kind
    BY NextKind
  <1>3. \A c, verb : Fits(c, verb)' <=> Fits(c, verb)
    BY <1>2 DEF Fits
  <1>4. /\ kind' # "lookup" => \A c \in Call : found'[c] = None
        /\ kind' # "create_put" => mistold' = {}
    BY <1>2, NextFound DEF RequestInv
  <1>5. ASSUME NEW c \in Call, Goes(c) PROVE RequestInv'
    <2>1. ASSUME NEW verb \in Verbs, Opens(c, verb) \/ Follows(c, verb), Fits(c, verb)
          PROVE  RequestInv'
      <3>1. Send(c, verb)
        BY <2>1 DEF Opens, Follows
      <3>2. /\ items' = items /\ stale' = stale
            /\ \A d \in Call : at'[d] = IF d = c THEN verb ELSE at[d]
        BY <3>1 DEF Send, TypeOK
      <3>3. \A r \in wire' : r \in wire \/ (r.call = c /\ r.verb = verb)
        BY <3>1 DEF Send
      <3>4. verb # "idle"
        BY VerbNames
      <3>5. QED
        BY <1>1, <1>2, <1>3, <1>4, <2>1, <3>2, <3>3, <3>4 DEF RequestInv, Waits
    <2>2. ASSUME NEW x, Closes(c, x) \/ DeletesNothing(c) PROVE RequestInv'
      <3>1. /\ wire' \subseteq wire /\ items' = items /\ stale' = stale
            /\ \A d \in Call : at'[d] = IF d = c THEN "done" ELSE at[d]
        BY <2>2 DEF Closes, Finish, DeletesNothing, TypeOK
      <3>2. QED
        BY <1>1, <1>2, <1>3, <1>4, <3>1, VerbNames DEF RequestInv, Waits
    <2>3. CASE Resend(c)
      <3>1. UNCHANGED <<items, at>> /\ kind \in Sdk /\ Waits(c)
        BY <2>3 DEF Resend
      <3>2. \A r \in wire' : r \in wire \/ (r.call = c /\ r.verb = at[c])
        BY <2>3 DEF Resend
      <3>3. \A r \in stale' : r \in stale \/ (r \in wire /\ r.call = c /\ Op[c] # "read")
        BY <2>3 DEF Resend
      <3>4. at[c] # "idle"
        BY <3>1, VerbNames DEF Waits
      <3>5. QED
        BY <1>1, <1>2, <1>3, <1>4, <3>1, <3>2, <3>3, <3>4 DEF RequestInv, Waits
    <2>4. QED
      BY <1>5, <2>1, <2>2, <2>3, GoesHow
  <1>6. ASSUME NEW r \in wire, Serves(r) PROVE RequestInv'
    <2>1. wire' \subseteq wire /\ at' = at /\ stale' = stale
      BY <1>6, ServesHow DEF Replies
    <2>2. QED
      BY <1>2, <1>3, <1>4, <1>6, <2>1, ServesGone DEF RequestInv, Waits
  <1>7. ASSUME NEW r \in stale, Straggles(r) PROVE RequestInv'
    <2>1. wire' = wire /\ at' = at /\ stale' \subseteq stale
      BY <1>7 DEF Straggles, callVars
    <2>2. kind # "lookup"
      BY DEF RequestInv, Sdk
    <2>3. QED
      BY <1>2, <1>3, <1>4, <1>7, <2>1, <2>2, StragglesGone DEF RequestInv, Waits
  <1>8. CASE UNCHANGED vars
    BY <1>3, <1>4, <1>8 DEF vars, callVars, RequestInv, Waits
  <1>9. QED
    BY <1>5, <1>6, <1>7, <1>8 DEF Next

(***************************************************************************)
(* Duplicates need a race.                                                 *)
(***************************************************************************)
\* No step of a call makes a write ready to post that was not.
LEMMA GoesPostInv ==
    ASSUME TypeOK, WireInv, RequestInv, PostInv, NEW c \in Call, Goes(c)
    PROVE  PostInv'
  <1>1. /\ UNCHANGED <<items, raced>>
        /\ \A d \in Call : WillPost(d)' => WillPost(d)
    <2>1. ASSUME NEW verb \in Verbs, Opens(c, verb) \/ Follows(c, verb), Fits(c, verb)
          PROVE  /\ UNCHANGED <<items, raced>>
                 /\ \A d \in Call : WillPost(d)' => WillPost(d)
      <3>1. Send(c, verb)
        BY <2>1 DEF Opens, Follows
      <3>2. /\ UNCHANGED <<items, raced>>
            /\ \A d \in Call : d # c => at'[d] = at[d] /\ reply'[d] = reply[d]
            /\ reply'[c] = None
        BY <3>1 DEF Send, TypeOK, histVars
      <3>3. \A r \in wire' : r \in wire \/ (r.call = c /\ r.verb = verb)
        BY <3>1 DEF Send
      <3>4. verb = "post" => at[c] = "list" /\ reply[c] = "missing" /\ Op[c] = "write"
        BY <2>1 DEF Opens, Follows, Fits, ById, Creating
      <3>5. QED
        BY <3>2, <3>3, <3>4, Names DEF WillPost
    <2>2. ASSUME NEW x, Closes(c, x) \/ DeletesNothing(c)
          PROVE  /\ UNCHANGED <<items, raced>>
                 /\ \A d \in Call : WillPost(d)' => WillPost(d)
      <3>1. /\ wire' \subseteq wire /\ UNCHANGED <<items, raced>>
            /\ \A d \in Call : d # c => at'[d] = at[d] /\ reply'[d] = reply[d]
            /\ at'[c] = "done"
        BY <2>2 DEF Closes, Finish, DeletesNothing, TypeOK, histVars
      <3>2. QED
        BY <3>1 DEF WillPost
    <2>3. CASE Resend(c)
      <3>1. /\ UNCHANGED <<items, at, raced>> /\ reply'[c] = None
            /\ \A d \in Call : d # c => reply'[d] = reply[d]
        BY <2>3 DEF Resend, TypeOK, histVars
      <3>2. \A r \in wire' : r \in wire \/ (r.call = c /\ r.verb = at[c])
        BY <2>3 DEF Resend
      <3>3. at[c] # "post"
        BY <2>3 DEF Resend, RequestInv, Fits, Sdk
      <3>4. QED
        BY <3>1, <3>2, <3>3, Names DEF WillPost
    <2>4. QED
      BY <2>1, <2>2, <2>3, GoesHow
  <1>2. QED
    BY <1>1 DEF PostInv

\* No driver that repeats its requests ever posts.
LEMMA StragglesPostInv ==
    ASSUME TypeOK, RequestInv, PostInv, NEW r \in stale, Straggles(r)
    PROVE  PostInv'
  <1>1. kind # "lookup"
    BY DEF RequestInv, Sdk
  <1>2. UNCHANGED <<wire, at, reply, raced>>
    BY DEF Straggles, callVars
  <1>3. \A d \in Call : ~WillPost(d)
    BY <1>1 DEF WillPost, RequestInv, Fits, Waits, Verbs, Reading
  <1>4. \A d \in Call : ~WillPost(d)'
    BY <1>2, <1>3 DEF WillPost
  <1>5. items \in Seq(Item) /\ Len(items) \in Nat /\ r.call \in Call
    BY DEF TypeOK, Item
  <1>6. ASSUME Len(items) <= 1 PROVE Len(items') <= 1
    <2>1. ASSUME NEW i \in About(r), items' = [items EXCEPT ![i].val = r.call]
          PROVE  Len(items') <= 1
      BY <1>5, <1>6, <2>1, ItemAt, SetValType
    <2>2. ASSUME items = <<>>, items' = Append(items, [id |-> r.call, val |-> r.call])
          PROVE  Len(items') <= 1
      <3>1. PICK e : items' = Append(items, e)
        BY <2>2
      <3>2. QED
        BY <1>5, <2>2, <3>1
    <2>3. ASSUME NEW i \in About(r), items' = RemoveAt(items, i) PROVE Len(items') <= 1
      <3>1. Len(items') = Len(items) - 1
        BY <1>5, <2>3, ItemAt, RemoveAtType
      <3>2. QED
        BY <1>5, <1>6, <3>1
    <2>4. QED
      BY <2>1, <2>2, <2>3 DEF Straggles
  <1>7. QED
    BY <1>2, <1>4, <1>6 DEF PostInv

\* A lookup that finds nothing finds nothing because nothing is there.
LEMMA MissedListEmpty ==
    ASSUME TypeOK, RequestInv, NEW r \in wire, Misses(r), r.verb = "list"
    PROVE  items = <<>>
  <1>1. kind # "soft"
    BY DEF RequestInv, Fits
  <1>2. ~\E i \in About(r) : TRUE
    BY DEF Misses
  <1>3. SUFFICES ASSUME items # <<>> PROVE FALSE
    OBVIOUS
  <1>4. 1 \in DOMAIN items
    BY <1>3 DEF TypeOK
  <1>5. items[1].val # Gone
    BY <1>1, <1>4 DEF RequestInv
  <1>6. 1 \in About(r)
    BY <1>4, <1>5 DEF About, ById
  <1>7. QED
    BY <1>2, <1>6

\* Only what creates adds an item, and only one.
LEMMA ServesLen ==
    ASSUME TypeOK, NEW r \in wire, Serves(r)
    PROVE  /\ ~Creates(r) => Len(items') <= Len(items)
           /\ items = <<>> => Len(items') <= 1
  <1>1. r.call \in Call /\ items \in Seq(Item) /\ Len(items) \in Nat
    BY DEF TypeOK, Item
  <1>2. CASE Updates(r)
    <2>1. PICK i \in About(r) : items' = [items EXCEPT ![i].val = r.call]
      BY <1>2 DEF Updates
    <2>2. i \in 1..Len(items)
      BY <1>1, ItemAt
    <2>3. Len(items') = Len(items)
      BY <1>1, <2>1, <2>2, SetValType
    <2>4. QED
      BY <1>1, <2>2, <2>3
  <1>3. CASE Removes(r)
    <2>1. PICK i \in About(r) :
             items' = IF kind = "soft" THEN [items EXCEPT ![i].val = Gone]
                      ELSE RemoveAt(items, i)
      BY <1>3 DEF Removes
    <2>2. i \in 1..Len(items)
      BY <1>1, ItemAt
    <2>3. Len(items') \in {Len(items), Len(items) - 1}
      BY <1>1, <2>1, <2>2, SetValType, RemoveAtType
    <2>4. QED
      BY <1>1, <2>2, <2>3
  <1>4. CASE Creates(r)
    <2>1. PICK e : items' = Append(items, e)
      BY <1>4 DEF Creates
    <2>2. QED
      BY <1>1, <1>4, <2>1
  <1>5. CASE Purges(r)
    <2>1. items' = items \/ (items # <<>> /\ items' = Tail(items))
      BY <1>5 DEF Purges
    <2>2. QED
      BY <1>1, <2>1
  <1>6. CASE Conflicts(r) \/ Reads(r) \/ Lists(r) \/ Misses(r) \/ Refuses(r)
    BY <1>1, <1>6 DEF Conflicts, Reads, Lists, Misses, Refuses
  <1>7. QED
    BY <1>2, <1>3, <1>4, <1>5, <1>6 DEF Serves

LEMMA ServesPostInv ==
    ASSUME TypeOK, WireInv, RequestInv, PostInv, NEW r \in wire, Serves(r)
    PROVE  PostInv'
  <1>1. r.call \in Call /\ items \in Seq(Item)
    BY DEF TypeOK, Item
  <1>2. at' = at /\ wire' = wire \ {r}
    BY ServesHow DEF Replies
  <1>3. \A d \in Call : d # r.call => reply'[d] = reply[d]
    BY ServesHow DEF Replies, TypeOK
  <1>4. \A d \in Call : d # r.call /\ WillPost(d)' => WillPost(d)
    BY <1>2, <1>3 DEF WillPost
  <1>5. raced => raced'
    BY DEF Serves, Updates, Creates, Conflicts, Removes, Purges, Reads, Lists, Misses, Refuses,
           histVars, TypeOK
  <1>6. \A d \in Call : WillPost(d) => kind = "lookup"
    BY DEF WillPost, RequestInv, Fits, Waits, Verbs, Reading
  <1>7. CASE raced
    BY <1>5, <1>7 DEF PostInv
  <1>8. CASE ~raced
    <2>1. /\ Len(items) <= 1
          /\ \A c, d \in Call : WillPost(c) /\ WillPost(d) => c = d
          /\ \A c \in Call : WillPost(c) => items = <<>>
      BY <1>8 DEF PostInv
    <2>2. CASE Misses(r)
      <3>1. items' = items
        BY <2>2 DEF Misses
      <3>2. WillPost(r.call)' => WillPost(r.call) \/ (r.verb = "list" /\ Op[r.call] = "write")
        BY <1>2, <2>2, ServesHow, Names DEF WillPost, Misses, Replies
      <3>3. CASE r.verb = "list" /\ Op[r.call] = "write"
        <4>1. items = <<>>
          BY <2>2, <3>3, MissedListEmpty
        <4>2. raced' \/ ~\E d \in Call \ {r.call} : WillPost(d)
          BY <2>2, <3>3 DEF Misses
        <4>3. QED
          BY <1>4, <3>1, <4>1, <4>2 DEF PostInv
      <3>4. CASE ~(r.verb = "list" /\ Op[r.call] = "write")
        BY <1>4, <2>1, <3>1, <3>2, <3>4 DEF PostInv
      <3>5. QED
        BY <3>3, <3>4
    <2>3. ASSUME ~Misses(r) PROVE WillPost(r.call)' => WillPost(r.call)
      <3>1. PICK status \in {"ok", "conflict", "error"} : Replies(r, status)
        BY <2>3 DEF Serves, Updates, Creates, Conflicts, Removes, Purges, Reads, Lists, Refuses
      <3>2. reply'[r.call] = reply[r.call] \/ reply'[r.call] # "missing"
        BY <1>1, <3>1 DEF Replies, TypeOK
      <3>3. QED
        BY <1>2, <3>2 DEF WillPost
    <2>4. CASE Creates(r)
      <3>1. ~Misses(r)
        BY <2>4 DEF Creates, Misses, Creating, Updating, Removing, Reading
      <3>2. PICK e \in Item : items' = Append(items, e)
        <4>1. PICK v \in {Empty, r.call} : items' = Append(items, [id |-> r.call, val |-> v])
          BY <2>4 DEF Creates
        <4>2. QED
          BY <1>1, <4>1 DEF Item
      <3>3. CASE r.verb = "post"
        <4>1. WillPost(r.call)
          BY <3>3 DEF WillPost, RequestInv, Fits, Creating
        <4>2. items = <<>> /\ \A d \in Call : WillPost(d) => d = r.call
          BY <1>1, <2>1, <4>1
        <4>3. ~WillPost(r.call)'
          <5>1. at[r.call] \in {"post", "done"}
            BY <3>3 DEF WireInv
          <5>2. \A q \in wire' : q.call # r.call
            BY <1>2 DEF WireInv
          <5>3. QED
            BY <1>2, <5>1, <5>2 DEF WillPost
        <4>4. Len(items') = 1
          BY <3>2, <4>2
        <4>5. \A d \in Call : ~WillPost(d)'
          BY <1>4, <4>2, <4>3
        <4>6. QED
          BY <4>4, <4>5 DEF PostInv
      <3>4. CASE r.verb # "post"
        <4>1. items = <<>> /\ r.verb \in Creating \ {"post"}
          BY <2>4, <3>4 DEF Creates
        <4>2. kind # "lookup"
          BY <4>1 DEF RequestInv, Fits, Creating, ById
        <4>3. \A d \in Call : ~WillPost(d)'
          BY <1>1, <1>4, <1>6, <2>3, <3>1, <4>2
        <4>4. Len(items') = 1
          BY <3>2, <4>1
        <4>5. QED
          BY <4>3, <4>4 DEF PostInv
      <3>5. QED
        BY <3>3, <3>4
    <2>5. CASE ~Misses(r) /\ ~Creates(r)
      <3>1. \A d \in Call : WillPost(d)' => WillPost(d)
        BY <1>4, <2>3, <2>5
      <3>2. Len(items') <= Len(items) /\ Len(items) \in Nat /\ items' \in Seq(Item)
        BY <1>1, <2>5, ServesLen, ServesItems
      <3>3. QED
        BY <1>1, <2>1, <3>1, <3>2 DEF PostInv
    <2>6. QED
      BY <2>2, <2>4, <2>5
  <1>9. QED
    BY <1>7, <1>8 DEF TypeOK

LEMMA NextPostInv == TypeOK /\ WireInv /\ RequestInv /\ PostInv /\ [Next]_vars => PostInv'
  <1>1. ASSUME PostInv, UNCHANGED vars PROVE PostInv'
    BY <1>1 DEF vars, callVars, histVars, PostInv, WillPost
  <1>2. QED
    BY <1>1, GoesPostInv, ServesPostInv, StragglesPostInv DEF Next

(***************************************************************************)
(* While no two writes race: what an answer tells.                         *)
(***************************************************************************)
LEMMA GoesAnswerInv ==
    ASSUME TypeOK, WireInv, RequestInv, AnswerInv, LookupInv, NEW c \in Call, Goes(c)
    PROVE  AnswerInv'
  <1>0. \A r \in wire : r.call \in Call
    BY DEF TypeOK
  <1>1. ASSUME NEW verb \in Verbs, Opens(c, verb) \/ Follows(c, verb), Fits(c, verb)
        PROVE  AnswerInv'
    <2>1. Send(c, verb)
      BY <1>1 DEF Opens, Follows
    <2>2. /\ UNCHANGED <<kind, took, saw, mistold>> /\ reply'[c] = None /\ at'[c] = verb
          /\ \A d \in Call : d # c => at'[d] = at[d] /\ reply'[d] = reply[d]
      BY <2>1 DEF Send, TypeOK, histVars
    <2>3. \A r \in wire' : r \in wire \/ (r.call = c /\ r.verb = verb)
      BY <2>1 DEF Send
    <2>4. verb # "idle"
      BY VerbNames
    <2>5. /\ verb = "purge" => c \in took
          /\ verb \notin {"purge", "get_id", "remove_id"} => c \notin took \/ Repeats(c)
      <3>1. CASE Opens(c, verb)
        BY <3>1 DEF Opens, AnswerInv
      <3>2. CASE Follows(c, verb)
        <4>0. Waits(c) /\ Fits(c, at[c])
          BY <3>2 DEF Follows, RequestInv
        <4>1. CASE at[c] = "put" /\ reply[c] = "missing" /\ verb = "create"
          BY <4>0, <4>1 DEF AnswerInv, Fits, Updating
        <4>2. CASE /\ at[c] = "create" /\ reply[c] \in {"conflict", "error"}
                   /\ verb = "put" /\ kind = "create_put"
          BY <4>0, <4>2 DEF AnswerInv, Fits, Creating
        <4>3. CASE at[c] = "ensure" /\ reply[c] \in {"ok", "conflict"} /\ verb = "add"
          BY <4>0, <4>3 DEF AnswerInv, Fits, Creating
        <4>4. CASE at[c] = "list" /\ reply[c] = "ok" /\ verb \in ById
          <5>1. c \in took => Op[c] # "write"
            BY <4>4 DEF LookupInv, Ahead
          <5>2. verb = "put_id" => Op[c] = "write"
            BY <1>1 DEF Fits, Updating
          <5>3. QED
            BY <4>4, <5>1, <5>2 DEF ById
        <4>5. CASE at[c] = "list" /\ reply[c] = "missing" /\ verb = "post"
          BY <1>1, <4>0, <4>5 DEF AnswerInv, Fits, Creating
        <4>6. CASE at[c] = "remove" /\ reply[c] \in {"ok", "missing"} /\ verb = "purge"
          BY <4>0, <4>6 DEF AnswerInv, Fits, Removing
        <4>7. QED
          BY <3>2, <4>1, <4>2, <4>3, <4>4, <4>5, <4>6 DEF Follows
      <3>3. QED
        BY <1>1, <3>1, <3>2
    <2>6. \A d \in Call : Repeats(d)' <=> Repeats(d)
      BY <2>2 DEF Repeats
    <2>7. QED
      BY <1>0, <2>2, <2>3, <2>4, <2>5, <2>6, Names DEF AnswerInv, Waits
  <1>2. ASSUME NEW x, Closes(c, x) \/ DeletesNothing(c) PROVE AnswerInv'
    <2>1. /\ UNCHANGED <<kind, took, saw, mistold>> /\ wire' \subseteq wire /\ at'[c] = "done"
          /\ \A d \in Call : d # c => at'[d] = at[d] /\ reply'[d] = reply[d]
      BY <1>2 DEF Closes, DeletesNothing, Finish, TypeOK, histVars
    <2>2. \A d \in Call : Repeats(d)' <=> Repeats(d)
      BY <2>1 DEF Repeats
    <2>3. QED
      BY <1>0, <2>1, <2>2, VerbNames DEF AnswerInv, Waits
  <1>3. CASE Resend(c)
    <2>1. /\ UNCHANGED <<kind, at, took, saw>> /\ reply'[c] = None /\ kind \in Sdk
          /\ \A d \in Call : d # c => reply'[d] = reply[d]
      BY <1>3 DEF Resend, TypeOK, histVars
    <2>2. \A d : Repeats(d)'
      BY <2>1 DEF Repeats
    <2>3. \A r \in wire' : r \in wire \/ r.call = c
      BY <1>3 DEF Resend
    <2>4. QED
      BY <1>0, <2>1, <2>2, <2>3, Names DEF AnswerInv, Waits
  <1>4. QED
    BY <1>1, <1>2, <1>3, GoesHow

LEMMA StragglesAnswerInv ==
    ASSUME TypeOK, RequestInv, AnswerInv, NEW r \in stale, Straggles(r) PROVE AnswerInv'
  <1>1. /\ UNCHANGED <<kind, wire, at, reply, saw>> /\ took' = took \cup {r.call}
        /\ at[r.call] # "idle" /\ kind \in Sdk
    BY DEF Straggles, callVars, RequestInv
  <1>2. \A d : Repeats(d)'
    BY <1>1 DEF Repeats
  <1>3. QED
    BY <1>1, <1>2 DEF AnswerInv, Waits

\* A lookup that found an item uses it while it is there, or finds nothing.
LEMMA MissesById ==
    ASSUME TypeOK, WireInv, RequestInv, LookupInv, NEW r \in wire, Misses(r), r.verb \in ById,
           Op[r.call] # "write"
    PROVE  r.call \in took /\ saw[r.call] = None
  <1>1. r.call \in Call /\ Ahead(r.call)
    BY DEF TypeOK, Ahead
  <1>2. found[r.call] # None /\ r.id = found[r.call]
    BY <1>1 DEF LookupInv
  <1>3. kind = "lookup"
    BY DEF RequestInv, Fits
  <1>4. \A i \in DOMAIN items : items[i].val # Gone /\ items[i].val # Empty
    BY <1>3 DEF RequestInv
  <1>5. found[r.call] \notin Held
    <2> SUFFICES ASSUME NEW i \in DOMAIN items, items[i].id = r.id PROVE FALSE
      BY <1>2 DEF Held
    <2>1. i \in About(r)
      BY <1>4 DEF About
    <2>2. QED
      BY <1>4, <2>1 DEF Misses
  <1>6. QED
    BY <1>1, <1>2, <1>5 DEF LookupInv

LEMMA ServesAnswerInv ==
    ASSUME TypeOK, WireInv, RequestInv, AnswerInv, LookupInv, NEW r \in wire, Serves(r)
    PROVE  AnswerInv'
  <1> DEFINE c == r.call
  <1>1. c \in Call /\ r.verb \in Verbs /\ Fits(c, r.verb)
    BY DEF TypeOK, RequestInv
  <1>2. /\ at' = at /\ wire' = wire \ {r} /\ kind' = kind /\ mistold \subseteq mistold'
        /\ \A d \in Call : d # c => reply'[d] = reply[d]
    BY ServesHow DEF Replies, TypeOK
  <1>3. \A q \in wire' : q.call # c /\ q.call \in Call /\ q \in wire
    BY <1>2 DEF WireInv, TypeOK
  <1>4. \A d \in Call : d # c => saw'[d] = saw[d]
    BY DEF Serves, Updates, Creates, Conflicts, Removes, Purges, Reads, Lists, Misses, Refuses,
           Takes, histVars, TypeOK
  <1>5. /\ took \subseteq took'
        /\ \A d \in Call : d # c /\ d \in took' =>
               d \in took \/ (kind = "lookup" /\ Op[d] # "write" /\ found[d] # None)
    <2>1. CASE Removes(r)
      <3>1. PICK i \in About(r) :
               took' = took \cup {c} \cup {d \in Call : Op[d] # "write" /\ found[d] = items[i].id}
        BY <2>1 DEF Removes
      <3>2. items[i].id \in Call /\ None \notin Call
        BY <3>1, ItemAt, Names DEF TypeOK, Item
      <3>3. QED
        BY <3>1, <3>2 DEF RequestInv
    <2>2. CASE ~Removes(r)
      BY <2>2 DEF Serves, Updates, Creates, Conflicts, Purges, Reads, Lists, Misses, Refuses,
                  Takes, histVars
    <2>3. QED
      BY <2>1, <2>2
  <1>6. \A d \in Call : d \notin took' => saw'[d] = None
    <2>1. c \notin took' => saw'[c] = saw[c]
      BY DEF Serves, Updates, Creates, Conflicts, Removes, Purges, Reads, Lists, Misses, Refuses,
             Takes, histVars
    <2>2. QED
      BY <1>4, <1>5, <2>1 DEF AnswerInv
  <1>7. r.verb \notin {"purge", "get_id", "remove_id"} => c \notin took \/ Repeats(c)
    BY DEF AnswerInv
  <1>8. \A d \in Call : Repeats(d) => Repeats(d)'
    BY <1>2 DEF Repeats
  \* What the request was not for stays as it was.
  <1>9. ASSUME NEW q \in wire', q.verb \notin {"purge", "get_id", "remove_id"}
        PROVE  q.call \notin took' \/ Repeats(q.call)'
    <2>1. q.call \notin took \/ Repeats(q.call)
      BY <1>3, <1>9 DEF AnswerInv
    <2>2. kind = "lookup" /\ Op[q.call] # "write" => q.verb = "list"
      BY <1>3, <1>9 DEF RequestInv, Fits, ById, Updating, Creating
    <2>3. q.verb = "list" => found[q.call] = None
      BY <1>3 DEF LookupInv
    <2>4. QED
      BY <1>3, <1>5, <1>8, <2>1, <2>2, <2>3
  <1>10. ASSUME NEW d \in Call, d # c, Waits(d), d \notin took \/ Repeats(d),
                Op[d] = "write" \/ kind # "lookup"
         PROVE  d \notin took' \/ Repeats(d)'
    BY <1>5, <1>8, <1>10
  <1>11. \A d \in Call : d # c => (at[d] = "idle" => d \notin took')
    BY <1>5 DEF AnswerInv, LookupInv
  <1>12. \A d \in Call : Waits(d) /\ at[d] \in {"ensure", "create"} => kind # "lookup"
    BY DEF RequestInv, Fits, ById
  <1>13. \A d \in Call : (Waits(d) <=> Waits(d)') /\ (at[d] = "create" => Waits(d))
    BY <1>2 DEF Waits, Verbs, Creating
  <1>14. at[c] = "done" \/ (at[c] = r.verb /\ reply[c] = None)
    BY DEF WireInv
  <1>15. ASSUME NEW d \in Call, d # c
         PROVE  /\ at'[d] = "idle" => d \notin took'
                /\ at'[d] = "purge" => d \in took'
                /\ Waits(d)' /\ reply'[d] = "ok" =>
                      /\ at'[d] \notin {"ensure", "list"} => d \in took'
                      /\ at'[d] = "ensure" => d \notin took' \/ Repeats(d)'
                      /\ at'[d] \in {"get", "get_id"} => saw'[d] # None
                /\ Waits(d)' /\ reply'[d] = "missing" =>
                      /\ Op[d] # "write" => d \in took'
                      /\ Op[d] = "write" => d \notin took' \/ Repeats(d)'
                      /\ Op[d] = "read" => saw'[d] = None
                /\ Waits(d)' /\ reply'[d] = "conflict" /\ Op[d] = "write" =>
                      d \notin took' \/ Repeats(d)'
                /\ kind' = "create_put" /\ at'[d] = "create" /\ reply'[d] = "error" =>
                      d \notin took' \/ Repeats(d)'
    <2>1. /\ at'[d] = at[d] /\ reply'[d] = reply[d] /\ saw'[d] = saw[d] /\ (Waits(d)' <=> Waits(d))
          /\ d \in took => d \in took'
      BY <1>2, <1>4, <1>5, <1>13, <1>15
    <2>2. at'[d] = "idle" => d \notin took'
      BY <1>11, <1>15, <2>1
    <2>3. at'[d] = "purge" => d \in took'
      BY <2>1 DEF AnswerInv
    <2>4. Waits(d)' /\ reply'[d] = "ok" =>
             /\ at'[d] \notin {"ensure", "list"} => d \in took'
             /\ at'[d] = "ensure" => d \notin took' \/ Repeats(d)'
             /\ at'[d] \in {"get", "get_id"} => saw'[d] # None
      BY <1>10, <1>12, <1>15, <2>1 DEF AnswerInv
    <2>5. Waits(d)' /\ reply'[d] = "missing" =>
             /\ Op[d] # "write" => d \in took'
             /\ Op[d] = "write" => d \notin took' \/ Repeats(d)'
             /\ Op[d] = "read" => saw'[d] = None
      BY <1>10, <1>15, <2>1 DEF AnswerInv
    <2>6. Waits(d)' /\ reply'[d] = "conflict" /\ Op[d] = "write" => d \notin took' \/ Repeats(d)'
      BY <1>10, <1>15, <2>1 DEF AnswerInv
    <2>7. kind' = "create_put" /\ at'[d] = "create" /\ reply'[d] = "error" =>
             d \notin took' \/ Repeats(d)'
      BY <1>2, <1>10, <1>13, <1>15, <2>1 DEF AnswerInv
    <2>8. QED
      BY <2>2, <2>3, <2>4, <2>5, <2>6, <2>7
  \* What the answer tells the call it is for.
  <1>16. CASE at[c] = "done"
    <2>1. at'[c] = "done" /\ ~Waits(c)'
      BY <1>2, <1>16, VerbNames DEF Waits
    <2> HIDE DEF c
    <2>2. QED
      BY <1>1, <1>6, <1>9, <1>15, <2>1 DEF AnswerInv
  <1>17. CASE at[c] = r.verb
    <2>1. \A s : Replies(r, s) => reply'[c] \in {s, "error"}
      BY <1>1, <1>17 DEF Replies, TypeOK
    <2>2. /\ reply'[c] = "ok" =>
               /\ r.verb \notin {"ensure", "list"} => c \in took'
               /\ r.verb = "ensure" => c \notin took' \/ Repeats(c)'
               /\ r.verb \in {"get", "get_id"} => saw'[c] # None
          /\ reply'[c] = "missing" =>
               /\ Op[c] # "write" => c \in took'
               /\ Op[c] = "write" => c \notin took' \/ Repeats(c)'
               /\ Op[c] = "read" => saw'[c] = None
          /\ reply'[c] = "conflict" /\ Op[c] = "write" => c \notin took' \/ Repeats(c)'
          /\ kind = "create_put" /\ r.verb = "create" /\ reply'[c] = "error" =>
               c \notin took' \/ Repeats(c)'
          /\ r.verb = "purge" => c \in took'
      <3>0. /\ c \notin took \/ Repeats(c) => took' # took \/ c \notin took' \/ Repeats(c)'
            /\ r.verb = "purge" => c \in took'
        BY <1>1, <1>5, <1>8, <1>17 DEF AnswerInv
      <3>1. CASE Updates(r)
        <4>1. r.verb \in Updating /\ c \in took' /\ reply'[c] \in {"ok", "error"}
          BY <2>1, <3>1 DEF Updates, Takes
        <4>2. QED
          BY <4>1 DEF Updating
      <3>2. CASE Creates(r)
        <4>1. r.verb \in Creating /\ reply'[c] \in {"ok", "error"}
              /\ (r.verb # "ensure" => c \in took') /\ (r.verb = "ensure" => took' = took)
          BY <2>1, <3>2 DEF Creates, Takes
        <4>2. kind = "create_put" /\ r.verb = "create" /\ reply'[c] = "error" => Repeats(c)'
          BY <1>1, <1>17, <3>2 DEF Creates, Replies, Repeats, TypeOK
        <4>3. QED
          BY <1>7, <3>0, <4>1, <4>2 DEF Creating
      <3>3. CASE Conflicts(r)
        <4>1. r.verb \in Creating /\ reply'[c] \in {"conflict", "error"} /\ took' = took
          BY <2>1, <3>3 DEF Conflicts, histVars
        <4>2. QED
          BY <1>7, <3>0, <4>1 DEF Creating
      <3>4. CASE Removes(r)
        <4>1. r.verb \in Removing /\ reply'[c] \in {"ok", "error"} /\ c \in took'
          BY <2>1, <3>4 DEF Removes
        <4>2. QED
          BY <4>1 DEF Removing
      <3>5. CASE Purges(r)
        <4>1. r.verb = "purge" /\ reply'[c] \in {"ok", "error"} /\ took' = took
          BY <2>1, <3>5 DEF Purges, histVars
        <4>2. QED
          BY <3>0, <4>1
      <3>6. CASE Reads(r)
        <4>1. r.verb \in {"get", "get_id"} /\ reply'[c] \in {"ok", "error"}
          BY <2>1, <3>6 DEF Reads
        <4>2. PICK i \in About(r) : items[i].val # Empty /\ Takes(r, items[i].val)
          BY <3>6 DEF Reads
        <4>3. items[i].val \in Call
          BY <4>2, ItemAt DEF TypeOK, Item
        <4>4. c \in took' /\ saw'[c] # None
          BY <1>1, <4>1, <4>2, <4>3, Names DEF Takes, Fits, TypeOK
        <4>5. QED
          BY <4>1, <4>4
      <3>7. CASE Lists(r)
        <4>1. r.verb = "list" /\ reply'[c] \in {"ok", "error"}
          BY <2>1, <3>7 DEF Lists
        <4>2. QED
          BY <4>1
      <3>8. CASE Misses(r)
        <4>1. /\ r.verb \in (Updating \ {"set"}) \cup Removing \cup Reading
              /\ reply'[c] \in {"missing", "error"}
          BY <2>1, <3>8 DEF Misses
        <4>2. CASE Op[c] = "write"
          <5>1. took' = took
            BY <3>8, <4>2 DEF Misses
          <5>2. r.verb \notin {"get_id", "remove_id"}
            BY <1>1, <4>2 DEF Fits, Removing
          <5>3. QED
            BY <1>7, <3>0, <4>1, <4>2, <5>1, <5>2 DEF Updating, Removing, Reading
        <4>3. CASE Op[c] # "write" /\ r.verb \notin ById
          <5>1. r.verb \notin Updating
            BY <1>1, <4>3 DEF Fits
          <5>2. Takes(r, None)
            BY <3>8, <4>3, <5>1 DEF Misses
          <5>3. c \in took' /\ (Op[c] = "read" => saw'[c] = None)
            BY <1>1, <5>2 DEF Takes, TypeOK
          <5>4. QED
            BY <4>1, <4>3, <5>3 DEF Updating, Removing, Reading
        <4>4. CASE Op[c] # "write" /\ r.verb \in ById
          <5>1. c \in took' /\ saw'[c] = None
            BY <3>8, <4>4, MissesById DEF Misses
          <5>2. QED
            BY <4>1, <4>4, <5>1 DEF Updating, Removing, Reading
        <4>5. QED
          BY <4>2, <4>3, <4>4
      <3>9. CASE Refuses(r)
        <4>1. reply'[c] = "error" /\ took' = took
          BY <2>1, <3>9 DEF Refuses, histVars
        <4>2. QED
          BY <1>7, <3>0, <4>1
      <3>10. QED
        BY <3>1, <3>2, <3>3, <3>4, <3>5, <3>6, <3>7, <3>8, <3>9 DEF Serves
    <2>3. r.verb # "idle" /\ at'[c] = r.verb
      BY <1>1, <1>2, <1>17, VerbNames
    <2> HIDE DEF c
    <2>4. QED
      BY <1>1, <1>2, <1>6, <1>9, <1>15, <2>2, <2>3 DEF AnswerInv
  <1>18. QED
    BY <1>14, <1>16, <1>17

(***************************************************************************)
(* While no two writes race: what has been looked up.                      *)
(***************************************************************************)
LEMMA ElseLookupInv ==
    RequestInv' /\ kind' # "lookup" /\ (\A r \in wire' : r.call \in Call) => LookupInv'
  <1> SUFFICES ASSUME RequestInv', kind' # "lookup", \A r \in wire' : r.call \in Call
               PROVE  LookupInv'
    OBVIOUS
  <1>1. \A d \in Call : found'[d] = None
    BY DEF RequestInv
  <1>2. \A r \in wire' : r.verb \notin ById /\ r.verb # "list"
    BY DEF RequestInv, Fits
  <1>3. \A d \in Call : at'[d] # "list"
    BY DEF RequestInv, Fits, Waits, Verbs, Reading
  <1>4. QED
    BY <1>1, <1>2, <1>3 DEF LookupInv, Ahead

LEMMA GoesLookupInv ==
    ASSUME TypeOK, WireInv, RequestInv, LookupInv, NEW c \in Call, Goes(c), kind = "lookup"
    PROVE  LookupInv'
  <1>0. \A r \in wire : r.call \in Call
    BY DEF TypeOK
  <1>1. ASSUME NEW verb \in Verbs, Opens(c, verb) \/ Follows(c, verb)
        PROVE  LookupInv'
    <2>1. Send(c, verb)
      BY <1>1 DEF Opens, Follows
    <2>2. /\ UNCHANGED <<kind, items, found, took, saw>> /\ reply'[c] = None /\ at'[c] = verb
          /\ \A d \in Call : d # c => at'[d] = at[d] /\ reply'[d] = reply[d]
      BY <2>1 DEF Send, TypeOK, histVars
    <2>3. PICK new : /\ wire' = wire \cup {new}
                     /\ new.call = c /\ new.verb = verb /\ new.id = found[c]
      <3> DEFINE q == [call |-> c, verb |-> verb, id |-> found[c]]
      <3>1. q.call = c /\ q.verb = verb /\ q.id = found[c] /\ wire' = wire \cup {q}
        BY <2>1 DEF Send
      <3> HIDE DEF q
      <3>2. QED
        BY <3>1
    <2>4. verb \in ById => Ahead(c)
      BY <1>1 DEF Opens, Follows, ById, Ahead
    <2>5. verb = "list" => found[c] = None
      BY <1>1 DEF Opens, Follows, LookupInv, ById
    <2>6. \A d \in Call : Ahead(d)' => Ahead(d)
      BY <2>2, <2>3, <2>4, Names DEF Ahead
    <2>7. Held' = Held
      BY <2>2 DEF Held
    <2>8. \A d \in Call : at'[d] = "idle" => at[d] = "idle"
      BY <2>2, VerbNames
    <2>9. QED
      BY <2>2, <2>3, <2>5, <2>6, <2>7, <2>8 DEF LookupInv
  <1>2. ASSUME NEW x, Closes(c, x) \/ DeletesNothing(c) PROVE LookupInv'
    <2>1. /\ UNCHANGED <<kind, items, found, took, saw>> /\ wire' \subseteq wire /\ at'[c] = "done"
          /\ \A d \in Call : d # c => at'[d] = at[d] /\ reply'[d] = reply[d]
      BY <1>2 DEF Closes, DeletesNothing, Finish, TypeOK, histVars
    <2>2. \A d \in Call : Ahead(d)' => Ahead(d)
      BY <2>1 DEF Ahead
    <2>3. Held' = Held
      BY <2>1 DEF Held
    <2>4. QED
      BY <2>1, <2>2, <2>3 DEF LookupInv
  <1>3. ~Resend(c)
    BY DEF Resend, Sdk
  <1>4. QED
    BY <1>1, <1>2, <1>3, GoesHow

\* What the request serves a call that looks up is used or gone for the others.
LEMMA ServesLookupInv ==
    ASSUME TypeOK, WireInv, RequestInv, PostInv, ~raced, AnswerInv, LookupInv, NEW r \in wire,
           Serves(r), kind = "lookup"
    PROVE  LookupInv'
  <1> DEFINE c == r.call
  <1>1. /\ c \in Call /\ Fits(c, r.verb) /\ items \in Seq(Item) /\ Len(items) \in Nat
        /\ Len(items) <= 1
    BY DEF TypeOK, RequestInv, PostInv, Item
  <1>2. /\ at' = at /\ wire' = wire \ {r} /\ kind' = kind
        /\ \A d \in Call : d # c => reply'[d] = reply[d]
    BY ServesHow DEF Replies, TypeOK
  <1>3. \A q \in wire' : q \in wire /\ q.call # c /\ q.call \in Call
    BY <1>2 DEF WireInv, TypeOK
  <1>4. \A d \in Call : d # c /\ Ahead(d)' => Ahead(d)
    BY <1>2 DEF Ahead
  <1>5. at[c] \in {r.verb, "done"}
    BY DEF WireInv
  <1>6. at[c] # "idle"
    BY <1>5, VerbNames DEF TypeOK
  <1>7. Ahead(c)' => r.verb = "list" /\ at[c] = "list" /\ reply'[c] = "ok"
    BY <1>2, <1>3, <1>5 DEF Ahead
  <1>8. \A d \in Call : d # c => saw'[d] = saw[d]
    BY DEF Serves, Updates, Creates, Conflicts, Removes, Purges, Reads, Lists, Misses, Refuses,
           Takes, histVars, TypeOK
  \* Requests that leave the items where they are.
  <1>9. ASSUME found' = found, took \subseteq took', took' \subseteq took \cup {c}, ~Ahead(c)',
               Held' = Held,
               \A i \in DOMAIN items' : i \in DOMAIN items /\ items'[i].id = items[i].id
        PROVE  LookupInv'
    <2> HIDE DEF c
    <2>1. ASSUME NEW d \in Call, Ahead(d)'
          PROVE  /\ found'[d] # None
                 /\ d \in took' => Op[d] # "write" /\ saw'[d] = None /\ found'[d] \notin Held'
      <3>1. d # c /\ Ahead(d)
        BY <1>4, <1>9, <2>1
      <3>2. saw'[d] = saw[d] /\ (d \in took' => d \in took)
        BY <1>8, <1>9, <3>1
      <3>3. QED
        BY <1>9, <3>1, <3>2 DEF LookupInv
    <2>2. QED
      BY <1>2, <1>3, <1>9, <2>1 DEF LookupInv
  <1>10. CASE Updates(r)
    <2>1. PICK i \in About(r) : items' = [items EXCEPT ![i].val = c]
      BY <1>10 DEF Updates
    <2>2. i \in 1..Len(items)
      BY <1>1, <2>1, ItemAt
    <2>3. items' \in Seq(Item) /\ Len(items') = Len(items)
      BY <1>1, <2>1, <2>2, SetValType
    <2>4. \A j \in 1..Len(items) : items'[j].id = items[j].id
      BY <1>1, <2>1, <2>2, SetValType
    <2>5. DOMAIN items' = DOMAIN items /\ \A j \in DOMAIN items : items'[j].id = items[j].id
      BY <1>1, <2>3, <2>4
    <2>6. Held' = Held
      BY <2>5 DEF Held
    <2>7. found' = found /\ took' = took \cup {c} /\ r.verb # "list"
      BY <1>10 DEF Updates, Takes, Updating
    <2>8. QED
      BY <1>7, <1>9, <2>5, <2>6, <2>7
  <1>11. CASE Reads(r) \/ Misses(r) \/ Refuses(r)
    <2>1. found' = found /\ items' = items /\ took' \in {took, took \cup {c}}
      BY <1>11 DEF Reads, Misses, Refuses, Takes, histVars
    <2>2. ~(r.verb = "list" /\ at[c] = "list" /\ reply'[c] = "ok")
      BY <1>1, <1>11, Names DEF Reads, Misses, Refuses, Replies, TypeOK
    <2>3. Held' = Held
      BY <2>1 DEF Held
    <2>4. QED
      BY <1>7, <1>9, <2>1, <2>2, <2>3
  <1>12. CASE Lists(r)
    <2>1. /\ items # <<>> /\ items' = items /\ took' = took /\ saw' = saw /\ r.verb = "list"
          /\ found'[c] = items[1].id /\ \A d \in Call : d # c => found'[d] = found[d]
      BY <1>1, <1>12 DEF Lists, histVars, TypeOK
    <2>2. 1 \in DOMAIN items
      BY <1>1, <2>1
    <2>3. items[1] \in Item
      BY <1>1, <2>2
    <2>4. found'[c] # None /\ found'[c] \in took /\ found'[c] \in Held
      BY <2>1, <2>2, <2>3, Names DEF Item, LookupInv, Held
    <2>5. Held' = Held
      BY <2>1 DEF Held
    <2>6. c \notin took
      BY <2>1 DEF AnswerInv, Repeats, RequestInv, Sdk
    <2>7. found'[c] \in Held'
      BY <2>4, <2>5
    <2> HIDE DEF c
    <2>8. ASSUME NEW d \in Call, d # c
          PROVE  /\ found'[d] # None =>
                       /\ found'[d] \in took' /\ at'[d] # "idle"
                       /\ Op[d] # "write" => d \in took' \/ found'[d] \in Held'
                 /\ Ahead(d)' =>
                       /\ found'[d] # None
                       /\ d \in took' => Op[d] # "write" /\ saw'[d] = None /\ found'[d] \notin Held'
      <3>1. found'[d] = found[d] /\ Held' = Held
        BY <2>1, <2>5, <2>8
      <3>2. QED
        BY <1>2, <1>4, <2>1, <2>8, <3>1 DEF LookupInv
    <2>9. QED
      BY <1>1, <1>2, <1>3, <1>6, <2>1, <2>4, <2>6, <2>7, <2>8 DEF LookupInv
  <1>13. CASE Creates(r)
    <2>1. r.verb = "post" /\ took' = took \cup {c} /\ found' = found
      BY <1>1, <1>13 DEF Creates, Creating, Fits, ById, Takes
    <2>2. items = <<>>
      <3>1. WillPost(c)
        BY <1>1, <2>1 DEF WillPost, Fits, Creating
      <3>2. QED
        BY <1>1, <3>1 DEF PostInv
    <2>3. PICK e \in Item : e.id = c /\ items' = Append(items, e)
      <3>1. items' = Append(items, [id |-> c, val |-> c])
        BY <1>13, <2>1 DEF Creates
      <3>2. QED
        BY <1>1, <3>1 DEF Item
    <2>4. DOMAIN items' = {1} /\ items'[1].id = c
      BY <2>2, <2>3
    <2>5. Held = {}
      BY <2>2 DEF Held
    <2>6. Held' = {c}
      BY <2>4 DEF Held
    <2>7. c \notin took
      BY <2>1 DEF AnswerInv, Repeats, RequestInv, Sdk
    <2>8. \A d \in Call : Ahead(d)' => d # c /\ Ahead(d)
      BY <1>4, <1>7, <2>1
    <2> HIDE DEF c
    <2>9. ASSUME NEW d \in Call, Ahead(d)'
          PROVE  /\ found'[d] # None
                 /\ d \in took' => Op[d] # "write" /\ saw'[d] = None /\ found'[d] \notin Held'
      <3>1. d # c /\ Ahead(d) /\ saw'[d] = saw[d] /\ found[d] # None /\ found[d] \in took
        BY <1>8, <2>8, <2>9 DEF LookupInv
      <3>2. found'[d] # c
        BY <2>1, <2>7, <3>1
      <3>3. found'[d] \notin Held'
        BY <2>4, <3>2 DEF Held
      <3>4. QED
        BY <2>1, <3>1, <3>3 DEF LookupInv
    <2>10. ASSUME NEW d \in Call, found'[d] # None
           PROVE  /\ found'[d] \in took' /\ at'[d] # "idle"
                  /\ Op[d] # "write" => d \in took'
      BY <1>2, <2>1, <2>5, <2>10 DEF LookupInv
    <2>11. QED
      BY <1>2, <1>3, <2>1, <2>4, <2>9, <2>10 DEF LookupInv
  <1>14. CASE Removes(r)
    <2>1. PICK i \in About(r) :
             /\ items' = RemoveAt(items, i)
             /\ took' = took \cup {c} \cup {d \in Call : Op[d] # "write" /\ found[d] = items[i].id}
      BY <1>14 DEF Removes
    <2>2. i \in 1..Len(items)
      BY <1>1, <2>1, ItemAt
    <2>3. Len(items) = 1 /\ i = 1
      <3>1. PICK n \in Nat : n = Len(items) /\ n <= 1
        BY <1>1
      <3>2. i \in 1..n
        BY <2>2, <3>1
      <3>3. QED
        BY <3>1, <3>2
    <2>4. items' = <<>>
      <3>1. RemoveAt(items, i) \in Seq(Item) /\ Len(RemoveAt(items, i)) = Len(items) - 1
        BY <1>1, <2>2, RemoveAtType
      <3>2. items' \in Seq(Item) /\ Len(items') = 0
        BY <2>1, <2>3, <3>1
      <3>3. QED
        BY <3>2
    <2>5. Held = {items[1].id}
      <3>1. DOMAIN items = {1}
        BY <1>1, <2>3
      <3>2. QED
        BY <3>1 DEF Held
    <2>6. Held' = {}
      BY <2>4 DEF Held
    <2>7. saw' = saw /\ found' = found /\ r.verb # "list"
      BY <1>14 DEF Removes, Removing
    <2>8. \A d \in Call : Ahead(d)' => d # c /\ Ahead(d)
      BY <1>4, <1>7, <2>7
    <2>9. took \subseteq took' /\ \A d \in Call : Op[d] # "write" /\ found[d] \in Held => d \in took'
      BY <2>1, <2>3, <2>5
    <2> HIDE DEF c
    <2>10. ASSUME NEW d \in Call, Ahead(d)'
           PROVE  /\ found'[d] # None
                  /\ d \in took' => Op[d] # "write" /\ saw'[d] = None /\ found'[d] \notin Held'
      <3>1. d # c /\ Ahead(d)
        BY <2>8, <2>10
      <3>2. found[d] # None /\ (d \in took => Op[d] # "write" /\ saw[d] = None)
        BY <3>1 DEF LookupInv
      <3>3. d \notin took => saw[d] = None
        BY DEF AnswerInv
      <3>4. found'[d] \notin Held'
        BY <2>4 DEF Held
      <3>5. QED
        BY <2>1, <2>7, <3>1, <3>2, <3>3, <3>4
    <2>11. ASSUME NEW d \in Call, found'[d] # None
           PROVE  /\ found'[d] \in took' /\ at'[d] # "idle"
                  /\ Op[d] # "write" => d \in took'
      BY <1>2, <2>7, <2>9, <2>11 DEF LookupInv
    <2>12. QED
      BY <1>2, <1>3, <2>4, <2>7, <2>10, <2>11 DEF LookupInv
  <1>15. ~Conflicts(r) /\ ~Purges(r)
    BY <1>1 DEF Conflicts, Purges, Fits, ById, Creating
  <1>16. QED
    BY <1>10, <1>11, <1>12, <1>13, <1>14, <1>15 DEF Serves

\* What raced stays raced.
LEMMA NextRaced == TypeOK /\ WireInv /\ RequestInv /\ [Next]_vars /\ raced => raced'
  <1> SUFFICES ASSUME TypeOK, WireInv, RequestInv, [Next]_vars, raced PROVE raced'
    OBVIOUS
  <1>1. ASSUME NEW c \in Call, Goes(c) PROVE raced'
    BY <1>1, GoesHow
    DEF Opens, Follows, Send, Closes, Finish, DeletesNothing, Resend, histVars, TypeOK
  <1>2. ASSUME NEW r \in wire, Serves(r) PROVE raced'
    BY <1>2 DEF Serves, Updates, Creates, Conflicts, Removes, Purges, Reads, Lists, Misses,
                Refuses, histVars, TypeOK
  <1>3. ASSUME NEW r \in stale, Straggles(r) PROVE raced'
    BY <1>3 DEF Straggles, TypeOK
  <1>4. QED
    BY <1>1, <1>2, <1>3 DEF Next, vars, histVars, TypeOK

LEMMA NextTightInv ==
    TypeOK /\ WireInv /\ RequestInv /\ PostInv /\ TightInv /\ [Next]_vars => TightInv'
  <1> SUFFICES ASSUME TypeOK, WireInv, RequestInv, PostInv, TightInv, [Next]_vars, ~raced'
               PROVE  AnswerInv' /\ LookupInv'
    BY DEF TightInv
  <1>1. ~raced /\ AnswerInv /\ LookupInv
    BY NextRaced DEF TightInv
  <1>2. kind' = kind /\ RequestInv' /\ TypeOK'
    BY NextKind, NextRequestInv, NextTypeOK
  <1>3. \A r \in wire' : r.call \in Call
    BY <1>2 DEF TypeOK
  <1>4. kind # "lookup" => LookupInv'
    BY <1>2, <1>3, ElseLookupInv
  <1>5. CASE UNCHANGED vars
    BY <1>1, <1>5 DEF vars, callVars, histVars, AnswerInv, LookupInv, Waits, Ahead, Held, Repeats
  <1>6. CASE \E c \in Call : Goes(c)
    BY <1>1, <1>4, <1>6, GoesAnswerInv, GoesLookupInv
  <1>7. CASE \E r \in wire : Serves(r)
    BY <1>1, <1>4, <1>7, ServesAnswerInv, ServesLookupInv
  <1>8. ASSUME NEW r \in stale, Straggles(r) PROVE AnswerInv' /\ LookupInv'
    <2>1. kind # "lookup"
      BY DEF RequestInv, Sdk
    <2>2. QED
      BY <1>1, <1>4, <1>8, <2>1, StragglesAnswerInv
  <1>9. QED
    BY <1>5, <1>6, <1>7, <1>8 DEF Next

LEMMA InitInductive == Init => Inductive
  <1> SUFFICES ASSUME Init PROVE Inductive
    OBVIOUS
  <1>1. \A c \in Call : ~Waits(c) /\ at[c] = "idle" /\ reply[c] = None
    BY VerbNames DEF Init, Waits
  <1>2. /\ items = <<>> /\ wire = {} /\ stale = {} /\ took = {} /\ mistold = {}
        /\ \A c \in Call : found[c] = None /\ saw[c] = None /\ at[c] \notin {"list", "purge"}
    BY DEF Init
  <1>3. WireInv /\ RequestInv /\ PostInv
    BY <1>1, <1>2 DEF WireInv, RequestInv, PostInv, WillPost
  <1>4. TightInv
    BY <1>1, <1>2, Names DEF TightInv, AnswerInv, LookupInv, Ahead
  <1>5. QED
    BY <1>3, <1>4, InitTypeOK DEF Inductive

\* A call counts on one request under way; until two writes race for an item, a write that
\* posts is alone with it, an answer tells of the effect, and an item that was looked up is
\* used or gone, for every driver of internal/upstream.
THEOREM DriversInductive == Spec => []Inductive
  <1>1. Inductive /\ [Next]_vars => Inductive'
    BY NextTypeOK, NextWireInv, NextRequestInv, NextPostInv, NextTightInv DEF Inductive
  <1>2. QED
    BY InitInductive, <1>1, PTL DEF Spec

\* Two items under one path come of two writes that looked for it at once and of nothing
\* else, for any number of calls (bitwarden_sm.go:91-125, onepassword.go:88-135).
THEOREM DuplicatesComeOfRaces == Spec => []DuplicatesNeedRace
  <1>1. Inductive => DuplicatesNeedRace
    BY DEF Inductive, TypeOK, PostInv, DuplicatesNeedRace
  <1>2. QED
    BY <1>1, DriversInductive, PTL

(***************************************************************************)
(* The register.                                                           *)
(***************************************************************************)
Stage == [c \in Call |-> IF at[c] = "idle" THEN "idle"
                         ELSE IF at[c] = "done" THEN "returned" ELSE "open"]

\* The steps of the register, said of Stage and Current.
LEMMA RegisterSteps ==
    ASSUME NEW c \in Call
    PROVE  /\ /\ Stage[c] = "idle" /\ Stage' = [Stage EXCEPT ![c] = "open"]
              /\ UNCHANGED <<Current, took, saw, result>>
              => Owed!Next
           /\ \A r \in {"ok", "not_found", "error"} :
              /\ Stage[c] = "open" /\ Stage' = [Stage EXCEPT ![c] = "returned"]
              /\ r # "error" => c \in took
              /\ r = "not_found" => Op[c] = "read" /\ saw[c] = None
              /\ r = "ok" /\ Op[c] = "read" => saw[c] # None
              /\ result' = [result EXCEPT ![c] = r]
              /\ UNCHANGED <<Current, took, saw>>
              => Owed!Next
           /\ /\ kind = "kept" /\ Op[c] = "delete"
              /\ Stage[c] = "idle" /\ Stage' = [Stage EXCEPT ![c] = "returned"]
              /\ result' = [result EXCEPT ![c] = "ok"]
              /\ UNCHANGED <<Current, took, saw>>
              => Owed!Next
           /\ UNCHANGED <<Current, Stage, took, saw, result>> => UNCHANGED Owed!registerVars
  BY DEF Owed!Next, Owed!Invoke, Owed!Return, Owed!Waive, Owed!registerVars, Stage

LEMMA TakeStep ==
    ASSUME NEW c \in Call, Stage[c] # "idle", c \notin took \/ Repeats(c),
           NEW behind \in SUBSET {d \in Call \ took : Stage[d] # "idle" /\ Op[d] # "write"},
           behind # {} => Op[c] = "delete",
           took' = took \cup {c} \cup behind,
           Current' = IF Op[c] = "write" THEN c
                      ELSE IF Op[c] = "delete" THEN None ELSE Current,
           saw' = [saw EXCEPT ![c] = IF Op[c] = "read" THEN Current ELSE @],
           UNCHANGED <<Stage, result>>
    PROVE  Owed!Next
  <1>1. Owed!Take(c)
    BY DEF Owed!Take, Stage
  <1>2. QED
    BY <1>1 DEF Owed!Next

LEMMA InitRegister == Init => Owed!Init
  BY DEF Init, Owed!Init, Current

\* A call is made, goes on, or returns what it may.
LEMMA GoesImplements ==
    ASSUME Inductive, NEW c \in Call, Goes(c), ~raced
    PROVE  Owed!Next \/ UNCHANGED Owed!registerVars
  <1> USE DEF Inductive
  <1>1. TypeOK /\ WireInv /\ RequestInv /\ AnswerInv /\ at \in [Call -> Verbs \cup {"idle", "done"}]
    BY DEF TightInv, TypeOK
  <1>2. ASSUME NEW verb \in Verbs, Opens(c, verb) PROVE Owed!Next
    <2>1. /\ at[c] = "idle" /\ at' = [at EXCEPT ![c] = verb] /\ verb \notin {"idle", "done"}
          /\ UNCHANGED <<items, took, saw, result>>
      BY <1>2, VerbNames DEF Opens, Send, histVars
    <2>2. Stage[c] = "idle" /\ Stage' = [Stage EXCEPT ![c] = "open"]
      BY <1>1, <2>1 DEF Stage
    <2>3. Current' = Current
      BY <2>1 DEF Current
    <2>4. QED
      BY <2>1, <2>2, <2>3, RegisterSteps
  <1>3. ASSUME NEW verb \in Verbs, Follows(c, verb) PROVE UNCHANGED Owed!registerVars
    <2>1. /\ at[c] \notin {"idle", "done"} /\ verb \notin {"idle", "done"}
          /\ at' = [at EXCEPT ![c] = verb] /\ UNCHANGED <<items, took, saw, result>>
      BY <1>3, VerbNames DEF Follows, Send, Waits, histVars
    <2>2. Stage' = Stage
      BY <1>1, <2>1 DEF Stage
    <2>3. Current' = Current
      BY <2>1 DEF Current
    <2>4. QED
      BY <2>1, <2>2, <2>3, RegisterSteps
  <1>4. ASSUME NEW r \in {"ok", "not_found", "error"}, Closes(c, r),
               r # "error" => c \in took,
               r = "not_found" => Op[c] = "read" /\ saw[c] = None,
               r = "ok" /\ Op[c] = "read" => saw[c] # None
        PROVE  Owed!Next
    <2>1. /\ at[c] \notin {"idle", "done"} /\ at' = [at EXCEPT ![c] = "done"]
          /\ result' = [result EXCEPT ![c] = r]
          /\ UNCHANGED <<items, took, saw>>
      BY <1>4, VerbNames DEF Closes, Finish, Waits, histVars
    <2>2. Stage[c] = "open" /\ Stage' = [Stage EXCEPT ![c] = "returned"]
      BY <1>1, <2>1 DEF Stage
    <2>3. Current' = Current
      BY <2>1 DEF Current
    <2>4. QED
      BY <1>4, <2>1, <2>2, <2>3, RegisterSteps
  <1>5. Waits(c) => Fits(c, at[c])
    BY DEF RequestInv
  <1>6. CASE Succeeds(c)
    <2>1. Waits(c) /\ reply[c] = "ok" /\ at[c] \notin {"ensure", "list", "purge"} /\ Closes(c, "ok")
      BY <1>6 DEF Succeeds, Closes
    <2>2. c \in took
      BY <1>1, <2>1 DEF AnswerInv
    <2>3. Op[c] = "read" => at[c] \in {"get", "get_id"}
      BY <1>5, <2>1 DEF Fits, Waits, Verbs, Reading
    <2>4. QED
      BY <1>1, <1>4, <2>1, <2>2, <2>3 DEF AnswerInv
  <1>7. CASE NothingThere(c)
    <2>1. Waits(c) /\ reply[c] = "missing"
      BY <1>7 DEF NothingThere, Waits, Verbs, Removing, Reading
    <2>2. \/ Op[c] = "read" /\ Finish(c, "not_found")
          \/ Op[c] = "delete" /\ Finish(c, "ok")
      BY <1>5, <1>7, <2>1 DEF NothingThere, Fits, Removing
    <2>3. c \in took /\ (Op[c] = "read" => saw[c] = None)
      BY <1>1, <2>1, <2>2 DEF AnswerInv
    <2>4. Finish(c, "not_found") => Closes(c, "not_found")
      BY <1>7, <2>1 DEF NothingThere, Closes
    <2>5. Finish(c, "ok") => Closes(c, "ok")
      BY <1>7, <2>1 DEF NothingThere, Closes
    <2>6. QED
      BY <1>4, <2>2, <2>3, <2>4, <2>5
  <1>8. CASE ItemWent(c)
    <2>1. Waits(c) /\ reply[c] = "missing" /\ UNCHANGED wire
      BY <1>8 DEF ItemWent, Waits, Verbs, Removing, Reading
    <2>2. \/ Op[c] = "read" /\ Finish(c, "not_found")
          \/ Op[c] = "delete" /\ Finish(c, "ok")
          \/ Finish(c, "error")
      BY <1>5, <1>8, <2>1 DEF ItemWent, Fits, Removing
    <2>3. Op[c] # "write" => c \in took /\ (Op[c] = "read" => saw[c] = None)
      BY <1>1, <2>1 DEF AnswerInv
    <2>4. \A r : Finish(c, r) => Closes(c, r)
      BY <2>1 DEF Closes
    <2>5. QED
      BY <1>4, <2>2, <2>3, <2>4
  <1>9. CASE PurgeOver(c)
    <2>1. at[c] = "purge" /\ Closes(c, "ok") /\ Waits(c)
      BY <1>9 DEF PurgeOver, Closes, Waits, Verbs
    <2>2. c \in took /\ Op[c] = "delete"
      BY <1>1, <1>5, <2>1 DEF AnswerInv, Fits
    <2>3. QED
      BY <1>4, <2>1, <2>2
  <1>10. CASE Rejected(c) \/ CallFails(c)
    <2>1. Waits(c)
      BY <1>1, <1>10, Names DEF Rejected, CallFails, WireInv
    <2>2. Closes(c, "error")
      BY <1>10, <2>1 DEF Rejected, CallFails, Closes
    <2>3. QED
      BY <1>4, <2>2
  <1>11. CASE DeletesNothing(c)
    <2>1. /\ kind = "kept" /\ Op[c] = "delete" /\ at[c] = "idle"
          /\ at' = [at EXCEPT ![c] = "done"] /\ result' = [result EXCEPT ![c] = "ok"]
          /\ UNCHANGED <<items, took, saw>>
      BY <1>11 DEF DeletesNothing, histVars
    <2>2. Stage[c] = "idle" /\ Stage' = [Stage EXCEPT ![c] = "returned"]
      BY <1>1, <2>1 DEF Stage
    <2>3. Current' = Current
      BY <2>1 DEF Current
    <2>4. QED
      BY <2>1, <2>2, <2>3, RegisterSteps
  <1>12. CASE Resend(c)
    <2>1. UNCHANGED <<items, at, result, took, saw>>
      BY <1>12 DEF Resend, histVars
    <2>2. UNCHANGED <<Current, Stage>>
      BY <2>1 DEF Current, Stage
    <2>3. QED
      BY <2>1, <2>2, RegisterSteps
  <1>13. QED
    BY <1>1, <1>2, <1>3, <1>6, <1>7, <1>8, <1>9, <1>10, <1>11, <1>12, OpensHow, FollowsHow
    DEF Goes

\* What a read or a delete misses is not there.
LEMMA MissesNothing ==
    ASSUME TypeOK, NEW r \in wire, Misses(r), r.verb \notin ById
    PROVE  Current = None
  <1> SUFFICES ASSUME items # <<>>, items[1].val \notin {Empty, Gone} PROVE FALSE
    BY DEF Current
  <1>1. 1 \in DOMAIN items
    BY DEF TypeOK
  <1>2. 1 \in About(r)
    BY <1>1 DEF About
  <1>3. QED
    BY <1>2 DEF Misses

\* What the service does is the instant of the call, or none.
LEMMA ServesImplements ==
    ASSUME Inductive, NEW r \in wire, Serves(r), ~raced
    PROVE  Owed!Next \/ UNCHANGED Owed!registerVars
  <1> USE DEF Inductive
  <1>1. /\ TypeOK /\ WireInv /\ RequestInv /\ AnswerInv /\ LookupInv
        /\ items \in Seq(Item) /\ Len(items) <= 1 /\ Len(items) \in Nat
    BY DEF TightInv, PostInv, TypeOK, Item
  <1>2. PICK c \in Call : c = r.call
    BY DEF TypeOK
  <1>3. Fits(c, r.verb) /\ r.verb \in Verbs
    BY <1>1, <1>2 DEF RequestInv, TypeOK
  <1>4. Stage[c] # "idle"
    BY <1>1, <1>2, <1>3, VerbNames DEF Stage, WireInv
  <1>5. Stage' = Stage /\ result' = result
    BY ServesHow DEF Replies, Stage
  \* A call that has an item to use by its id has not taken effect.
  <1>6. r.verb \in ById /\ About(r) # {} => c \notin took
    <2> SUFFICES ASSUME r.verb \in ById, NEW i \in About(r) PROVE c \notin took
      OBVIOUS
    <2>1. Ahead(c) /\ r.id = found[c]
      BY <1>1, <1>2 DEF Ahead, LookupInv
    <2>2. found[c] \in Held
      BY <2>1 DEF About, Held
    <2>3. QED
      BY <1>1, <2>1, <2>2 DEF LookupInv
  <1>6a. ASSUME r.verb # "purge", r.verb \in ById => About(r) # {}, NEW what, Takes(r, what),
               Op[c] = "read" => what = Current,
               Current' = IF Op[c] = "write" THEN c
                          ELSE IF Op[c] = "delete" THEN None ELSE Current
        PROVE  Owed!Next
    <2>1. c \notin took \/ Repeats(c)
      BY <1>1, <1>2, <1>6, <1>6a DEF AnswerInv, ById
    <2>2. took' = took \cup {c} \cup {}
      BY <1>2, <1>6a DEF Takes
    <2>3. saw' = [saw EXCEPT ![c] = IF Op[c] = "read" THEN Current ELSE @]
      BY <1>2, <1>6a DEF Takes
    <2>4. QED
      BY <1>4, <1>5, <1>6a, <2>1, <2>2, <2>3, TakeStep
  <1>7. ASSUME UNCHANGED <<took, saw>>, Current' = Current PROVE UNCHANGED Owed!registerVars
    BY <1>2, <1>5, <1>7, RegisterSteps
  <1>8. About(r) \subseteq {1}
    <2>1. \A i \in About(r) : i \in 1..Len(items)
      BY <1>1, ItemAt
    <2>2. QED
      BY <1>1, <2>1
  <1>9. ASSUME items' = items PROVE Current' = Current
    BY <1>9 DEF Current
  <1>10. c \notin {None, Empty, Gone}
    BY Names
  <1>11. CASE Updates(r)
    <2>1. /\ 1 \in About(r) /\ items' = [items EXCEPT ![1].val = c] /\ Takes(r, None)
          /\ r.verb \in Updating
      BY <1>2, <1>8, <1>11 DEF Updates
    <2>2. 1 \in 1..Len(items)
      BY <1>1, <2>1, ItemAt
    <2>3. items' \in Seq(Item) /\ Len(items') = Len(items) /\ items'[1].val = c
      BY <1>1, <2>1, <2>2, SetValType
    <2>4. items' # <<>>
      BY <2>2, <2>3
    <2>5. Current' = c
      BY <1>10, <2>3, <2>4 DEF Current
    <2>6. Op[c] = "write" /\ r.verb # "purge"
      BY <1>3, <2>1 DEF Fits, Updating
    <2>7. QED
      BY <1>6a, <2>1, <2>5, <2>6
  <1>12. CASE Creates(r)
    <2>1. items = <<>> /\ r.verb \in Creating
      <3>1. r.verb = "post" => WillPost(c)
        BY <1>2, <1>3 DEF WillPost, Fits, Creating
      <3>2. QED
        BY <1>12, <3>1 DEF Creates, PostInv
    <2>2. Current = None
      BY <2>1 DEF Current
    <2>3. PICK v : /\ v = IF r.verb = "ensure" THEN Empty ELSE c
                   /\ items' = Append(items, [id |-> c, val |-> v])
      BY <1>2, <1>12 DEF Creates
    <2>4. items' # <<>> /\ items'[1].val = v
      BY <1>1, <2>1, <2>3
    <2>5. CASE r.verb = "ensure"
      <3>1. Current' = None
        BY <2>3, <2>4, <2>5 DEF Current
      <3>2. QED
        BY <1>7, <1>12, <2>2, <2>5, <3>1 DEF Creates
    <2>6. CASE r.verb # "ensure"
      <3>1. Current' = c
        BY <1>10, <2>3, <2>4, <2>6 DEF Current
      <3>2. Op[c] = "write" /\ r.verb \notin ById \cup {"purge"} /\ Takes(r, None)
        BY <1>3, <1>12, <2>1, <2>6 DEF Fits, Creates, Creating, ById
      <3>3. QED
        BY <1>6a, <3>1, <3>2
    <2>7. QED
      BY <2>5, <2>6
  <1>13. CASE Removes(r)
    <2>1. /\ 1 \in About(r) /\ r.verb \in Removing /\ saw' = saw
          /\ items' = IF kind = "soft" THEN [items EXCEPT ![1].val = Gone]
                      ELSE RemoveAt(items, 1)
          /\ took' = took \cup {c}
                      \cup {d \in Call : Op[d] # "write" /\ found[d] = items[1].id}
      BY <1>2, <1>8, <1>13 DEF Removes
    <2>2. 1 \in 1..Len(items) /\ Len(items) = 1
      <3>1. 1 \in 1..Len(items)
        BY <1>1, <2>1, ItemAt
      <3>2. PICK n \in Nat : n = Len(items) /\ n <= 1
        BY <1>1
      <3>3. n >= 1
        BY <3>1, <3>2
      <3>4. n = 1
        BY <3>2, <3>3
      <3>5. QED
        BY <3>1, <3>2, <3>4
    <2>3. ASSUME kind = "soft" PROVE Current' = None
      <3>1. items'[1].val = Gone
        BY <1>1, <2>1, <2>2, <2>3, SetValType
      <3>2. QED
        BY <3>1 DEF Current
    <2>4. ASSUME kind # "soft" PROVE Current' = None
      <3>1. RemoveAt(items, 1) \in Seq(Item) /\ Len(RemoveAt(items, 1)) = Len(items) - 1
        BY <1>1, <2>2, RemoveAtType
      <3>2. items' \in Seq(Item) /\ Len(items') = 0
        BY <2>1, <2>2, <2>4, <3>1
      <3>3. items' = <<>>
        BY <3>2
      <3>4. QED
        BY <3>3 DEF Current
    <2>5. Current' = None
      BY <2>3, <2>4
    <2>6. Op[c] = "delete" /\ r.verb # "purge"
      BY <1>3, <2>1 DEF Fits, Removing
    <2>7. c \notin took \/ Repeats(c)
      BY <1>1, <1>2, <1>6, <2>1, <2>6 DEF AnswerInv, ById, Removing
    <2> DEFINE behind == {d \in Call \ took : Op[d] # "write" /\ found[d] = items[1].id}
    <2>8. ASSUME NEW d \in Call, found[d] = items[1].id PROVE Stage[d] # "idle"
      <3>1. items[1].id \in Call
        BY <1>1, <2>1, ItemAt DEF Item
      <3>2. found[d] # None
        BY <2>8, <3>1, Names
      <3>3. at[d] # "idle"
        BY <1>1, <3>2 DEF LookupInv
      <3>4. QED
        BY <3>3 DEF Stage
    <2>9. behind \in SUBSET {d \in Call \ took : Stage[d] # "idle" /\ Op[d] # "write"}
      BY <2>8
    <2>10. took' = took \cup {c} \cup behind
      BY <2>1
    <2>11. saw' = [saw EXCEPT ![c] = IF Op[c] = "read" THEN Current ELSE @]
      <3>1. saw' = [saw EXCEPT ![c] = saw[c]]
        BY <1>1, <2>1 DEF TypeOK
      <3>2. QED
        BY <2>6, <3>1
    <2>12. Current' = IF Op[c] = "write" THEN c
                      ELSE IF Op[c] = "delete" THEN None ELSE Current
      BY <2>5, <2>6
    <2> HIDE DEF behind
    <2>13. QED
      BY <1>4, <1>5, <2>6, <2>7, <2>9, <2>10, <2>11, <2>12, TakeStep
  <1>14. CASE Purges(r)
    <2>1. Current' = Current
      <3>1. CASE items # <<>> /\ items[1].val = Gone
        <4>1. items' = <<>>
          BY <1>1, <1>14, <3>1 DEF Purges
        <4>2. QED
          BY <3>1, <4>1 DEF Current
      <3>2. CASE ~(items # <<>> /\ items[1].val = Gone)
        BY <1>9, <1>14, <3>2 DEF Purges
      <3>3. QED
        BY <3>1, <3>2
    <2>2. QED
      BY <1>7, <1>14, <2>1 DEF Purges, histVars
  <1>15. CASE Reads(r)
    <2>1. /\ 1 \in About(r) /\ items[1].val # Empty /\ Takes(r, items[1].val)
          /\ r.verb \in {"get", "get_id"} /\ items' = items
      BY <1>8, <1>15 DEF Reads
    <2>2. items # <<>> /\ items[1].val # Gone
      BY <1>1, <2>1, ItemAt
    <2>3. Current = items[1].val
      BY <2>1, <2>2 DEF Current
    <2>4. Op[c] = "read"
      BY <1>3, <2>1 DEF Fits
    <2>5. QED
      BY <1>9, <1>6a, <2>1, <2>3, <2>4
  <1>16. CASE Misses(r)
    <2>1. items' = items /\ r.verb # "purge"
      BY <1>16 DEF Misses, Updating, Removing, Reading
    <2>2. CASE r.verb \in Updating \cup ById \/ Op[c] = "write"
      BY <1>2, <1>7, <1>9, <1>16, <2>1, <2>2 DEF Misses
    <2>3. CASE ~(r.verb \in Updating \cup ById \/ Op[c] = "write")
      <3>1. Takes(r, None) /\ r.verb \notin ById
        BY <1>2, <1>16, <2>3 DEF Misses
      <3>2. Current = None
        BY <1>1, <1>16, <3>1, MissesNothing
      <3>3. r.verb \in Removing \cup Reading
        BY <1>3, <1>16, <2>3 DEF Misses
      <3>4. Op[c] # "write"
        BY <2>3
      <3>5. QED
        BY <1>9, <1>6a, <2>1, <3>1, <3>2, <3>4
    <2>4. QED
      BY <2>2, <2>3
  <1>17. CASE Conflicts(r) \/ Lists(r) \/ Refuses(r)
    BY <1>7, <1>9, <1>17 DEF Conflicts, Lists, Refuses, histVars
  <1>18. QED
    BY <1>11, <1>12, <1>13, <1>14, <1>15, <1>16, <1>17 DEF Serves

\* A copy the SDK has sent again is one more instant of its call.
LEMMA StragglesImplements ==
    ASSUME Inductive, NEW r \in stale, Straggles(r), ~raced
    PROVE  Owed!Next
  <1>1. /\ TypeOK /\ RequestInv /\ items \in Seq(Item) /\ Len(items) <= 1
        /\ Len(items) \in Nat
    BY DEF Inductive, PostInv, TypeOK, Item
  <1>2. PICK c \in Call : c = r.call
    BY <1>1 DEF TypeOK
  <1>3. /\ kind \in Sdk /\ at[c] # "idle" /\ Op[c] # "read" /\ Fits(c, r.verb)
    BY <1>1, <1>2 DEF RequestInv
  <1>4. Stage[c] # "idle" /\ Repeats(c) /\ kind # "soft"
    BY <1>3 DEF Stage, Repeats, Sdk
  <1>5. /\ took' = took \cup {c} \cup {} /\ UNCHANGED <<at, result, saw>>
    BY <1>2 DEF Straggles, callVars
  <1>6. Stage' = Stage
    BY <1>5 DEF Stage
  <1>7. saw' = [saw EXCEPT ![c] = IF Op[c] = "read" THEN Current ELSE @]
    <2>1. saw' = [saw EXCEPT ![c] = saw[c]]
      BY <1>1, <1>5 DEF TypeOK
    <2>2. QED
      BY <1>3, <2>1
  <1>8. c \notin {None, Empty, Gone}
    BY Names
  <1>9. \A i \in About(r) : i = 1
    <2>1. \A i \in About(r) : i \in 1..Len(items)
      BY <1>1, ItemAt
    <2>2. QED
      BY <1>1, <2>1
  <1>10. Current' = IF Op[c] = "write" THEN c
                    ELSE IF Op[c] = "delete" THEN None ELSE Current
    <2>1. CASE r.verb \in Updating /\ \E i \in About(r) : items' = [items EXCEPT ![i].val = r.call]
      <3>1. 1 \in About(r) /\ items' = [items EXCEPT ![1].val = c]
        BY <1>2, <1>9, <2>1
      <3>2. 1 \in 1..Len(items)
        BY <1>1, <3>1, ItemAt
      <3>3. items' \in Seq(Item) /\ Len(items') = Len(items) /\ items'[1].val = c
        BY <1>1, <3>1, <3>2, SetValType
      <3>4. items' # <<>>
        BY <3>2, <3>3
      <3>5. Current' = c
        BY <1>8, <3>3, <3>4 DEF Current
      <3>6. QED
        BY <1>3, <2>1, <3>5 DEF Fits
    <2>2. CASE /\ r.verb \in Creating /\ items = <<>>
               /\ items' = Append(items, [id |-> r.call, val |-> r.call])
      <3>1. items' # <<>> /\ items'[1].val = c
        BY <1>2, <2>2
      <3>2. Current' = c
        BY <1>8, <3>1 DEF Current
      <3>3. QED
        BY <1>3, <2>2, <3>2 DEF Fits
    <2>3. CASE r.verb \in Removing /\ \E i \in About(r) : items' = RemoveAt(items, i)
      <3>1. 1 \in About(r) /\ items' = RemoveAt(items, 1)
        BY <1>9, <2>3
      <3>2. 1 \in 1..Len(items)
        BY <1>1, <3>1, ItemAt
      <3>3. RemoveAt(items, 1) \in Seq(Item) /\ Len(RemoveAt(items, 1)) = Len(items) - 1
        BY <1>1, <3>2, RemoveAtType
      <3>4. PICK n \in Nat : n = Len(items) /\ n <= 1
        BY <1>1
      <3>5. items' \in Seq(Item) /\ Len(items') = 0
        BY <3>1, <3>2, <3>3, <3>4
      <3>6. items' = <<>>
        BY <3>5
      <3>7. Current' = None
        BY <3>6 DEF Current
      <3>8. QED
        BY <1>3, <2>3, <3>7 DEF Fits
    <2>4. QED
      BY <2>1, <2>2, <2>3 DEF Straggles
  <1>11. QED
    BY <1>4, <1>5, <1>6, <1>7, <1>10, TakeStep

\* Every call of every driver is atomic: it takes effect in one instant between its call and
\* its answer, or is answered with an error and takes effect once at most, however its
\* requests interleave, fail or arrive late (the drivers of internal/upstream); what the
\* AWS SDK repeats, and what Akeyless was told failed, may take effect again, in instants
\* of their own.  It holds until two writes race for an item neither has made.
THEOREM DriversImplementRegister == Spec => ImplementsRegister
  <1>1. Inductive /\ [Next]_vars => [Owed!Next \/ raced']_Owed!registerVars
    <2> SUFFICES ASSUME Inductive, [Next]_vars, ~raced'
                 PROVE  Owed!Next \/ UNCHANGED Owed!registerVars
      OBVIOUS
    <2>1. ~raced
      BY NextRaced DEF Inductive
    <2>2. CASE UNCHANGED vars
      BY <2>2 DEF vars, callVars, histVars, Owed!registerVars, Current
    <2>3. QED
      BY <2>1, <2>2, GoesImplements, ServesImplements, StragglesImplements DEF Next
  <1>2. QED
    BY <1>1, InitRegister, DriversInductive, PTL DEF Spec, ImplementsRegister
=============================================================================
