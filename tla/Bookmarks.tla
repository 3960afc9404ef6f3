----------------------------- MODULE Bookmarks -----------------------------
(***************************************************************************)
(* The bookmarks of one workspace: the counter that bookmarks.max is       *)
(* judged by, the slugs, which are unique per owner and among the          *)
(* bookmarks without one, the content of members who leave, which a job    *)
(* hands over or deletes afterwards, and the idempotency keys that let a   *)
(* client ask again for a creation whose answer it has not got.            *)
(*                                                                         *)
(* What changes the counter, the owners or the members works under the     *)
(* lock of the workspace's row; between taking it and committing only the  *)
(* changes of a slug, which lock the bookmark alone, come in between, so   *)
(* the operations that read no slug are one step.  Roles are left to       *)
(* Membership: here anybody but the last member may leave.  A slug stands  *)
(* for the slug and its forwarding.                                        *)
(***************************************************************************)
EXTENDS Integers, FiniteSets

CONSTANTS
    Accounts,
    Founder,        \* the first member
    Slugs,
    Keys,           \* the idempotency keys clients use
    Requests,       \* the creations and imports they ask for
    Txs,            \* transactions under way at one time (a bound)
    Ceiling,        \* bookmarks.max
    MaxIds,         \* bookmarks ever made (a bound)
    MaxDepartures,  \* members' departures (a bound)
    Nobody, NoSlug, NoKey, NoTx

ASSUME BookmarksAssumption ==
    /\ Founder \in Accounts
    /\ Requests \subseteq [op : {"create", "import"}, key : Keys \cup {NoKey}, slug : Slugs \cup {NoSlug}]
    /\ Ceiling \in Nat /\ MaxIds \in Nat /\ MaxDepartures \in Nat
    /\ Nobody \notin Accounts /\ NoSlug \notin Slugs /\ NoKey \notin Keys /\ NoTx \notin Txs

VARIABLES
    members,    \* workspace_members
    rows,       \* bookmarks
    count,      \* workspaces.bookmark_count
    locked,     \* the transaction that holds the workspace's row between two of its steps
    keys,       \* idempotency_keys with a stored response, each with its account
    events,     \* the member.left events, by departure_id
    txs,        \* the transactions under way
    made        \* bookmarks made so far

vars == <<members, rows, count, locked, keys, events, txs, made>>

Ids == 1 .. MaxIds
Departures == 1 .. MaxDepartures
SlugOrNone == Slugs \cup {NoSlug}
KeyOrNone == (Accounts \X Keys) \cup {NoKey}
AccountOrNone == Accounts \cup {Nobody}

Row == [state : {"none", "live", "deleted"},
        owner : AccountOrNone,              \* owner_id
        slug : SlugOrNone,
        archived : BOOLEAN,                 \* plan_archived_at
        departure : 0 .. MaxDepartures,     \* departure_id
        saved : SlugOrNone,                 \* departure_slug
        \* for the properties: the key it was made under, the slug it had when its last owner left, and what that owner chose
        key : KeyOrNone,
        had : SlugOrNone,
        choice : {"", "keep", "transfer", "delete"},
        to : AccountOrNone]
NoRow == [state |-> "none", owner |-> Nobody, slug |-> NoSlug, archived |-> FALSE, departure |-> 0,
          saved |-> NoSlug, key |-> NoKey, had |-> NoSlug, choice |-> "", to |-> Nobody]

Event == [content : {"transfer", "delete"}, to : AccountOrNone]
NoEvent == [content |-> "transfer", to |-> Nobody]

Tx == [op : {"idle", "create", "import", "update", "deliver"}, stage : {"", "claimed", "taken", "read"},
       actor : AccountOrNone, key : KeyOrNone, slug : SlugOrNone, id : 0 .. MaxIds,
       departure : 0 .. MaxDepartures, places : 0 .. 2, clash : SUBSET Ids]
Idle == [op |-> "idle", stage |-> "", actor |-> Nobody, key |-> NoKey, slug |-> NoSlug, id |-> 0,
         departure |-> 0, places |-> 0, clash |-> {}]

TypeOK ==
    /\ members \subseteq Accounts
    /\ rows \in [Ids -> Row]
    /\ count \in 0 .. MaxIds
    /\ locked \in Txs \cup {NoTx}
    /\ keys \subseteq Accounts \X Keys
    /\ events \in [Departures -> Event]
    /\ txs \in [Txs -> Tx]
    /\ made \in 0 .. MaxIds

-----------------------------------------------------------------------------
Live == {i \in Ids : rows[i].state = "live"}
Own(a) == {i \in Live : rows[i].owner = a}
Has(a, s) == s # NoSlug /\ \E i \in Own(a) : rows[i].slug = s
Released(d) == {i \in Own(Nobody) : rows[i].departure = d}
Counted(ids) == {i \in ids : ~rows[i].archived}

Unlocked == locked = NoTx
Held(i) == \E t \in Txs : txs[t].op = "update" /\ txs[t].id = i
Put(t, q) == txs' = [txs EXCEPT ![t] = q]
End(t) == Put(t, Idle) /\ locked' = (IF locked = t THEN NoTx ELSE locked)

\* bookmarks_owner_slug_key: a write that gives the owner of an uncommitted change the slug of that change waits for it.
Waits(a, s) ==
    s # NoSlug /\ \E t \in Txs : txs[t].op = "update" /\ txs[t].actor = a /\ txs[t].slug = s

-----------------------------------------------------------------------------
\* A key belongs to the account that uses it.
KeyOf(a, r) == IF r.key = NoKey THEN NoKey ELSE <<a, r.key>>

ClaimUnheld(t, a, r) ==
    /\ txs[t] = Idle /\ a \in members
    /\ KeyOf(a, r) \notin keys
    /\ r.op = "create" => ~Has(a, r.slug)
    /\ Put(t, [Idle EXCEPT !.op = r.op, !.stage = "claimed", !.actor = a, !.key = KeyOf(a, r), !.slug = r.slug])
    /\ UNCHANGED <<members, rows, count, locked, keys, events, made>>

\* A member asks for a creation, or for an import of two bookmarks of which the first has the slug, for the first time or
\* again.  The key is claimed: it waits for a transaction that has claimed it, and a key that is in use answers what is
\* stored.  A creation is then refused when its owner has the slug already.
Claim(t, a, r) ==
    /\ txs[t] = Idle /\ a \in members
    /\ KeyOf(a, r) \notin keys /\ (r.key # NoKey => \A u \in Txs : txs[u].key # KeyOf(a, r))
    /\ r.op = "create" => ~Has(a, r.slug)
    /\ Put(t, [Idle EXCEPT !.op = r.op, !.stage = "claimed", !.actor = a, !.key = KeyOf(a, r), !.slug = r.slug])
    /\ UNCHANGED <<members, rows, count, locked, keys, events, made>>

Wanted(op) == IF op = "create" THEN 1 ELSE 2
Least(x, y) == IF x < y THEN x ELSE y

TakeUnlocked(t) ==
    LET q == txs[t] IN
    /\ q.stage = "claimed"
    /\ LET room == IF count < Ceiling THEN Ceiling - count ELSE 0
           places == Least(Wanted(q.op), room)
       IN IF q.actor \notin members \/ (q.op = "create" /\ places = 0)
          THEN End(t)
          ELSE Put(t, [q EXCEPT !.stage = "taken", !.places = places]) /\ UNCHANGED locked
    /\ UNCHANGED <<members, rows, count, keys, events, made>>

\* sys_bookmark_count_take, sys_bookmark_count_take_many: the places under the ceiling, as many as are left for an import.
Take(t) ==
    LET q == txs[t] IN
    /\ q.stage = "claimed"
    /\ Unlocked
    /\ LET room == IF count < Ceiling THEN Ceiling - count ELSE 0
           places == Least(Wanted(q.op), room)
       IN IF q.actor \notin members \/ (q.op = "create" /\ places = 0)
          THEN End(t)
          ELSE Put(t, [q EXCEPT !.stage = "taken", !.places = places]) /\ locked' = t
    /\ UNCHANGED <<members, rows, count, keys, events, made>>

\* The bookmarks are inserted and the response is stored.  A slug that was taken meanwhile fails a creation at the key of
\* the table, and costs an imported bookmark the slug.
Insert(t) ==
    LET q == txs[t]
        ids == made + 1 .. made + q.places
        new == [NoRow EXCEPT !.state = "live", !.owner = q.actor, !.key = q.key]
        taken == Has(q.actor, q.slug)
    IN
    /\ q.stage = "taken"
    /\ ~Waits(q.actor, q.slug)
    /\ made + q.places <= MaxIds
    /\ IF taken /\ q.op = "create"
       THEN UNCHANGED <<rows, count, keys, made>>
       ELSE /\ rows' = [i \in Ids |-> IF i \notin ids THEN rows[i]
                                      ELSE IF i = made + 1 /\ ~taken THEN [new EXCEPT !.slug = q.slug] ELSE new]
            /\ count' = count + q.places
            /\ keys' = keys \cup ({q.key} \ {NoKey})
            /\ made' = made + q.places
    /\ End(t)
    /\ UNCHANGED <<members, events>>

\* The transaction fails or the server stops: nothing is written.  A delivery is made again.
Abort(t) ==
    /\ txs[t] # Idle
    /\ End(t)
    /\ UNCHANGED <<members, rows, count, keys, events, made>>

-----------------------------------------------------------------------------
\* A change of the slug: the bookmark is locked and the owner's other slugs are read; a slug that is found ends it.
LockForUpdate(t, a, i, s) ==
    /\ txs[t] = Idle
    /\ i \in Own(a) /\ ~rows[i].archived /\ ~Held(i)
    /\ rows[i].slug # s /\ ~Has(a, s)
    /\ Put(t, [Idle EXCEPT !.op = "update", !.stage = "read", !.actor = a, !.id = i, !.slug = s])
    /\ UNCHANGED <<members, rows, count, locked, keys, events, made>>

\* The slug is written.  The key of the table has the last word: it waits for the other change under way that gives the
\* owner the slug, and a slug that was taken meanwhile fails the change.
Update(t) ==
    LET q == txs[t] IN
    /\ q.op = "update"
    /\ rows' = IF Has(q.actor, q.slug) THEN rows ELSE [rows EXCEPT ![q.id].slug = q.slug]
    /\ End(t)
    /\ UNCHANGED <<members, count, keys, events, made>>

Deleted(ids) == [i \in Ids |-> IF i \in ids THEN [NoRow EXCEPT !.state = "deleted", !.key = rows[i].key] ELSE rows[i]]

DeleteUncounted(a, ids) ==
    /\ ids # {} /\ ids \subseteq Own(a)
    /\ Unlocked /\ \A i \in ids : ~Held(i)
    /\ rows' = Deleted(ids)
    /\ count' = count - Cardinality(ids)
    /\ UNCHANGED <<members, locked, keys, events, txs, made>>

\* sys_bookmark_delete, sys_bookmark_delete_many
Delete(a, ids) ==
    /\ ids # {} /\ ids \subseteq Own(a)
    /\ Unlocked /\ \A i \in ids : ~Held(i)
    /\ rows' = Deleted(ids)
    /\ count' = count - Cardinality(Counted(ids))
    /\ UNCHANGED <<members, locked, keys, events, txs, made>>

ArchiveRestoringUncounted(ids, on) ==
    LET changed == {i \in ids : rows[i].archived # on} IN
    /\ changed # {} /\ ids \subseteq Live
    /\ Unlocked /\ \A i \in ids : ~Held(i)
    /\ rows' = [i \in Ids |-> IF i \in changed THEN [rows[i] EXCEPT !.archived = on] ELSE rows[i]]
    /\ count' = IF on THEN count - Cardinality(changed) ELSE count
    /\ UNCHANGED <<members, locked, keys, events, txs, made>>

\* sys_bookmark_archive_set, for a composition that limits a plan; it restores against no ceiling.
Archive(ids, on) ==
    LET changed == {i \in ids : rows[i].archived # on} IN
    /\ changed # {} /\ ids \subseteq Live
    /\ Unlocked /\ \A i \in ids : ~Held(i)
    /\ rows' = [i \in Ids |-> IF i \in changed THEN [rows[i] EXCEPT !.archived = on] ELSE rows[i]]
    /\ count' = IF on THEN count - Cardinality(changed) ELSE count + Cardinality(changed)
    /\ UNCHANGED <<members, locked, keys, events, txs, made>>

-----------------------------------------------------------------------------
\* An invitation is accepted.
Join(a) ==
    /\ a \notin members /\ Unlocked
    /\ members' = members \cup {a}
    /\ UNCHANGED <<rows, count, locked, keys, events, txs, made>>

ReleasedKeepingSlug(r, d, content, to) ==
    [r EXCEPT !.owner = Nobody, !.departure = d, !.saved = NoSlug, !.had = r.slug, !.choice = content, !.to = to]

\* bookmarks_clear_slug_on_release: the bookmark loses its owner, and its slug if a bookmark without owner has it; the slug
\* is saved for the departure.
ReleasedRow(r, d, content, to) ==
    LET clash == Has(Nobody, r.slug) IN
    [r EXCEPT !.owner = Nobody, !.departure = d, !.had = r.slug, !.choice = content, !.to = to,
              !.slug = IF clash THEN NoSlug ELSE r.slug,
              !.saved = IF clash /\ d # 0 THEN r.slug ELSE NoSlug]

\* The membership is deleted; its foreign key waits for changes of the bookmarks.
Release(a, d, content, to) ==
    /\ a \in members /\ Unlocked
    /\ \A i \in Own(a) : ~Held(i)
    /\ members' = members \ {a}
    /\ rows' = [i \in Ids |-> IF i \in Own(a) THEN ReleasedRow(rows[i], d, content, to) ELSE rows[i]]

\* endMembership: the choice and its recipient, another member, are queued with the end of the membership.
EndMembership(a, content, to) ==
    /\ to \in members \ {a}
    /\ \E d \in Departures :
          /\ events[d] = NoEvent /\ \A e \in 1 .. d - 1 : events[e] # NoEvent
          /\ Release(a, d, content, to)
          /\ events' = [events EXCEPT ![d] = [content |-> content, to |-> to]]
    /\ UNCHANGED <<count, locked, keys, txs, made>>

\* The account is deleted: what it leaves behind is nobody's.  (The same person may come back with another account.)
DeleteAccount(a) ==
    /\ members # {a}
    /\ Release(a, 0, "keep", Nobody)
    /\ UNCHANGED <<count, locked, keys, events, txs, made>>

-----------------------------------------------------------------------------
\* The slug a bookmark had when its owner left.
Original(r) == IF r.slug # NoSlug THEN r.slug ELSE r.saved

\* The event is delivered, once or more often: the workspace is locked and, for a transfer, the slugs of the recipient are read.
ReadDeparture(t, d) ==
    /\ txs[t] = Idle /\ Unlocked
    /\ events[d] # NoEvent
    /\ locked' = t
    /\ Put(t, [Idle EXCEPT !.op = "deliver", !.stage = "read", !.departure = d,
                           !.clash = {i \in Released(d) : Has(events[d].to, Original(rows[i]))}])
    /\ UNCHANGED <<members, rows, count, keys, events, made>>

Clear(r) == [r EXCEPT !.departure = 0, !.saved = NoSlug]
HandedOver(t, i, to) ==
    [Clear(rows[i]) EXCEPT !.owner = to, !.had = NoSlug, !.choice = "", !.to = Nobody,
                           !.slug = IF i \in txs[t].clash THEN NoSlug ELSE Original(rows[i])]

DeletesAll(d) == Own(Nobody)

\* The rows that a departure whose member chose to delete them deletes.
Deletes(d) == Released(d)

\* sys_member_departure_apply
ApplyDeparture(t) ==
    LET d == txs[t].departure
        to == events[d].to
    IN
    /\ txs[t].op = "deliver"
    /\ IF events[d].content = "delete"
       THEN /\ rows' = Deleted(Deletes(d))
            /\ count' = count - Cardinality(Counted(Deletes(d)))
       ELSE /\ rows' = [i \in Ids |-> IF i \notin Released(d) THEN rows[i]
                                      ELSE IF to \in members THEN HandedOver(t, i, to) ELSE Clear(rows[i])]
            /\ UNCHANGED count
            /\ to \in members => \A i \in Released(d) : ~Has(to, rows'[i].slug) /\ ~Waits(to, rows'[i].slug)
    /\ End(t)
    /\ UNCHANGED <<members, keys, events, made>>

\* The recipient took the slug of a bookmark meanwhile: the key of the table fails the delivery, which is made again.
Collide(t) ==
    LET d == txs[t].departure IN
    /\ txs[t].op = "deliver" /\ events[d].content = "transfer" /\ events[d].to \in members
    /\ \E i \in Released(d) : Has(events[d].to, HandedOver(t, i, events[d].to).slug)
    /\ End(t)
    /\ UNCHANGED <<members, rows, count, keys, events, made>>

Init ==
    /\ members = {Founder}
    /\ rows = [i \in Ids |-> NoRow]
    /\ count = 0 /\ locked = NoTx
    /\ keys = {}
    /\ events = [d \in Departures |-> NoEvent]
    /\ txs = [t \in Txs |-> Idle]
    /\ made = 0

Next ==
    \/ \E t \in Txs :
          \/ \E a \in Accounts, r \in Requests : Claim(t, a, r)
          \/ Take(t) \/ Insert(t) \/ Abort(t)
          \/ \E a \in Accounts, i \in Ids, s \in SlugOrNone : LockForUpdate(t, a, i, s)
          \/ Update(t)
          \/ \E d \in Departures : ReadDeparture(t, d)
          \/ ApplyDeparture(t) \/ Collide(t)
    \/ \E a \in Accounts :
          \/ \E ids \in SUBSET Ids : Delete(a, ids)
          \/ Join(a)
          \/ \E content \in {"transfer", "delete"}, to \in Accounts : EndMembership(a, content, to)
          \/ DeleteAccount(a)
    \/ \E ids \in SUBSET Ids, on \in BOOLEAN : Archive(ids, on)

Spec == Init /\ [][Next]_vars

-----------------------------------------------------------------------------
(***************************************************************************)
(* bookmark_count is the number of bookmarks that are not archived.        *)
(* (sys_bookmark_count_take, _delete, _archive_set, sys_member_departure_  *)
(* apply)                                                                  *)
(***************************************************************************)
CountMatches == count = Cardinality(Counted(Live))

(***************************************************************************)
(* No two bookmarks of one owner, nor two without an owner, have the same  *)
(* slug: neither the end of a membership nor a transfer meets the key of   *)
(* the table, whatever departures came before.  (bookmarks_clear_slug_on_  *)
(* release, sys_member_departure_apply)                                    *)
(***************************************************************************)
SlugsUnique ==
    \A i, j \in Live : i # j /\ rows[i].owner = rows[j].owner /\ rows[i].slug # NoSlug => rows[i].slug # rows[j].slug

(***************************************************************************)
(* However often, and however much at once, a client asks under one key,   *)
(* the bookmarks are made once, by one request.  (idempotencyRepository    *)
(* claim and complete)                                                     *)
(***************************************************************************)
OncePerKey ==
    [][\A i, j \in Ids : rows[i].key # NoKey /\ rows'[j].key # rows[j].key => rows'[j].key # rows[i].key]_vars

(***************************************************************************)
(* Creations and imports never take the counter over the ceiling.          *)
(* (sys_bookmark_count_take, sys_bookmark_count_take_many)                 *)
(***************************************************************************)
CeilingKept == [][made' > made => count' <= Ceiling \/ count' = count]_vars

(***************************************************************************)
(* A bookmark whose owner has gone is deleted only if that owner chose so, *)
(* and is given only to the recipient of that choice, with the slug it had *)
(* unless the delivery met it at the recipient's: deliveries made twice,   *)
(* late, or after the recipient left or the member came back change        *)
(* nothing else.  (endMembership, sys_member_departure_apply)              *)
(***************************************************************************)
OwnersChoice ==
    [][\A i \in Own(Nobody) :
          /\ rows'[i].state = "deleted" => rows[i].choice = "delete"
          /\ rows'[i].owner # Nobody =>
                /\ rows[i].choice = "transfer" /\ rows'[i].owner = rows[i].to /\ rows[i].to \in members
                /\ rows'[i].slug = rows[i].had \/ \E t \in Txs : txs[t].op = "deliver" /\ i \in txs[t].clash]_vars
=============================================================================
