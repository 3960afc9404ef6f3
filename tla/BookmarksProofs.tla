--------------------------- MODULE BookmarksProofs ---------------------------
(***************************************************************************)
(* Proofs about the counter, the slugs, the idempotency keys and the       *)
(* departures of Bookmarks, for any number of accounts, slugs, keys,       *)
(* transactions, bookmarks and departures and for any ceiling.             *)
(***************************************************************************)
EXTENDS Bookmarks, FiniteSetTheorems, TLAPS

\* Bookmarks are numbered as they are made.
Numbered == \A i \in Ids : rows[i].state # "none" => i <= made

\* A bookmark made under a key has stored the key.
KeysStored == \A i \in Ids : rows[i].key # NoKey => rows[i].key \in keys

\* A bookmark that waits for the event of its departure knows which: what its owner chose, and the slug it had.
Departed ==
    \A i \in Own(Nobody) :
        rows[i].departure # 0 =>
            /\ events[rows[i].departure] # NoEvent
            /\ events[rows[i].departure].content = rows[i].choice
            /\ events[rows[i].departure].to = rows[i].to
            /\ Original(rows[i]) = rows[i].had

\* The bookmarks of one departure had one owner, who had no slug twice.
OriginalsUnique ==
    \A i, j \in Own(Nobody) :
        /\ i # j /\ rows[i].departure = rows[j].departure /\ rows[i].departure # 0
        /\ Original(rows[i]) # NoSlug
        => Original(rows[i]) # Original(rows[j])

RowInv == Numbered /\ KeysStored /\ CountMatches /\ SlugsUnique /\ Departed /\ OriginalsUnique

\* What holds of q while it is what transaction t has in hand.
Sound(t, q) ==
    /\ q.key # NoKey => q.key \notin keys
    \* the places a creation has taken stay free as long as it holds the workspace's row
    /\ q.stage \in {"claimed", "taken"} => q.op \in {"create", "import"} /\ q.actor \in Accounts
    /\ q.stage = "taken" => locked = t /\ (q.places = 0 \/ count + q.places <= Ceiling)
    \* a bookmark whose slug is being changed keeps its owner
    /\ q.op = "update" => q.actor \in Accounts /\ q.id \in Own(q.actor)
    /\ q.op = "deliver" => locked = t /\ q.departure \in Departures /\ events[q.departure] # NoEvent

\* A key is in the hands of one transaction.
Alone(q, other) == q.key = other.key => q.key = NoKey

TxInv ==
    /\ \A t \in Txs : Sound(t, txs[t])
    /\ \A t, u \in Txs : t # u => Alone(txs[t], txs[u])

Inv == TypeOK /\ RowInv /\ TxInv

-----------------------------------------------------------------------------
\* What the transactions have in hand.
LEMMA IdleFields ==
    /\ Idle \in Tx /\ Idle.op = "idle" /\ Idle.stage = "" /\ Idle.key = NoKey /\ Idle.id = 0 /\ Idle.departure = 0
    /\ Idle.actor = Nobody /\ Idle.slug = NoSlug /\ Idle.places = 0 /\ Idle.clash = {}
  BY BookmarksAssumption DEF BookmarksAssumption, Idle, Tx, AccountOrNone, KeyOrNone, SlugOrNone

LEMMA TxFields ==
    ASSUME TypeOK, NEW t \in Txs
    PROVE  /\ txs[t] \in Tx /\ txs[t].actor \in AccountOrNone /\ txs[t].key \in KeyOrNone /\ txs[t].slug \in SlugOrNone
           /\ txs[t].id \in 0 .. MaxIds /\ txs[t].departure \in 0 .. MaxDepartures /\ txs[t].places \in 0 .. 2
           /\ txs[t].clash \subseteq Ids
  BY DEF TypeOK, Tx

LEMMA RowFields ==
    ASSUME TypeOK, NEW i \in Ids
    PROVE  /\ rows[i] \in Row /\ rows[i].state \in {"none", "live", "deleted"} /\ rows[i].owner \in AccountOrNone
           /\ rows[i].slug \in SlugOrNone /\ rows[i].archived \in BOOLEAN /\ rows[i].departure \in 0 .. MaxDepartures
           /\ rows[i].saved \in SlugOrNone /\ rows[i].key \in KeyOrNone /\ rows[i].had \in SlugOrNone
           /\ rows[i].choice \in {"", "keep", "transfer", "delete"} /\ rows[i].to \in AccountOrNone
  BY DEF TypeOK, Row

LEMMA NoRowFields ==
    /\ NoRow \in Row /\ NoRow.state = "none" /\ NoRow.owner = Nobody /\ NoRow.slug = NoSlug /\ NoRow.archived = FALSE
    /\ NoRow.departure = 0 /\ NoRow.saved = NoSlug /\ NoRow.key = NoKey
  BY BookmarksAssumption DEF BookmarksAssumption, NoRow, Row, AccountOrNone, KeyOrNone, SlugOrNone

LEMMA Putting ==
    ASSUME TypeOK, NEW t \in Txs, NEW q \in Tx, Put(t, q)
    PROVE  /\ txs' \in [Txs -> Tx] /\ txs'[t] = q
           /\ \A u \in Txs \ {t} : txs'[u] = txs[u]
  BY DEF TypeOK, Put

LEMMA Ending ==
    ASSUME TypeOK, NEW t \in Txs, End(t)
    PROVE  /\ txs' \in [Txs -> Tx] /\ txs'[t] = Idle
           /\ \A u \in Txs \ {t} : txs'[u] = txs[u]
           /\ locked' \in Txs \cup {NoTx}
           /\ \A u \in Txs \ {t} : locked = u => locked' = u
  BY IdleFields, Putting DEF End, TypeOK

\* A transaction with nothing in hand is sound in every state.
LEMMA IdleSound == ASSUME NEW t \in Txs PROVE Sound(t, Idle) /\ Sound(t, Idle)'
  BY IdleFields DEF Sound

LEMMA IdleAlone == ASSUME NEW q PROVE Alone(Idle, q) /\ Alone(q, Idle)
  BY IdleFields DEF Alone

\* The step of one transaction keeps the others as they are: what remains is that they stay sound.
LEMMA OneMoves ==
    ASSUME TypeOK, TxInv, NEW t \in Txs, NEW q \in Tx,
           txs' \in [Txs -> Tx], txs'[t] = q, \A u \in Txs \ {t} : txs'[u] = txs[u],
           Sound(t, q)',
           \A u \in Txs \ {t} : Sound(u, txs[u])',
           \A u \in Txs \ {t} : Alone(q, txs[u]) /\ Alone(txs[u], q)
    PROVE  TxInv'
  <1>1. ASSUME NEW u \in Txs PROVE Sound(u, txs[u])'
    BY <1>1 DEF Sound
  <1>2. ASSUME NEW u \in Txs, NEW v \in Txs, u # v PROVE Alone(txs[u], txs[v])'
    BY <1>2 DEF TxInv, Alone
  <1> QED BY <1>1, <1>2 DEF TxInv

-----------------------------------------------------------------------------
\* Sets of bookmarks are finite.
LEMMA Finite == \A S \in SUBSET Ids : IsFiniteSet(S) /\ Cardinality(S) \in 0 .. MaxIds
  <1>1. IsFiniteSet(Ids) /\ Cardinality(Ids) <= MaxIds
    BY BookmarksAssumption, FS_Interval DEF BookmarksAssumption, Ids
  <1> QED BY <1>1, FS_Subset, FS_CardinalityType, BookmarksAssumption DEF BookmarksAssumption

LEMMA Fewer == ASSUME NEW S \in SUBSET Ids, NEW T \in SUBSET S PROVE Cardinality(S \ T) = Cardinality(S) - Cardinality(T)
  <1>1. S \cap T = T
    OBVIOUS
  <1> QED BY <1>1, Finite, FS_Difference

LEMMA More ==
    ASSUME NEW S \in SUBSET Ids, NEW T \in SUBSET Ids, S \cap T = {}
    PROVE  Cardinality(S \cup T) = Cardinality(S) + Cardinality(T)
  <1>1. IsFiniteSet(S) /\ IsFiniteSet(T) /\ Cardinality(S) \in Nat /\ Cardinality(T) \in Nat
    BY Finite, FS_CardinalityType
  <1>2. Cardinality(S \cup T) = Cardinality(S) + Cardinality(T) - Cardinality(S \cap T)
    BY <1>1, FS_Union
  <1> QED BY <1>1, <1>2, FS_EmptySet

-----------------------------------------------------------------------------
\* A step that changes none of these keeps what holds of the bookmarks.
LEMMA RowsKept ==
    ASSUME RowInv, UNCHANGED <<rows, count, keys, events, made>>
    PROVE  RowInv'
  BY DEF RowInv, Numbered, KeysStored, CountMatches, SlugsUnique, Departed, OriginalsUnique, Original, Own, Counted, Live

\* A step that leaves alone the bookmarks that wait for the event of a departure.
LEMMA WaitingKept ==
    ASSUME RowInv, UNCHANGED events,
           \A i \in Own(Nobody)' : rows'[i].departure # 0 => i \in Own(Nobody) /\ rows'[i] = rows[i]
    PROVE  Departed' /\ OriginalsUnique'
  <1>1. ASSUME NEW i \in Own(Nobody)', rows'[i].departure # 0
        PROVE  /\ events'[rows'[i].departure] # NoEvent
               /\ events'[rows'[i].departure].content = rows'[i].choice
               /\ events'[rows'[i].departure].to = rows'[i].to
               /\ Original(rows'[i]) = rows'[i].had
    BY <1>1 DEF RowInv, Departed
  <1>2. ASSUME NEW i \in Own(Nobody)', NEW j \in Own(Nobody)', i # j, rows'[i].departure = rows'[j].departure,
               rows'[i].departure # 0, Original(rows'[i]) # NoSlug
        PROVE  Original(rows'[i]) # Original(rows'[j])
    BY <1>2 DEF RowInv, OriginalsUnique
  <1>3. Departed'
    BY <1>1 DEF Departed, Original
  <1>4. OriginalsUnique'
    BY <1>2 DEF OriginalsUnique, Original
  <1> QED BY <1>3, <1>4

\* Nor does one that ends a transaction, or takes the row, change what holds of the others.
LEMMA OthersSound ==
    ASSUME TypeOK, TxInv, NEW t \in Txs, UNCHANGED <<rows, count, keys, events, made>>,
           txs' \in [Txs -> Tx], \A u \in Txs \ {t} : txs'[u] = txs[u],
           \A u \in Txs \ {t} : locked = u => locked' = u
    PROVE  \A u \in Txs \ {t} : Sound(u, txs[u])'
  BY DEF TxInv, Sound, Own, Live

\* A step that only ends a transaction.
LEMMA EndInv ==
    ASSUME Inv, NEW t \in Txs, End(t), UNCHANGED <<rows, count, keys, events, made>>, members' \subseteq Accounts
    PROVE  Inv'
  <1>1. RowInv'
    BY RowsKept DEF Inv
  <1>2. TypeOK'
    BY Ending DEF Inv, TypeOK
  <1>3. TxInv'
    <2>1. \A u \in Txs \ {t} : Sound(u, txs[u])'
      BY Ending, OthersSound DEF Inv
    <2>2. Sound(t, Idle)'
      BY IdleSound
    <2> QED BY <2>1, <2>2, Ending, OneMoves, IdleFields, IdleAlone DEF Inv
  <1> QED BY <1>1, <1>2, <1>3 DEF Inv

LEMMA MoveInv ==
    ASSUME Inv, NEW t \in Txs, NEW q \in Tx, Put(t, q), Sound(t, q)',
           UNCHANGED <<members, rows, count, keys, events, made>>,
           locked' \in Txs \cup {NoTx}, \A u \in Txs \ {t} : locked = u => locked' = u,
           \A u \in Txs \ {t} : Alone(q, txs[u]) /\ Alone(txs[u], q)
    PROVE  Inv'
  <1>1. RowInv'
    BY RowsKept DEF Inv
  <1>2. txs' \in [Txs -> Tx] /\ txs'[t] = q /\ \A u \in Txs \ {t} : txs'[u] = txs[u]
    BY Putting DEF Inv
  <1>3. TypeOK'
    BY <1>2 DEF Inv, TypeOK
  <1>4. TxInv'
    <2>1. \A u \in Txs \ {t} : Sound(u, txs[u])'
      BY <1>2, OthersSound DEF Inv
    <2> QED BY <1>2, <2>1, OneMoves DEF Inv
  <1> QED BY <1>1, <1>3, <1>4 DEF Inv

LEMMA InitInv == Init => Inv
  <1> SUFFICES ASSUME Init PROVE Inv
    OBVIOUS
  <1>1. TypeOK
    <2>1. members \subseteq Accounts /\ count \in 0 .. MaxIds /\ locked \in Txs \cup {NoTx} /\ made \in 0 .. MaxIds
      BY BookmarksAssumption DEF BookmarksAssumption, Init
    <2>2. NoEvent \in Event
      BY DEF NoEvent, Event, AccountOrNone
    <2> QED BY <2>1, <2>2, IdleFields, NoRowFields DEF Init, TypeOK
  <1>2. Live = {}
    BY DEF Init, Live, NoRow
  <1>3. RowInv
    BY <1>2, FS_EmptySet
    DEF Init, RowInv, Numbered, KeysStored, CountMatches, SlugsUnique, Departed, OriginalsUnique, Own, Counted, NoRow
  <1>4. TxInv
    BY IdleSound, IdleAlone DEF Init, TxInv
  <1> QED BY <1>1, <1>3, <1>4 DEF Inv

-----------------------------------------------------------------------------
\* The steps that read, or take a lock.
LEMMA ClaimInv == ASSUME Inv, NEW t \in Txs, NEW a \in Accounts, NEW r \in Requests, Claim(t, a, r) PROVE Inv'
  <1> DEFINE q == [Idle EXCEPT !.op = r.op, !.stage = "claimed", !.actor = a, !.key = KeyOf(a, r), !.slug = r.slug]
  <1>1. /\ r.op \in {"create", "import"} /\ r.slug \in SlugOrNone /\ KeyOf(a, r) \in KeyOrNone
        /\ r.key = NoKey => KeyOf(a, r) = NoKey
    BY BookmarksAssumption DEF BookmarksAssumption, KeyOf, KeyOrNone, SlugOrNone
  <1>2. /\ q \in Tx /\ q.op = r.op /\ q.stage = "claimed" /\ q.actor = a /\ q.key = KeyOf(a, r)
    BY <1>1, IdleFields DEF Tx, Idle, AccountOrNone
  <1>3. Sound(t, q)'
    BY <1>1, <1>2 DEF Claim, Sound
  <1>4. \A u \in Txs \ {t} : Alone(q, txs[u]) /\ Alone(txs[u], q)
    BY <1>1, <1>2 DEF Claim, Alone
  <1> QED BY <1>2, <1>3, <1>4, MoveInv DEF Claim, Inv, TypeOK

LEMMA TakeInv == ASSUME Inv, NEW t \in Txs, Take(t) PROVE Inv'
  <1> DEFINE room == IF count < Ceiling THEN Ceiling - count ELSE 0
             places == Least(Wanted(txs[t].op), room)
  <1>1. CASE End(t)
    BY <1>1, EndInv DEF Take, Inv, TypeOK
  <1>2. CASE Put(t, [txs[t] EXCEPT !.stage = "taken", !.places = places]) /\ locked' = t
    <2>1. places \in 0 .. 2 /\ (places = 0 \/ count + places <= Ceiling)
      BY BookmarksAssumption DEF BookmarksAssumption, Inv, TypeOK, Least, Wanted
    <2> HIDE DEF places
    <2>2. [txs[t] EXCEPT !.stage = "taken", !.places = places] \in Tx
      BY <2>1, TxFields DEF Inv, Tx
    <2>3. PICK q \in Tx : q = [txs[t] EXCEPT !.stage = "taken", !.places = places]
      BY <2>2
    <2>4. /\ q.op = txs[t].op /\ q.stage = "taken" /\ q.places = places /\ q.key = txs[t].key
          /\ q.actor = txs[t].actor
      BY <2>3, TxFields DEF Inv, Tx
    <2>5. Sound(t, txs[t]) /\ txs[t].stage = "claimed"
      BY DEF Inv, TxInv, Take
    <2>6. Sound(t, q)'
      BY <1>2, <2>1, <2>4, <2>5 DEF Sound, Take
    <2>7. \A u \in Txs \ {t} : Alone(q, txs[u]) /\ Alone(txs[u], q)
      BY <2>4 DEF Inv, TxInv, Alone
    <2>8. locked' \in Txs \cup {NoTx} /\ \A u \in Txs \ {t} : locked = u => locked' = u
      BY <1>2, BookmarksAssumption DEF BookmarksAssumption, Take, Unlocked
    <2>9. Put(t, q) /\ UNCHANGED <<members, rows, count, keys, events, made>>
      BY <1>2, <2>3 DEF Take
    <2> QED BY <2>6, <2>7, <2>8, <2>9, MoveInv
  <1> QED BY <1>1, <1>2 DEF Take

LEMMA LockForUpdateInv ==
    ASSUME Inv, NEW t \in Txs, NEW a \in Accounts, NEW i \in Ids, NEW s \in SlugOrNone, LockForUpdate(t, a, i, s)
    PROVE  Inv'
  <1> DEFINE q == [Idle EXCEPT !.op = "update", !.stage = "read", !.actor = a, !.id = i, !.slug = s]
  <1>0. i \in 0 .. MaxIds /\ a \in AccountOrNone
    BY BookmarksAssumption DEF BookmarksAssumption, AccountOrNone, Ids
  <1>1. q \in Tx /\ q.op = "update" /\ q.stage = "read" /\ q.actor = a /\ q.key = NoKey /\ q.id = i
    BY <1>0, IdleFields DEF Tx, Idle
  <1>2. Sound(t, q)'
    BY <1>1 DEF LockForUpdate, Sound, Own, Live
  <1>3. \A u \in Txs \ {t} : Alone(q, txs[u]) /\ Alone(txs[u], q)
    BY <1>1 DEF Alone
  <1> QED BY <1>1, <1>2, <1>3, MoveInv DEF LockForUpdate, Inv, TypeOK

LEMMA ReadDepartureInv == ASSUME Inv, NEW t \in Txs, NEW d \in Departures, ReadDeparture(t, d) PROVE Inv'
  <1> DEFINE clash == {i \in Released(d) : Has(events[d].to, Original(rows[i]))}
  <1>1. clash \subseteq Ids /\ d \in 0 .. MaxDepartures
    BY BookmarksAssumption DEF BookmarksAssumption, Released, Own, Live, Departures
  <1>2. /\ Put(t, [Idle EXCEPT !.op = "deliver", !.stage = "read", !.departure = d, !.clash = clash])
        /\ events[d] # NoEvent /\ locked' = t
        /\ UNCHANGED <<members, rows, count, keys, events, made>>
    BY DEF ReadDeparture
  <1> HIDE DEF clash
  <1>3. [Idle EXCEPT !.op = "deliver", !.stage = "read", !.departure = d, !.clash = clash] \in Tx
    BY <1>1, IdleFields DEF Tx, Idle
  <1>4. PICK q \in Tx : q = [Idle EXCEPT !.op = "deliver", !.stage = "read", !.departure = d, !.clash = clash]
    BY <1>3
  <1>5. q.op = "deliver" /\ q.stage = "read" /\ q.departure = d /\ q.key = NoKey
    BY <1>4 DEF Idle
  <1>6. Sound(t, q)'
    BY <1>2, <1>5 DEF Sound
  <1>7. \A u \in Txs \ {t} : Alone(q, txs[u]) /\ Alone(txs[u], q)
    BY <1>5 DEF Alone
  <1>8. locked' \in Txs \cup {NoTx} /\ \A u \in Txs \ {t} : locked = u => locked' = u
    BY BookmarksAssumption DEF BookmarksAssumption, ReadDeparture, Unlocked
  <1> QED BY <1>2, <1>4, <1>6, <1>7, <1>8, MoveInv

LEMMA AbortInv == ASSUME Inv, NEW t \in Txs, Abort(t) \/ Collide(t) PROVE Inv'
  BY EndInv DEF Abort, Collide, Inv, TypeOK

-----------------------------------------------------------------------------
\* The steps that change bookmarks while no transaction holds the workspace's row.
LEMMA StillSound ==
    ASSUME Inv, Unlocked, UNCHANGED <<locked, keys, txs>>,
           \A t \in Txs : txs[t].op = "update" => txs[t].id \in Own(txs[t].actor)'
    PROVE  TxInv'
  <1>1. ASSUME NEW t \in Txs PROVE Sound(t, txs[t])'
    <2>1. Sound(t, txs[t]) /\ t # NoTx
      BY BookmarksAssumption DEF BookmarksAssumption, Inv, TxInv
    <2> QED BY <2>1 DEF Sound, Unlocked
  <1>2. \A t, u \in Txs : t # u => Alone(txs[t], txs[u])'
    BY DEF Inv, TxInv, Alone
  <1> QED BY <1>1, <1>2 DEF TxInv

\* The deletion of counted and archived bookmarks, by their owner or with a departure.
LEMMA Deleting ==
    ASSUME TypeOK, RowInv, NEW ids \in SUBSET Live, rows' = Deleted(ids), UNCHANGED <<keys, made>>,
           count' = count - Cardinality(Counted(ids)), UNCHANGED events
    PROVE  /\ RowInv' /\ rows' \in [Ids -> Row] /\ count' \in 0 .. MaxIds
           /\ \A a : Own(a)' = Own(a) \ ids
           /\ \A i \in Ids \ ids : rows'[i] = rows[i]
           /\ \A i \in ids : rows'[i].state = "deleted" /\ rows'[i].owner = Nobody /\ rows'[i].key = rows[i].key
  <1>1. /\ \A i \in Ids \ ids : rows'[i] = rows[i]
        /\ \A i \in ids : /\ rows'[i] \in Row /\ rows'[i].state = "deleted" /\ rows'[i].owner = Nobody
                          /\ rows'[i].key = rows[i].key
        /\ rows' \in [Ids -> Row]
    <2>1. \A i \in Ids : rows[i].key \in KeyOrNone /\ rows[i] \in Row
      BY RowFields
    <2>2. \A k \in KeyOrNone : [NoRow EXCEPT !.state = "deleted", !.key = k] \in Row
      BY NoRowFields DEF Row
    <2>3. \A k \in KeyOrNone : LET r == [NoRow EXCEPT !.state = "deleted", !.key = k] IN
             r.state = "deleted" /\ r.owner = Nobody /\ r.key = k
      BY DEF NoRow
    <2> QED BY <2>1, <2>2, <2>3 DEF Deleted, Live
  <1>2. Live' = Live \ ids /\ \A a : Own(a)' = Own(a) \ ids
    BY <1>1 DEF Live, Own
  <1>3. CountMatches'
    <2>1. Counted(Live)' = Counted(Live) \ Counted(ids)
      BY <1>1, <1>2 DEF Counted, Live
    <2>2. Counted(ids) \subseteq Counted(Live) /\ Counted(Live) \subseteq Ids
      BY DEF Counted, Live
    <2> QED BY <2>1, <2>2, Fewer DEF RowInv, CountMatches
  <1>4. Numbered' /\ KeysStored'
    BY <1>1 DEF RowInv, Numbered, KeysStored, Live
  <1>5. SlugsUnique' /\ Departed' /\ OriginalsUnique'
    <2>1. \A i \in Live' : i \in Live /\ rows'[i] = rows[i]
      BY <1>1, <1>2 DEF Live
    <2>2. \A i \in Own(Nobody)' : i \in Own(Nobody) /\ rows'[i] = rows[i]
      BY <1>1, <1>2 DEF Own, Live
    <2>3. SlugsUnique'
      BY <2>1 DEF RowInv, SlugsUnique
    <2>4. Departed' /\ OriginalsUnique'
      BY <2>2, WaitingKept
    <2> QED BY <2>3, <2>4
  <1>6. count' \in 0 .. MaxIds
    BY <1>3, Finite DEF CountMatches, Counted, Live
  <1> QED BY <1>1, <1>2, <1>3, <1>4, <1>5, <1>6 DEF RowInv

LEMMA DeleteInv == ASSUME Inv, NEW a \in Accounts, NEW ids \in SUBSET Ids, Delete(a, ids) PROVE Inv'
  <1>1. /\ RowInv' /\ rows' \in [Ids -> Row] /\ count' \in 0 .. MaxIds
        /\ \A b : Own(b)' = Own(b) \ ids
    BY Deleting DEF Inv, Delete, Own
  <1>2. TypeOK'
    BY <1>1 DEF Inv, TypeOK, Delete
  <1>3. \A t \in Txs : txs[t].op = "update" => txs[t].id \in Own(txs[t].actor)'
    BY <1>1 DEF Delete, Held, Inv, TxInv, Sound
  <1>4. TxInv'
    BY <1>3, StillSound DEF Delete
  <1> QED BY <1>1, <1>2, <1>4 DEF Inv

LEMMA ArchiveInv == ASSUME Inv, NEW ids \in SUBSET Ids, NEW on \in BOOLEAN, Archive(ids, on) PROVE Inv'
  <1> DEFINE changed == {i \in ids : rows[i].archived # on}
  <1>1. /\ \A i \in Ids \ changed : rows'[i] = rows[i]
        /\ \A i \in changed : rows'[i] = [rows[i] EXCEPT !.archived = on]
        /\ changed \subseteq Live /\ changed \subseteq Ids
    BY DEF Archive
  <1>2. rows' \in [Ids -> Row] /\ \A i \in Ids : rows'[i].archived = (IF i \in changed THEN on ELSE rows[i].archived)
    <2>1. \A i \in Ids : rows[i] \in Row
      BY RowFields DEF Inv
    <2>2. \A r \in Row : [r EXCEPT !.archived = on] \in Row /\ [r EXCEPT !.archived = on].archived = on
      BY DEF Row
    <2>3. rows' = [i \in Ids |-> IF i \in changed THEN [rows[i] EXCEPT !.archived = on] ELSE rows[i]]
      BY DEF Archive
    <2> QED BY <2>1, <2>2, <2>3
  <1>3. \A i \in Ids : /\ rows'[i].state = rows[i].state /\ rows'[i].owner = rows[i].owner /\ rows'[i].slug = rows[i].slug
                       /\ rows'[i].departure = rows[i].departure /\ rows'[i].saved = rows[i].saved
                       /\ rows'[i].key = rows[i].key /\ rows'[i].had = rows[i].had
                       /\ rows'[i].choice = rows[i].choice /\ rows'[i].to = rows[i].to
    <2> SUFFICES ASSUME NEW i \in Ids
                 PROVE  /\ rows'[i].state = rows[i].state /\ rows'[i].owner = rows[i].owner /\ rows'[i].slug = rows[i].slug
                        /\ rows'[i].departure = rows[i].departure /\ rows'[i].saved = rows[i].saved
                        /\ rows'[i].key = rows[i].key /\ rows'[i].had = rows[i].had
                        /\ rows'[i].choice = rows[i].choice /\ rows'[i].to = rows[i].to
      OBVIOUS
    <2>1. PICK r \in Row : r = rows[i]
      BY RowFields DEF Inv
    <2>2. rows'[i] = r \/ rows'[i] = [r EXCEPT !.archived = on]
      BY <1>1, <2>1
    <2> QED BY <2>1, <2>2 DEF Row
  <1>4. Live' = Live /\ \A a : Own(a)' = Own(a)
    BY <1>3 DEF Live, Own
  <1>5. \A i \in changed : rows[i].archived = ~on
    BY <1>1, RowFields DEF Inv
  <1>6. CountMatches'
    <2>1. Counted(Live) \subseteq Ids
      BY DEF Counted, Live
    <2>2. CASE on
      <3>1. Counted(Live)' = Counted(Live) \ changed /\ changed \subseteq Counted(Live)
        BY <1>1, <1>2, <1>4, <1>5, <2>2 DEF Counted, Live
      <3> QED BY <2>1, <2>2, <3>1, Fewer DEF Archive, Inv, RowInv, CountMatches
    <2>3. CASE ~on
      <3>1. Counted(Live)' = Counted(Live) \cup changed /\ Counted(Live) \cap changed = {}
        BY <1>1, <1>2, <1>4, <1>5, <2>3 DEF Counted, Live
      <3> QED BY <1>1, <2>1, <2>3, <3>1, More DEF Archive, Inv, RowInv, CountMatches
    <2> QED BY <2>2, <2>3
  <1>7. count' \in 0 .. MaxIds
    BY <1>6, Finite DEF CountMatches, Counted, Live
  <1>8. RowInv'
    <2>1. Numbered' /\ KeysStored' /\ SlugsUnique'
      BY <1>3, <1>4 DEF Archive, Inv, RowInv, Numbered, KeysStored, SlugsUnique, Live
    <2>2. Departed' /\ OriginalsUnique'
      BY <1>3, <1>4 DEF Archive, Inv, RowInv, Departed, OriginalsUnique, Original, Own, Live
    <2> QED BY <1>6, <2>1, <2>2 DEF RowInv
  <1>9. TypeOK'
    BY <1>2, <1>7 DEF Archive, Inv, TypeOK
  <1>10. TxInv'
    <2>1. \A t \in Txs : txs[t].op = "update" => txs[t].id \in Own(txs[t].actor)'
      BY <1>4 DEF Inv, TxInv, Sound, Archive
    <2> QED BY <2>1, StillSound DEF Archive
  <1> QED BY <1>8, <1>9, <1>10 DEF Inv

LEMMA JoinInv == ASSUME Inv, NEW a \in Accounts, Join(a) PROVE Inv'
  <1>1. RowInv'
    BY RowsKept DEF Inv, Join
  <1>2. TypeOK'
    BY DEF Inv, TypeOK, Join
  <1>3. TxInv'
    <2>1. \A t \in Txs : txs[t].op = "update" => txs[t].id \in Own(txs[t].actor)'
      BY DEF Inv, TxInv, Sound, Join, Own, Live
    <2> QED BY <2>1, StillSound DEF Join
  <1> QED BY <1>1, <1>2, <1>3 DEF Inv

\* A bookmark that is released keeps, for its departure, the slug it had.
LEMMA ReleasedFields ==
    ASSUME NEW r \in Row, NEW d \in 0 .. MaxDepartures, NEW content \in {"keep", "transfer", "delete"}, NEW to \in AccountOrNone
    PROVE  LET q == ReleasedRow(r, d, content, to) IN
           /\ q \in Row /\ q.state = r.state /\ q.owner = Nobody /\ q.archived = r.archived /\ q.departure = d
           /\ q.key = r.key /\ q.had = r.slug /\ q.choice = content /\ q.to = to
           /\ q.slug \in {r.slug, NoSlug} /\ (q.slug # NoSlug => ~Has(Nobody, q.slug))
           /\ d # 0 => Original(q) = r.slug
  <1> DEFINE clash == Has(Nobody, r.slug)
  <1>1. r.slug \in SlugOrNone /\ NoSlug \in SlugOrNone /\ Nobody \in AccountOrNone /\ (clash => r.slug # NoSlug)
    BY DEF Row, SlugOrNone, AccountOrNone, Has
  <1>2. ReleasedRow(r, d, content, to) =
          [r EXCEPT !.owner = Nobody, !.departure = d, !.had = r.slug, !.choice = content, !.to = to,
                    !.slug = IF clash THEN NoSlug ELSE r.slug,
                    !.saved = IF clash /\ d # 0 THEN r.slug ELSE NoSlug]
    BY DEF ReleasedRow
  <1>3. PICK c \in BOOLEAN : c = clash
    BY DEF Has
  <1> DEFINE q == ReleasedRow(r, d, content, to)
  <1>4. q \in Row /\ q.state = r.state /\ q.owner = Nobody /\ q.archived = r.archived /\ q.departure = d
        /\ q.key = r.key /\ q.had = r.slug /\ q.choice = content /\ q.to = to
        /\ q.slug = (IF c THEN NoSlug ELSE r.slug) /\ q.saved = (IF c /\ d # 0 THEN r.slug ELSE NoSlug)
    <2> HIDE DEF clash
    <2> QED BY <1>1, <1>2, <1>3 DEF Row
  <1> HIDE DEF q
  <1>5. q.slug \in {r.slug, NoSlug} /\ (q.slug # NoSlug => ~Has(Nobody, q.slug))
    BY <1>1, <1>3, <1>4
  <1>6. d # 0 => Original(q) = r.slug
    BY <1>1, <1>3, <1>4 DEF Original
  <1> QED BY <1>4, <1>5, <1>6 DEF q

LEMMA ReleaseInv ==
    ASSUME Inv, NEW a \in Accounts, NEW d \in 0 .. MaxDepartures, NEW content \in {"keep", "transfer", "delete"},
           NEW to \in AccountOrNone, Release(a, d, content, to), UNCHANGED <<count, locked, keys, txs, made>>,
           events' \in [Departures -> Event], \A e \in Departures \ {d} : events'[e] = events[e],
           d # 0 => events[d] = NoEvent /\ events'[d] # NoEvent /\ events'[d].content = content /\ events'[d].to = to
    PROVE  Inv'
  <1>1. /\ \A i \in Ids \ Own(a) : rows'[i] = rows[i]
        /\ \A i \in Own(a) : /\ rows'[i] \in Row /\ rows'[i].state = rows[i].state /\ rows'[i].owner = Nobody
                             /\ rows'[i].archived = rows[i].archived /\ rows'[i].departure = d /\ rows'[i].key = rows[i].key
                             /\ rows'[i].had = rows[i].slug /\ rows'[i].choice = content /\ rows'[i].to = to
                             /\ rows'[i].slug \in {rows[i].slug, NoSlug}
                             /\ rows'[i].slug # NoSlug => ~Has(Nobody, rows'[i].slug)
                             /\ d # 0 => Original(rows'[i]) = rows[i].slug
        /\ rows' \in [Ids -> Row]
    <2>1. \A i \in Ids : rows[i] \in Row
      BY RowFields DEF Inv
    <2>2. rows' = [i \in Ids |-> IF i \in Own(a) THEN ReleasedRow(rows[i], d, content, to) ELSE rows[i]]
      BY DEF Release
    <2>3. Own(a) \subseteq Ids
      BY DEF Own, Live
    <2>4. ASSUME NEW i \in Own(a)
          PROVE  /\ rows'[i] \in Row /\ rows'[i].state = rows[i].state /\ rows'[i].owner = Nobody
                 /\ rows'[i].archived = rows[i].archived /\ rows'[i].departure = d /\ rows'[i].key = rows[i].key
                 /\ rows'[i].had = rows[i].slug /\ rows'[i].choice = content /\ rows'[i].to = to
                 /\ rows'[i].slug \in {rows[i].slug, NoSlug}
                 /\ rows'[i].slug # NoSlug => ~Has(Nobody, rows'[i].slug)
                 /\ d # 0 => Original(rows'[i]) = rows[i].slug
      <3>1. PICK r \in Row : r = rows[i]
        BY <2>1, <2>3
      <3>2. rows'[i] = ReleasedRow(r, d, content, to)
        BY <2>2, <2>3, <3>1
      <3> QED BY <3>1, <3>2, ReleasedFields
    <2> QED BY <2>1, <2>2, <2>3, <2>4
  <1>2. a # Nobody
    BY BookmarksAssumption DEF BookmarksAssumption
  <1>3. Live' = Live
    BY <1>1 DEF Live, Own
  <1>4. Own(Nobody)' = Own(Nobody) \cup Own(a) /\ \A b : b \notin {a, Nobody} => Own(b)' = Own(b)
    BY <1>1, <1>2, <1>3 DEF Own, Live
  <1>5. Numbered' /\ KeysStored' /\ CountMatches'
    <2>1. Counted(Live)' = Counted(Live)
      BY <1>1, <1>3 DEF Counted, Live
    <2>2. \A i \in Ids : rows'[i].state = rows[i].state /\ rows'[i].key = rows[i].key
      BY <1>1
    <2> QED BY <2>1, <2>2 DEF Inv, RowInv, Numbered, KeysStored, CountMatches
  <1>6. SlugsUnique'
    <2> SUFFICES ASSUME NEW i \in Live, NEW j \in Live, i # j, rows'[i].owner = rows'[j].owner,
                        rows'[i].slug # NoSlug, rows'[i].slug = rows'[j].slug
                 PROVE  FALSE
      BY <1>3 DEF SlugsUnique
    <2>1. i \in Ids /\ j \in Ids
      BY DEF Live
    <2>2. CASE i \in Own(a) /\ j \in Own(a)
      BY <1>1, <2>2 DEF Inv, RowInv, SlugsUnique, Own
    <2>3. CASE i \in Own(a) /\ j \notin Own(a)
      BY <1>1, <2>1, <2>3 DEF Has, Own
    <2>4. CASE i \notin Own(a) /\ j \in Own(a)
      BY <1>1, <2>1, <2>4 DEF Has, Own
    <2>5. CASE i \notin Own(a) /\ j \notin Own(a)
      BY <1>1, <2>1, <2>5 DEF Inv, RowInv, SlugsUnique
    <2> QED BY <2>2, <2>3, <2>4, <2>5
  <1>7. \A i \in Own(Nobody) : /\ rows'[i] = rows[i] /\ i \notin Own(a)
                               /\ rows[i].departure # 0 => rows[i].departure \in Departures \ {d}
    <2>1. \A i \in Own(Nobody) : i \in Ids /\ i \notin Own(a) /\ rows[i].departure \in 0 .. MaxDepartures
      BY <1>2, RowFields DEF Inv, Own, Live
    <2>2. \A e \in 0 .. MaxDepartures : e # 0 => e \in Departures
      BY BookmarksAssumption DEF BookmarksAssumption, Departures
    <2> QED BY <1>1, <2>1, <2>2 DEF Inv, RowInv, Departed
  <1>8. Departed'
    <2> SUFFICES ASSUME NEW i \in Own(Nobody)', rows'[i].departure # 0
                 PROVE  /\ events'[rows'[i].departure] # NoEvent
                        /\ events'[rows'[i].departure].content = rows'[i].choice
                        /\ events'[rows'[i].departure].to = rows'[i].to
                        /\ Original(rows'[i]) = rows'[i].had
      BY DEF Departed, Original
    <2>1. CASE i \in Own(a)
      <3>1. /\ rows'[i].departure = d /\ rows'[i].had = rows[i].slug /\ rows'[i].choice = content /\ rows'[i].to = to
            /\ d # 0 => Original(rows'[i]) = rows[i].slug
        BY <1>1, <2>1
      <3>2. d # 0
        BY <3>1
      <3> QED BY <3>1, <3>2
    <2>2. CASE i \in Own(Nobody)
      BY <1>7, <2>2 DEF Inv, RowInv, Departed
    <2> QED BY <1>4, <2>1, <2>2
  <1>9. OriginalsUnique'
    <2> SUFFICES ASSUME NEW i \in Own(Nobody)', NEW j \in Own(Nobody)', i # j,
                        rows'[i].departure = rows'[j].departure, rows'[i].departure # 0,
                        Original(rows'[i]) # NoSlug, Original(rows'[i]) = Original(rows'[j])
                 PROVE  FALSE
      BY DEF OriginalsUnique, Original
    <2>1. CASE i \in Own(a) /\ j \in Own(a)
      BY <1>1, <2>1 DEF Inv, RowInv, SlugsUnique, Own
    <2>2. CASE i \in Own(Nobody) /\ j \in Own(Nobody)
      BY <1>7, <2>2 DEF Inv, RowInv, OriginalsUnique
    <2>3. \A k \in Own(a), l \in Own(Nobody) : rows'[k].departure = rows'[l].departure => rows'[l].departure = 0
      BY <1>1, <1>7
    <2> QED BY <1>4, <2>1, <2>2, <2>3
  <1>10. TxInv'
    <2>1. ASSUME NEW t \in Txs, txs[t].op = "update" PROVE txs[t].id \in Own(txs[t].actor)'
      <3>1. txs[t].actor \in Accounts /\ txs[t].id \in Own(txs[t].actor)
        BY <2>1 DEF Inv, TxInv, Sound
      <3>2. txs[t].actor # a /\ txs[t].actor # Nobody
        BY <2>1, <3>1, BookmarksAssumption DEF BookmarksAssumption, Release, Held
      <3>3. PICK b \in Accounts : b = txs[t].actor /\ b = txs'[t].actor
        BY <3>1
      <3>4. txs[t].id \in Own(b)'
        BY <1>4, <3>1, <3>2, <3>3
      <3> QED BY <3>3, <3>4
    <2> QED BY <2>1, StillSound DEF Release
  <1>11. TypeOK'
    BY <1>1 DEF Inv, TypeOK, Release
  <1> QED BY <1>5, <1>6, <1>8, <1>9, <1>10, <1>11 DEF Inv, RowInv

LEMMA EndMembershipInv ==
    ASSUME Inv, NEW a \in Accounts, NEW content \in {"transfer", "delete"}, NEW to \in Accounts, EndMembership(a, content, to)
    PROVE  Inv'
  <1>1. PICK d \in Departures : /\ events[d] = NoEvent
                                /\ Release(a, d, content, to)
                                /\ events' = [events EXCEPT ![d] = [content |-> content, to |-> to]]
    BY DEF EndMembership
  <1>2. d \in 0 .. MaxDepartures /\ d # 0 /\ to \in AccountOrNone /\ to # Nobody
    BY BookmarksAssumption DEF BookmarksAssumption, Departures, AccountOrNone
  <1>3. events' \in [Departures -> Event] /\ events'[d] = [content |-> content, to |-> to]
    BY <1>1, <1>2 DEF Inv, TypeOK, Event
  <1>4. \A e \in Departures \ {d} : events'[e] = events[e]
    BY <1>1 DEF Inv, TypeOK
  <1>5. events'[d] # NoEvent /\ events'[d].content = content /\ events'[d].to = to
    BY <1>2, <1>3 DEF NoEvent
  <1>6. content \in {"keep", "transfer", "delete"} /\ UNCHANGED <<count, locked, keys, txs, made>>
    BY DEF EndMembership
  <1> QED BY <1>1, <1>2, <1>3, <1>4, <1>5, <1>6, ReleaseInv

LEMMA DeleteAccountInv == ASSUME Inv, NEW a \in Accounts, DeleteAccount(a) PROVE Inv'
  <1>1. 0 \in 0 .. MaxDepartures /\ Nobody \in AccountOrNone
    BY BookmarksAssumption DEF BookmarksAssumption, AccountOrNone
  <1>2. Release(a, 0, "keep", Nobody) /\ UNCHANGED <<count, locked, keys, events, txs, made>>
    BY DEF DeleteAccount
  <1>3. events' \in [Departures -> Event]
    BY <1>2 DEF Inv, TypeOK
  <1> QED BY <1>1, <1>2, <1>3, ReleaseInv

-----------------------------------------------------------------------------
\* The steps that write bookmarks at the end of a transaction.
LEMMA InsertInv == ASSUME Inv, NEW t \in Txs, Insert(t) PROVE Inv'
  <1> DEFINE ids == made + 1 .. made + txs[t].places
             taken == Has(txs[t].actor, txs[t].slug)
             new == [NoRow EXCEPT !.state = "live", !.owner = txs[t].actor, !.key = txs[t].key]
  <1>1. CASE taken /\ txs[t].op = "create"
    BY <1>1, EndInv DEF Insert, Inv, TypeOK
  <1>2. CASE ~(taken /\ txs[t].op = "create")
    <2>1. /\ rows' = [i \in Ids |-> IF i \notin ids THEN rows[i]
                                    ELSE IF i = made + 1 /\ ~taken THEN [new EXCEPT !.slug = txs[t].slug] ELSE new]
          /\ count' = count + txs[t].places
          /\ keys' = keys \cup ({txs[t].key} \ {NoKey})
          /\ made' = made + txs[t].places
          /\ made + txs[t].places <= MaxIds
          /\ End(t) /\ txs[t].stage = "taken"
          /\ UNCHANGED <<members, events>>
      BY <1>2 DEF Insert
    <2>2. /\ txs[t].places \in 0 .. 2 /\ txs[t].actor \in Accounts /\ txs[t].key \in KeyOrNone /\ txs[t].slug \in SlugOrNone
          /\ locked = t /\ (txs[t].key # NoKey => txs[t].key \notin keys)
      BY <2>1, TxFields DEF Inv, TxInv, Sound
    <2>3. ids \subseteq Ids /\ made' \in 0 .. MaxIds /\ \A i \in ids : i > made /\ i <= made'
      BY <2>1, <2>2, BookmarksAssumption DEF BookmarksAssumption, Ids, Inv, TypeOK
    <2>4. Cardinality(ids) = txs[t].places
      <3>1. PICK m \in Int : m = made + 1
        BY DEF Inv, TypeOK
      <3>2. PICK n \in Int : n = made + txs[t].places
        BY <2>2 DEF Inv, TypeOK
      <3>3. Cardinality(m .. n) = IF m > n THEN 0 ELSE n - m + 1
        BY FS_Interval
      <3> QED BY <2>2, <3>1, <3>2, <3>3 DEF Inv, TypeOK
    <2>5. PICK c \in BOOLEAN : c = taken
      BY DEF Has
    <2>6. \A i \in ids : /\ rows'[i] \in Row /\ rows'[i].state = "live" /\ rows'[i].owner = txs[t].actor
                         /\ rows'[i].archived = FALSE /\ rows'[i].key = txs[t].key
                         /\ rows'[i].slug \in {txs[t].slug, NoSlug}
                         /\ rows'[i].slug # NoSlug => i = made + 1 /\ ~c
      <3>1. PICK n \in Row : n = new
        BY <2>2, NoRowFields DEF Row, NoRow, AccountOrNone
      <3>2. n.state = "live" /\ n.owner = txs[t].actor /\ n.archived = FALSE /\ n.key = txs[t].key /\ n.slug = NoSlug
        BY <3>1 DEF NoRow
      <3>3. PICK m \in Row : m = [n EXCEPT !.slug = txs[t].slug]
        BY <2>2 DEF Row
      <3>4. m.state = n.state /\ m.owner = n.owner /\ m.archived = n.archived /\ m.key = n.key /\ m.slug = txs[t].slug
        BY <3>3 DEF Row
      <3>5. \A i \in ids : (rows'[i] = m /\ i = made + 1 /\ ~c) \/ rows'[i] = n
        <4> HIDE DEF taken, new
        <4> QED BY <2>1, <2>3, <2>5, <3>1, <3>3
      <3> QED BY <3>2, <3>4, <3>5
    <2>7. \A i \in Ids \ ids : rows'[i] = rows[i]
      BY <2>1
    <2>8. rows' \in [Ids -> Row]
      <3>1. \A i \in Ids : rows'[i] \in Row
        BY <2>6, <2>7, RowFields DEF Inv
      <3>2. rows' = [i \in Ids |-> rows'[i]]
        BY <2>1
      <3> HIDE DEF ids, taken, new
      <3> QED BY <3>1, <3>2
    <2>9. \A i \in ids : rows[i].state = "none"
      BY <2>3 DEF Inv, RowInv, Numbered, TypeOK
    <2> HIDE DEF ids, new
    <2>10. Live' = Live \cup ids /\ Live \cap ids = {}
      BY <2>3, <2>6, <2>7, <2>9 DEF Live
    <2>11. \A a : Own(a)' = (IF a = txs[t].actor THEN Own(a) \cup ids ELSE Own(a))
      BY <2>3, <2>6, <2>7, <2>10 DEF Own, Live
    <2>12. CountMatches'
      <3>1. Counted(Live)' = Counted(Live) \cup ids /\ Counted(Live) \cap ids = {} /\ Counted(Live) \subseteq Ids
        BY <2>3, <2>6, <2>7, <2>10 DEF Counted, Live
      <3> QED BY <2>1, <2>3, <2>4, <3>1, More DEF Inv, RowInv, CountMatches
    <2>13. count' \in 0 .. MaxIds
      <3>1. Counted(Live)' \subseteq Ids
        BY DEF Counted, Live
      <3> QED BY <2>12, <3>1, Finite DEF CountMatches
    <2>14. Numbered' /\ KeysStored'
      <3>1. made <= made' /\ keys \subseteq keys' /\ (txs[t].key # NoKey => txs[t].key \in keys')
        BY <2>1, <2>2 DEF Inv, TypeOK
      <3>2. Numbered'
        BY <2>3, <2>7, <3>1 DEF Inv, RowInv, Numbered, TypeOK, Ids
      <3>3. KeysStored'
        BY <2>6, <2>7, <3>1 DEF Inv, RowInv, KeysStored
      <3> QED BY <3>2, <3>3
    <2>15. SlugsUnique'
      <3>1. ASSUME NEW i \in ids, NEW j \in Live', i # j, rows'[j].owner = txs[t].actor, rows'[i].slug # NoSlug
            PROVE  rows'[i].slug # rows'[j].slug
        <4>1. rows'[i].slug = txs[t].slug /\ ~taken /\ i = made + 1
          BY <2>5, <2>6, <3>1
        <4>2. CASE j \in ids
          BY <2>6, <3>1, <4>1, <4>2
        <4>3. CASE j \notin ids
          <5>1. j \in Own(txs[t].actor) /\ rows'[j] = rows[j]
            BY <2>7, <2>10, <3>1, <4>3 DEF Own, Live
          <5> QED BY <3>1, <4>1, <5>1 DEF Has
        <4> QED BY <4>2, <4>3
      <3>2. ASSUME NEW i \in Live, NEW j \in Live, i \notin ids, j \notin ids, i # j, rows'[i].owner = rows'[j].owner,
                   rows'[i].slug # NoSlug
            PROVE  rows'[i].slug # rows'[j].slug
        BY <2>7, <3>2 DEF Inv, RowInv, SlugsUnique, Live
      <3> SUFFICES ASSUME NEW i \in Live', NEW j \in Live', i # j, rows'[i].owner = rows'[j].owner, rows'[i].slug # NoSlug
                   PROVE  rows'[i].slug # rows'[j].slug
        BY DEF SlugsUnique
      <3>3. CASE i \in ids
        BY <2>6, <3>1, <3>3
      <3>4. CASE j \in ids
        BY <2>6, <3>1, <3>4
      <3>5. CASE i \notin ids /\ j \notin ids
        BY <2>10, <3>2, <3>5
      <3> QED BY <3>3, <3>4, <3>5
    <2>16. Departed' /\ OriginalsUnique'
      <3>1. \A i \in Own(Nobody)' : i \in Own(Nobody) /\ rows'[i] = rows[i]
        BY <2>2, <2>7, <2>10, <2>11, BookmarksAssumption DEF BookmarksAssumption, Own, Live
      <3> QED BY <2>1, <3>1, WaitingKept DEF Inv
    <2>17. TypeOK'
      <3>1. keys' \subseteq Accounts \X Keys
        BY <2>1, <2>2 DEF Inv, TypeOK, KeyOrNone
      <3> QED BY <2>1, <2>3, <2>8, <2>13, <3>1, Ending DEF Inv, TypeOK
    <2>18. TxInv'
      <3>1. ASSUME NEW u \in Txs \ {t} PROVE Sound(u, txs[u])'
        <4>1. Sound(u, txs[u]) /\ Alone(txs[u], txs[t]) /\ txs'[u] = txs[u]
          BY <2>1, Ending DEF Inv, TxInv
        <4>2. locked # u
          BY <2>2
        <4>3. txs[u].key # NoKey => txs[u].key \notin keys'
          BY <2>1, <4>1 DEF Sound, Alone
        <4>4. \A a : Own(a) \subseteq Own(a)'
          BY <2>11
        <4> QED BY <4>1, <4>2, <4>3, <4>4 DEF Sound
      <3>2. Sound(t, Idle)'
        BY IdleSound
      <3> QED BY <2>1, <3>1, <3>2, Ending, OneMoves, IdleFields, IdleAlone DEF Inv
    <2> QED BY <2>12, <2>14, <2>15, <2>16, <2>17, <2>18 DEF Inv, RowInv
  <1> QED BY <1>1, <1>2

\* A step of transaction t that changes bookmarks, but none that another transaction is changing.
LEMMA OthersKeepTheirs ==
    ASSUME Inv, NEW t \in Txs, End(t), locked = t, UNCHANGED <<keys, events>>,
           \A a \in Accounts : Own(a) \subseteq Own(a)'
    PROVE  TxInv'
  <1>1. ASSUME NEW u \in Txs \ {t} PROVE Sound(u, txs[u])'
    <2>1. Sound(u, txs[u]) /\ txs'[u] = txs[u] /\ locked # u
      BY Ending DEF Inv, TxInv
    <2> QED BY <2>1 DEF Sound
  <1>2. Sound(t, Idle)'
    BY IdleSound
  <1> QED BY <1>1, <1>2, Ending, OneMoves, IdleFields, IdleAlone DEF Inv

LEMMA UpdateInv == ASSUME Inv, NEW t \in Txs, Update(t) PROVE Inv'
  <1>1. CASE Has(txs[t].actor, txs[t].slug)
    BY <1>1, EndInv DEF Update, Inv, TypeOK
  <1>2. CASE ~Has(txs[t].actor, txs[t].slug)
    <2>1. PICK a \in Accounts, k \in Ids, s \in SlugOrNone : a = txs[t].actor /\ k = txs[t].id /\ s = txs[t].slug /\ k \in Own(a)
      <3>1. txs[t].actor \in Accounts /\ txs[t].id \in Own(txs[t].actor) /\ txs[t].slug \in SlugOrNone
        BY TxFields DEF Inv, TxInv, Sound, Update
      <3> QED BY <3>1 DEF Own, Live
    <2>2. rows' = [rows EXCEPT ![k].slug = s] /\ ~Has(a, s) /\ End(t) /\ UNCHANGED <<members, count, keys, events, made>>
      BY <1>2, <2>1 DEF Update
    <2>3. PICK r \in Row : r = rows[k]
      BY RowFields DEF Inv
    <2>4. PICK n \in Row : n = [r EXCEPT !.slug = s]
      BY DEF Row
    <2>5. /\ n.state = r.state /\ n.owner = r.owner /\ n.archived = r.archived /\ n.departure = r.departure
          /\ n.saved = r.saved /\ n.key = r.key /\ n.had = r.had /\ n.choice = r.choice /\ n.to = r.to /\ n.slug = s
      BY <2>4 DEF Row
    <2>6. rows' \in [Ids -> Row] /\ rows'[k] = n /\ \A i \in Ids \ {k} : rows'[i] = rows[i]
      BY <2>2, <2>3, <2>4 DEF Inv, TypeOK
    <2>7. Live' = Live /\ (\A b : Own(b)' = Own(b)) /\ Counted(Live)' = Counted(Live)
      BY <2>3, <2>5, <2>6 DEF Live, Own, Counted
    <2>8. Numbered' /\ KeysStored' /\ CountMatches'
      BY <2>2, <2>3, <2>5, <2>6, <2>7 DEF Inv, RowInv, Numbered, KeysStored, CountMatches
    <2>9. SlugsUnique'
      <3> SUFFICES ASSUME NEW i \in Live, NEW j \in Live, i # j, rows'[i].owner = rows'[j].owner, rows'[i].slug # NoSlug
                   PROVE  rows'[i].slug # rows'[j].slug
        BY <2>7 DEF SlugsUnique
      <3>1. i \in Ids /\ j \in Ids /\ k \in Live /\ rows[k].owner = a
        BY <2>1 DEF Live, Own
      <3>2. CASE i = k
        BY <2>2, <2>3, <2>5, <2>6, <3>1, <3>2 DEF Has, Own
      <3>3. CASE j = k
        BY <2>2, <2>3, <2>5, <2>6, <3>1, <3>3 DEF Has, Own
      <3>4. CASE i # k /\ j # k
        BY <2>6, <3>1, <3>4 DEF Inv, RowInv, SlugsUnique
      <3> QED BY <3>2, <3>3, <3>4
    <2>10. Departed' /\ OriginalsUnique'
      <3>1. \A i \in Own(Nobody)' : i \in Own(Nobody) /\ rows'[i] = rows[i]
        BY <2>1, <2>6, <2>7, BookmarksAssumption DEF BookmarksAssumption, Own, Live
      <3> QED BY <2>2, <3>1, WaitingKept DEF Inv
    <2>11. TypeOK'
      BY <2>2, <2>6, Ending DEF Inv, TypeOK
    <2>12. TxInv'
      <3>1. ASSUME NEW u \in Txs \ {t} PROVE Sound(u, txs[u])'
        <4>1. Sound(u, txs[u]) /\ txs'[u] = txs[u]
          BY <2>2, Ending DEF Inv, TxInv
        <4>2. locked = u => locked' = u
          BY <2>2, Ending DEF Inv
        <4> QED BY <2>2, <2>7, <4>1, <4>2 DEF Sound
      <3>2. Sound(t, Idle)'
        BY IdleSound
      <3> QED BY <2>2, <3>1, <3>2, Ending, OneMoves, IdleFields, IdleAlone DEF Inv
    <2> QED BY <2>8, <2>9, <2>10, <2>11, <2>12 DEF Inv, RowInv
  <1> QED BY <1>1, <1>2

\* What a bookmark keeps when it is handed over, or waits for its departure no longer.
LEMMA ClearFields ==
    ASSUME NEW r \in Row
    PROVE  LET q == Clear(r) IN
           /\ q \in Row /\ q.state = r.state /\ q.owner = r.owner /\ q.slug = r.slug /\ q.archived = r.archived
           /\ q.departure = 0 /\ q.saved = NoSlug /\ q.key = r.key /\ q.had = r.had /\ q.choice = r.choice /\ q.to = r.to
  <1>1. NoSlug \in SlugOrNone /\ 0 \in 0 .. MaxDepartures
    BY BookmarksAssumption DEF BookmarksAssumption, SlugOrNone
  <1> QED BY <1>1 DEF Row, Clear

LEMMA HandedOverFields ==
    ASSUME TypeOK, NEW t \in Txs, NEW i \in Ids, NEW to \in Accounts
    PROVE  LET q == HandedOver(t, i, to) IN
           /\ q \in Row /\ q.state = rows[i].state /\ q.owner = to /\ q.archived = rows[i].archived
           /\ q.departure = 0 /\ q.key = rows[i].key
           /\ q.slug = (IF i \in txs[t].clash THEN NoSlug ELSE Original(rows[i]))
  <1>1. PICK r \in Row : r = rows[i]
    BY RowFields
  <1>2. PICK c \in Row : c = Clear(r)
    BY ClearFields
  <1>3. c.state = r.state /\ c.archived = r.archived /\ c.departure = 0 /\ c.key = r.key
    BY <1>2, ClearFields
  <1>4. NoSlug \in SlugOrNone /\ Nobody \in AccountOrNone /\ to \in AccountOrNone
    BY DEF SlugOrNone, AccountOrNone
  <1>5. PICK s \in SlugOrNone : s = (IF i \in txs[t].clash THEN NoSlug ELSE Original(rows[i]))
    BY <1>4, RowFields DEF Original
  <1>6. HandedOver(t, i, to) = [c EXCEPT !.owner = to, !.had = NoSlug, !.choice = "", !.to = Nobody, !.slug = s]
    BY <1>1, <1>2, <1>5 DEF HandedOver
  <1>7. PICK q \in Row : q = [c EXCEPT !.owner = to, !.had = NoSlug, !.choice = "", !.to = Nobody, !.slug = s]
    BY <1>4 DEF Row
  <1>8. q.state = c.state /\ q.owner = to /\ q.archived = c.archived /\ q.departure = c.departure /\ q.key = c.key
        /\ q.slug = s
    BY <1>7 DEF Row
  <1>9. HandedOver(t, i, to) = q
    BY <1>6, <1>7
  <1> QED BY <1>1, <1>3, <1>5, <1>8, <1>9

\* A delivery is sound, and nobody else holds the workspace's row.
LEMMA Delivering ==
    ASSUME Inv, NEW t \in Txs, txs[t].op = "deliver"
    PROVE  locked = t /\ txs[t].departure \in Departures /\ txs[t].departure # 0 /\ events[txs[t].departure] \in Event
  <1>1. locked = t /\ txs[t].departure \in Departures
    BY DEF Inv, TxInv, Sound
  <1> QED BY <1>1, BookmarksAssumption DEF BookmarksAssumption, Departures, Inv, TypeOK

LEMMA ApplyDeparturesDelete ==
    ASSUME Inv, NEW t \in Txs, ApplyDeparture(t), events[txs[t].departure].content = "delete"
    PROVE  Inv'
  <1> DEFINE ids == Released(txs[t].departure)
  <1>1. /\ rows' = Deleted(ids) /\ count' = count - Cardinality(Counted(ids))
        /\ End(t) /\ UNCHANGED <<members, keys, events, made>>
    BY DEF ApplyDeparture, Deletes
  <1>2. ids \subseteq Live /\ ids \subseteq Own(Nobody)
    BY DEF Released, Own
  <1>3. locked = t
    BY Delivering DEF ApplyDeparture
  <1> HIDE DEF ids
  <1>4. /\ RowInv' /\ rows' \in [Ids -> Row] /\ count' \in 0 .. MaxIds
        /\ \A a : Own(a)' = Own(a) \ ids
    BY <1>1, <1>2, Deleting DEF Inv
  <1>5. \A a \in Accounts : Own(a) \subseteq Own(a)'
    <2>1. \A a \in Accounts : Own(a) \cap Own(Nobody) = {}
      BY BookmarksAssumption DEF BookmarksAssumption, Own
    <2> QED BY <1>2, <1>4, <2>1
  <1>6. TypeOK'
    BY <1>1, <1>4, Ending DEF Inv, TypeOK
  <1>7. TxInv'
    BY <1>1, <1>3, <1>5, OthersKeepTheirs
  <1> QED BY <1>4, <1>6, <1>7 DEF Inv

LEMMA ApplyDepartureGone ==
    ASSUME Inv, NEW t \in Txs, ApplyDeparture(t), events[txs[t].departure].content # "delete",
           events[txs[t].departure].to \notin members
    PROVE  Inv'
  <1> DEFINE ids == Released(txs[t].departure)
  <1>1. /\ rows' = [i \in Ids |-> IF i \notin ids THEN rows[i] ELSE Clear(rows[i])]
        /\ End(t) /\ UNCHANGED <<members, count, keys, events, made>>
    BY DEF ApplyDeparture
  <1>2. ids \subseteq Ids /\ locked = t
    BY Delivering DEF ApplyDeparture, Released, Own, Live
  <1> HIDE DEF ids
  <1>3. rows' \in [Ids -> Row] /\ \A i \in Ids \ ids : rows'[i] = rows[i]
    <2>1. \A i \in Ids : rows[i] \in Row /\ Clear(rows[i]) \in Row
      BY RowFields, ClearFields DEF Inv
    <2> QED BY <1>1, <1>2, <2>1
  <1>4. \A i \in Ids : /\ rows'[i].state = rows[i].state /\ rows'[i].owner = rows[i].owner /\ rows'[i].slug = rows[i].slug
                       /\ rows'[i].archived = rows[i].archived /\ rows'[i].key = rows[i].key
    <2> SUFFICES ASSUME NEW i \in Ids
                 PROVE  /\ rows'[i].state = rows[i].state /\ rows'[i].owner = rows[i].owner /\ rows'[i].slug = rows[i].slug
                        /\ rows'[i].archived = rows[i].archived /\ rows'[i].key = rows[i].key
      OBVIOUS
    <2>1. PICK r \in Row : r = rows[i]
      BY RowFields DEF Inv
    <2>2. rows'[i] = r \/ rows'[i] = Clear(r)
      BY <1>1, <2>1
    <2> QED BY <2>1, <2>2, ClearFields
  <1>5. \A i \in ids : rows'[i].departure = 0
    <2> SUFFICES ASSUME NEW i \in ids PROVE rows'[i].departure = 0
      OBVIOUS
    <2>1. PICK r \in Row : r = rows[i]
      BY <1>2, RowFields DEF Inv
    <2>2. rows'[i] = Clear(r)
      BY <1>1, <1>2, <2>1
    <2> QED BY <2>2, ClearFields
  <1>6. Live' = Live /\ (\A b : Own(b)' = Own(b)) /\ Counted(Live)' = Counted(Live)
    BY <1>4 DEF Live, Own, Counted
  <1>7. Numbered' /\ KeysStored' /\ CountMatches'
    BY <1>1, <1>4, <1>6 DEF Inv, RowInv, Numbered, KeysStored, CountMatches
  <1>8. SlugsUnique'
    BY <1>4, <1>6 DEF Inv, RowInv, SlugsUnique, Live
  <1>9. \A i \in Own(Nobody)' : rows'[i].departure # 0 => i \in Own(Nobody) /\ rows'[i] = rows[i]
    BY <1>3, <1>5, <1>6 DEF Own, Live
  <1>10. Departed' /\ OriginalsUnique'
    BY <1>1, <1>9, WaitingKept DEF Inv
  <1>11. TypeOK'
    BY <1>1, <1>3, Ending DEF Inv, TypeOK
  <1>12. TxInv'
    BY <1>1, <1>2, <1>6, OthersKeepTheirs
  <1> QED BY <1>7, <1>8, <1>10, <1>11, <1>12 DEF Inv, RowInv

LEMMA ApplyDepartureTransfers ==
    ASSUME Inv, NEW t \in Txs, ApplyDeparture(t), events[txs[t].departure].content # "delete",
           events[txs[t].departure].to \in members
    PROVE  Inv'
  <1>1. PICK to \in Accounts, d \in Departures : to = events[txs[t].departure].to /\ d = txs[t].departure
    BY Delivering DEF ApplyDeparture, Inv, TypeOK
  <1> DEFINE ids == Released(d)
  <1>2. /\ rows' = [i \in Ids |-> IF i \notin ids THEN rows[i] ELSE HandedOver(t, i, to)]
        /\ \A i \in ids : ~Has(to, rows'[i].slug)
        /\ End(t) /\ UNCHANGED <<members, count, keys, events, made>>
    BY <1>1 DEF ApplyDeparture
  <1>3. /\ ids \subseteq Ids /\ ids \subseteq Live /\ ids \subseteq Own(Nobody) /\ locked = t /\ d # 0 /\ to # Nobody
        /\ \A i \in ids : rows[i].departure = d
    BY <1>1, Delivering, BookmarksAssumption DEF BookmarksAssumption, ApplyDeparture, Released, Own, Live
  <1> HIDE DEF ids
  <1>4. rows' \in [Ids -> Row] /\ \A i \in Ids \ ids : rows'[i] = rows[i]
    <2>1. \A i \in Ids : rows[i] \in Row /\ HandedOver(t, i, to) \in Row
      BY RowFields, HandedOverFields DEF Inv
    <2> QED BY <1>2, <1>3, <2>1
  <1>5. \A i \in ids : /\ rows'[i].state = rows[i].state /\ rows'[i].owner = to
                       /\ rows'[i].archived = rows[i].archived /\ rows'[i].key = rows[i].key
                       /\ rows'[i].slug = (IF i \in txs[t].clash THEN NoSlug ELSE Original(rows[i]))
    <2>1. \A i \in ids : rows'[i] = HandedOver(t, i, to)
      BY <1>2, <1>3
    <2> QED BY <1>3, <2>1, HandedOverFields DEF Inv
  <1>6. \A i \in Ids : rows'[i].state = rows[i].state /\ rows'[i].archived = rows[i].archived /\ rows'[i].key = rows[i].key
    BY <1>4, <1>5
  <1>7. Live' = Live /\ Counted(Live)' = Counted(Live)
    BY <1>6 DEF Live, Counted
  <1>8. /\ Own(Nobody)' = Own(Nobody) \ ids /\ Own(to)' = Own(to) \cup ids
        /\ \A b : b \notin {to, Nobody} => Own(b)' = Own(b)
    BY <1>3, <1>4, <1>5, <1>7 DEF Own, Live
  <1>9. Numbered' /\ KeysStored' /\ CountMatches'
    BY <1>2, <1>6, <1>7 DEF Inv, RowInv, Numbered, KeysStored, CountMatches
  <1>10. SlugsUnique'
    <2>1. ASSUME NEW i \in ids, NEW j \in Live, i # j, rows'[j].owner = to, rows'[i].slug # NoSlug
          PROVE  rows'[i].slug # rows'[j].slug
      <3>1. CASE j \in ids
        <4>1. rows'[i].slug = Original(rows[i]) /\ rows'[j].slug \in {NoSlug, Original(rows[j])}
          BY <1>5, <2>1, <3>1
        <4>2. Original(rows[i]) # Original(rows[j])
          BY <1>3, <2>1, <3>1, <4>1 DEF Inv, RowInv, OriginalsUnique
        <4> QED BY <2>1, <4>1, <4>2
      <3>2. CASE j \notin ids
        <4>1. j \in Own(to) /\ rows'[j] = rows[j]
          BY <1>4, <2>1, <3>2 DEF Own, Live
        <4>2. ~Has(to, rows'[i].slug)
          BY <1>2
        <4> QED BY <2>1, <4>1, <4>2 DEF Has
      <3> QED BY <3>1, <3>2
    <2>2. ASSUME NEW i \in Live, NEW j \in Live, i \notin ids, j \notin ids, i # j, rows'[i].owner = rows'[j].owner,
                 rows'[i].slug # NoSlug
          PROVE  rows'[i].slug # rows'[j].slug
      BY <1>4, <2>2 DEF Inv, RowInv, SlugsUnique, Live
    <2> SUFFICES ASSUME NEW i \in Live, NEW j \in Live, i # j, rows'[i].owner = rows'[j].owner, rows'[i].slug # NoSlug
                 PROVE  rows'[i].slug # rows'[j].slug
      BY <1>7 DEF SlugsUnique
    <2>3. CASE i \in ids
      BY <1>5, <2>1, <2>3
    <2>4. CASE j \in ids
      BY <1>5, <2>1, <2>4
    <2>5. CASE i \notin ids /\ j \notin ids
      BY <2>2, <2>5
    <2> QED BY <2>3, <2>4, <2>5
  <1>11. Departed' /\ OriginalsUnique'
    <2>1. \A i \in Own(Nobody)' : i \in Own(Nobody) /\ rows'[i] = rows[i]
      BY <1>4, <1>8 DEF Own, Live
    <2> QED BY <1>2, <2>1, WaitingKept DEF Inv
  <1>12. TypeOK'
    BY <1>2, <1>4, Ending DEF Inv, TypeOK
  <1>13. \A a \in Accounts : Own(a) \subseteq Own(a)'
    BY <1>8, BookmarksAssumption DEF BookmarksAssumption
  <1>14. TxInv'
    BY <1>2, <1>3, <1>13, OthersKeepTheirs
  <1> QED BY <1>9, <1>10, <1>11, <1>12, <1>14 DEF Inv, RowInv

LEMMA ApplyDepartureInv == ASSUME Inv, NEW t \in Txs, ApplyDeparture(t) PROVE Inv'
  BY ApplyDeparturesDelete, ApplyDepartureGone, ApplyDepartureTransfers

LEMMA StepInv == ASSUME Inv, [Next]_vars PROVE Inv'
  <1>1. CASE Next
    <2>1. ASSUME NEW t \in Txs, NEW a \in Accounts, NEW r \in Requests, Claim(t, a, r) PROVE Inv'
      BY <2>1, ClaimInv
    <2>2. ASSUME NEW t \in Txs, Take(t) PROVE Inv'
      BY <2>2, TakeInv
    <2>3. ASSUME NEW t \in Txs, Insert(t) PROVE Inv'
      BY <2>3, InsertInv
    <2>4. ASSUME NEW t \in Txs, Abort(t) \/ Collide(t) PROVE Inv'
      BY <2>4, AbortInv
    <2>5. ASSUME NEW t \in Txs, NEW a \in Accounts, NEW i \in Ids, NEW s \in SlugOrNone, LockForUpdate(t, a, i, s) PROVE Inv'
      BY <2>5, LockForUpdateInv
    <2>6. ASSUME NEW t \in Txs, Update(t) PROVE Inv'
      BY <2>6, UpdateInv
    <2>7. ASSUME NEW t \in Txs, NEW d \in Departures, ReadDeparture(t, d) PROVE Inv'
      BY <2>7, ReadDepartureInv
    <2>8. ASSUME NEW t \in Txs, ApplyDeparture(t) PROVE Inv'
      BY <2>8, ApplyDepartureInv
    <2>9. ASSUME NEW a \in Accounts, NEW ids \in SUBSET Ids, Delete(a, ids) PROVE Inv'
      BY <2>9, DeleteInv
    <2>10. ASSUME NEW a \in Accounts, Join(a) \/ DeleteAccount(a) PROVE Inv'
      BY <2>10, JoinInv, DeleteAccountInv
    <2>11. ASSUME NEW a \in Accounts, NEW content \in {"transfer", "delete"}, NEW to \in Accounts,
                  EndMembership(a, content, to)
           PROVE  Inv'
      BY <2>11, EndMembershipInv
    <2>12. ASSUME NEW ids \in SUBSET Ids, NEW on \in BOOLEAN, Archive(ids, on) PROVE Inv'
      BY <2>12, ArchiveInv
    <2> QED BY <1>1, <2>1, <2>2, <2>3, <2>4, <2>5, <2>6, <2>7, <2>8, <2>9, <2>10, <2>11, <2>12 DEF Next
  <1>2. CASE UNCHANGED vars
    <2>1. RowInv'
      BY <1>2, RowsKept DEF vars, Inv
    <2>2. TypeOK'
      BY <1>2 DEF vars, Inv, TypeOK
    <2>3. TxInv'
      BY <1>2 DEF vars, Inv, TxInv, Sound, Alone, Own, Live
    <2> QED BY <2>1, <2>2, <2>3 DEF Inv
  <1> QED BY <1>1, <1>2

LEMMA Invariant == Spec => []Inv
  BY InitInv, StepInv, PTL DEF Spec

(***************************************************************************)
(* Every reachable state is of the types its variables were given.         *)
(* (the tables bookmarks, idempotency_keys and workspaces)                 *)
(***************************************************************************)
THEOREM TypesKept == Spec => []TypeOK
  BY Invariant, PTL DEF Inv

(***************************************************************************)
(* workspaces.bookmark_count is the number of bookmarks that are not       *)
(* archived, whatever was created, imported, archived, deleted or handed   *)
(* over, and however the transactions interleaved.                         *)
(* (sys_bookmark_count_take, sys_bookmark_count_take_many,                 *)
(* sys_bookmark_delete, sys_bookmark_archive_set,                          *)
(* sys_member_departure_apply)                                             *)
(***************************************************************************)
THEOREM CounterIsExact == Spec => []CountMatches
  <1>1. Inv => CountMatches
    BY DEF Inv, RowInv
  <1> QED BY <1>1, Invariant, PTL

(***************************************************************************)
(* No owner has a slug twice, and of the bookmarks without an owner no two *)
(* have the same: the end of a membership and a transfer never meet the    *)
(* key of the table.  (bookmarks_clear_slug_on_release,                    *)
(* sys_member_departure_apply)                                             *)
(***************************************************************************)
THEOREM SlugsStayUnique == Spec => []SlugsUnique
  <1>1. Inv => SlugsUnique
    BY DEF Inv, RowInv
  <1> QED BY <1>1, Invariant, PTL

-----------------------------------------------------------------------------
\* Only an insertion makes bookmarks.
LEMMA MadeKept == ASSUME Next, \A t \in Txs : ~Insert(t) PROVE made' = made
  BY DEF Next, Claim, Take, Abort, LockForUpdate, Update, ReadDeparture, ApplyDeparture, Collide, Delete, Join,
         EndMembership, DeleteAccount, Archive

\* Nor does anything else change the key a bookmark was made under.
LEMMA KeysKept == ASSUME TypeOK, Next, \A t \in Txs : ~Insert(t), NEW j \in Ids PROVE rows'[j].key = rows[j].key
  <1>1. PICK r \in Row : r = rows[j]
    BY RowFields
  <1>2. ASSUME rows' = rows PROVE rows'[j].key = rows[j].key
    BY <1>2
  <1>3. ASSUME NEW ids, rows' = Deleted(ids) PROVE rows'[j].key = rows[j].key
    <2>1. rows'[j] = r \/ rows'[j] = [NoRow EXCEPT !.state = "deleted", !.key = r.key]
      BY <1>1, <1>3 DEF Deleted
    <2> QED BY <1>1, <2>1 DEF NoRow
  <1>4. ASSUME NEW t \in Txs, Update(t) PROVE rows'[j].key = rows[j].key
    <2>1. rows'[j] = r \/ rows'[j] = [r EXCEPT !.slug = txs[t].slug]
      BY <1>1, <1>4 DEF Update, TypeOK
    <2> QED BY <1>1, <2>1 DEF Row
  <1>5. ASSUME NEW ids \in SUBSET Ids, NEW on \in BOOLEAN, Archive(ids, on) PROVE rows'[j].key = rows[j].key
    <2>1. rows'[j] = r \/ rows'[j] = [r EXCEPT !.archived = on]
      BY <1>1, <1>5 DEF Archive
    <2> QED BY <1>1, <2>1 DEF Row
  <1>6. ASSUME NEW a \in Accounts, NEW d \in 0 .. MaxDepartures, NEW content \in {"keep", "transfer", "delete"},
               NEW to \in AccountOrNone, Release(a, d, content, to)
        PROVE  rows'[j].key = rows[j].key
    <2>1. rows'[j] = r \/ rows'[j] = ReleasedRow(r, d, content, to)
      BY <1>1, <1>6 DEF Release
    <2> QED BY <1>1, <2>1, ReleasedFields
  <1>7. ASSUME NEW t \in Txs, ApplyDeparture(t) PROVE rows'[j].key = rows[j].key
    <2>1. CASE rows' = Deleted(Deletes(txs[t].departure))
      BY <1>3, <2>1
    <2>2. CASE rows'[j] = r
      BY <1>1, <2>2
    <2>3. CASE rows'[j] = Clear(r)
      BY <1>1, <2>3, ClearFields
    <2>4. CASE rows'[j] = HandedOver(t, j, events[txs[t].departure].to) /\ events[txs[t].departure].to \in members
      BY <2>4, HandedOverFields DEF TypeOK
    <2> QED BY <1>1, <1>7, <2>1, <2>2, <2>3, <2>4 DEF ApplyDeparture
  <1>8. ASSUME NEW t \in Txs, Abort(t) \/ Collide(t) \/ Take(t) PROVE rows' = rows
    BY <1>8 DEF Abort, Collide, Take
  <1>9. ASSUME NEW t \in Txs, NEW a \in Accounts, NEW q \in Requests, Claim(t, a, q) PROVE rows' = rows
    BY <1>9 DEF Claim
  <1>10. ASSUME NEW t \in Txs, NEW a \in Accounts, NEW i \in Ids, NEW s \in SlugOrNone, LockForUpdate(t, a, i, s)
         PROVE  rows' = rows
    BY <1>10 DEF LockForUpdate
  <1>11. ASSUME NEW t \in Txs, NEW d \in Departures, ReadDeparture(t, d) PROVE rows' = rows
    BY <1>11 DEF ReadDeparture
  <1>12. ASSUME NEW a \in Accounts, Join(a) PROVE rows' = rows
    BY <1>12 DEF Join
  <1>13. ASSUME NEW a \in Accounts, NEW ids \in SUBSET Ids, Delete(a, ids) PROVE rows' = Deleted(ids)
    BY <1>13 DEF Delete
  <1>14. ASSUME NEW a \in Accounts, DeleteAccount(a) PROVE rows'[j].key = rows[j].key
    BY <1>6, <1>14, BookmarksAssumption DEF DeleteAccount, AccountOrNone, BookmarksAssumption
  <1>15. ASSUME NEW a \in Accounts, NEW content \in {"transfer", "delete"}, NEW to \in Accounts, EndMembership(a, content, to)
         PROVE  rows'[j].key = rows[j].key
    BY <1>6, <1>15, BookmarksAssumption DEF EndMembership, AccountOrNone, Departures, BookmarksAssumption
  <1> QED BY <1>2, <1>3, <1>4, <1>5, <1>7, <1>8, <1>9, <1>10, <1>11, <1>12, <1>13, <1>14, <1>15 DEF Next

\* What an insertion makes, it makes under the key of its request and in the places it has taken.
LEMMA Inserted ==
    ASSUME Inv, NEW t \in Txs, Insert(t)
    PROVE  /\ made' > made => count' <= Ceiling
           /\ \A j \in Ids : rows'[j].key # rows[j].key => rows'[j].key = NoKey \/ rows'[j].key \notin keys
           /\ \A j \in Live : rows'[j] = rows[j]
  <1>1. /\ txs[t].stage = "taken" /\ txs[t].places \in 0 .. 2 /\ txs[t].key \in KeyOrNone /\ txs[t].slug \in SlugOrNone
        /\ txs[t].actor \in Accounts /\ (txs[t].key # NoKey => txs[t].key \notin keys)
        /\ txs[t].places = 0 \/ count + txs[t].places <= Ceiling
    BY TxFields DEF Insert, Inv, TxInv, Sound
  <1>2. made' > made => count' <= Ceiling
    BY <1>1 DEF Insert, Inv, TypeOK
  <1>3. ASSUME NEW j \in Ids PROVE rows'[j] = rows[j] \/ (rows'[j].key = txs[t].key /\ j > made)
    <2> DEFINE new == [NoRow EXCEPT !.state = "live", !.owner = txs[t].actor, !.key = txs[t].key]
    <2>1. PICK n \in Row : n = new
      BY <1>1, NoRowFields DEF Row, NoRow, AccountOrNone
    <2> DEFINE ids == made + 1 .. made + txs[t].places
               taken == Has(txs[t].actor, txs[t].slug)
    <2>2. rows'[j] = rows[j] \/ (j > made /\ (rows'[j] = n \/ rows'[j] = [n EXCEPT !.slug = txs[t].slug]))
      <3>1. CASE taken /\ txs[t].op = "create"
        BY <3>1 DEF Insert
      <3>2. CASE ~(taken /\ txs[t].op = "create")
        <4>1. rows' = [i \in Ids |-> IF i \notin ids THEN rows[i]
                                     ELSE IF i = made + 1 /\ ~taken THEN [new EXCEPT !.slug = txs[t].slug] ELSE new]
          BY <3>2 DEF Insert
        <4>2. j \in ids => j > made
          BY <1>1 DEF Inv, TypeOK, Ids
        <4> HIDE DEF ids, taken, new
        <4> QED BY <2>1, <4>1, <4>2
      <3> QED BY <3>1, <3>2
    <2>3. n.key = txs[t].key
      BY <2>1 DEF NoRow
    <2> QED BY <2>2, <2>3 DEF Row
  <1>4. \A j \in Live : j \in Ids /\ j <= made
    BY DEF Inv, RowInv, Numbered, Live
  <1> QED BY <1>1, <1>2, <1>3, <1>4 DEF Inv, TypeOK, Ids

(***************************************************************************)
(* Of all the requests under one key, sent again or at the same time, only *)
(* one ever makes bookmarks.  (idempotencyRepository claim and complete)   *)
(***************************************************************************)
THEOREM KeysMakeOnce == Spec => OncePerKey
  <1>1. ASSUME Inv, [Next]_vars
        PROVE  [\A i, j \in Ids : rows[i].key # NoKey /\ rows'[j].key # rows[j].key => rows'[j].key # rows[i].key]_vars
    <2> SUFFICES ASSUME Next, NEW i \in Ids, NEW j \in Ids, rows[i].key # NoKey, rows'[j].key # rows[j].key
                 PROVE  rows'[j].key # rows[i].key
      BY <1>1
    <2>1. PICK t \in Txs : Insert(t)
      BY <1>1, KeysKept DEF Inv
    <2> QED BY <1>1, <2>1, Inserted DEF Inv, RowInv, KeysStored
  <1> QED BY <1>1, Invariant, PTL DEF Spec, OncePerKey

(***************************************************************************)
(* No creation and no import takes the counter over bookmarks.max, however *)
(* many are under way.  (sys_bookmark_count_take,                          *)
(* sys_bookmark_count_take_many)                                           *)
(***************************************************************************)
THEOREM CeilingNeverPassed == Spec => CeilingKept
  <1>1. ASSUME Inv, [Next]_vars PROVE [made' > made => count' <= Ceiling \/ count' = count]_vars
    <2> SUFFICES ASSUME Next, made' > made PROVE count' <= Ceiling \/ count' = count
      BY <1>1
    <2>1. PICK t \in Txs : Insert(t)
      BY <1>1, MadeKept DEF Inv, TypeOK
    <2> QED BY <1>1, <2>1, Inserted
  <1> QED BY <1>1, Invariant, PTL DEF Spec, CeilingKept

-----------------------------------------------------------------------------
\* What OwnersChoice says of one bookmark that has no owner.
Choice(i) ==
    /\ rows'[i].state = "deleted" => rows[i].choice = "delete"
    /\ rows'[i].owner # Nobody =>
          /\ rows[i].choice = "transfer" /\ rows'[i].owner = rows[i].to /\ rows[i].to \in members
          /\ rows'[i].slug = rows[i].had \/ \E t \in Txs : txs[t].op = "deliver" /\ i \in txs[t].clash

\* A delivery acts on what the bookmark knows of its departure.
LEMMA DeliveryKeepsChoice ==
    ASSUME Inv, NEW t \in Txs, ApplyDeparture(t), NEW i \in Own(Nobody)
    PROVE  Choice(i)
  <1> DEFINE d == txs[t].departure
  <1>1. i \in Ids /\ i \in Live /\ rows[i].state = "live" /\ rows[i].owner = Nobody /\ txs[t].op = "deliver" /\ d # 0
    BY Delivering DEF ApplyDeparture, Own, Live
  <1>2. PICK r \in Row : r = rows[i]
    BY <1>1, RowFields DEF Inv
  <1>3. CASE rows'[i] = r
    BY <1>1, <1>2, <1>3 DEF Choice
  <1>4. CASE rows'[i] = Clear(r)
    BY <1>1, <1>2, <1>4, ClearFields DEF Choice
  <1>5. CASE i \in Released(d) /\ rows'[i] # r
    <2>1. /\ events[d].content = rows[i].choice /\ events[d].to = rows[i].to /\ Original(rows[i]) = rows[i].had
      BY <1>1, <1>5 DEF Inv, RowInv, Departed, Released
    <2>2. rows[i].choice \in {"transfer", "delete"}
      BY <2>1, Delivering DEF ApplyDeparture, Event
    <2>3. CASE events[d].content = "delete"
      <3>1. rows'[i] = [NoRow EXCEPT !.state = "deleted", !.key = r.key]
        BY <1>1, <1>2, <1>5, <2>3 DEF ApplyDeparture, Deletes, Deleted
      <3>2. rows'[i].owner = Nobody
        BY <3>1 DEF NoRow
      <3> QED BY <2>1, <2>3, <3>2 DEF Choice
    <2>4. CASE events[d].content # "delete" /\ events[d].to \in members
      <3>1. PICK to \in Accounts : to = events[d].to
        BY <2>4 DEF Inv, TypeOK
      <3>2. rows'[i] = HandedOver(t, i, to)
        BY <1>1, <1>5, <2>4, <3>1 DEF ApplyDeparture
      <3>3. /\ rows'[i].state = rows[i].state /\ rows'[i].owner = to
            /\ rows'[i].slug = (IF i \in txs[t].clash THEN NoSlug ELSE Original(rows[i]))
        BY <1>1, <3>2, HandedOverFields DEF Inv
      <3> QED BY <1>1, <2>1, <2>2, <2>4, <3>1, <3>3 DEF Choice
    <2>5. CASE events[d].content # "delete" /\ events[d].to \notin members
      <3>1. rows'[i] = Clear(r)
        BY <1>1, <1>2, <1>5, <2>5 DEF ApplyDeparture
      <3> QED BY <1>4, <3>1
    <2> QED BY <2>3, <2>4, <2>5
  <1>6. CASE i \notin Released(d)
    <2>1. rows'[i] = r
      BY <1>1, <1>2, <1>6 DEF ApplyDeparture, Deletes, Deleted
    <2> QED BY <1>3, <2>1
  <1> QED BY <1>3, <1>5, <1>6

\* No other step touches a bookmark without an owner, but to archive or to restore it.
LEMMA OthersKeepChoice ==
    ASSUME Inv, Next, \A t \in Txs : ~ApplyDeparture(t), NEW i \in Own(Nobody)
    PROVE  Choice(i)
  <1>1. i \in Ids /\ i \in Live /\ rows[i].state = "live" /\ rows[i].owner = Nobody
    BY DEF Own, Live
  <1>2. PICK r \in Row : r = rows[i]
    BY <1>1, RowFields DEF Inv
  <1>3. ASSUME rows'[i] = r PROVE Choice(i)
    BY <1>1, <1>2, <1>3 DEF Choice
  <1>4. \A a \in Accounts : i \notin Own(a)
    BY <1>1, BookmarksAssumption DEF BookmarksAssumption, Own
  <1>5. ASSUME NEW t \in Txs, Insert(t) PROVE rows'[i] = r
    BY <1>1, <1>2, <1>5, Inserted
  <1>6. ASSUME NEW t \in Txs, Update(t) PROVE rows'[i] = r
    <2>1. txs[t].id # i
      BY <1>4, <1>6 DEF Inv, TxInv, Sound, Update
    <2> QED BY <1>1, <1>2, <1>6, <2>1 DEF Inv, TypeOK, Update
  <1>7. ASSUME NEW a \in Accounts, NEW ids \in SUBSET Ids, Delete(a, ids) PROVE rows'[i] = r
    BY <1>1, <1>2, <1>4, <1>7 DEF Delete, Deleted
  <1>8. ASSUME NEW ids \in SUBSET Ids, NEW on \in BOOLEAN, Archive(ids, on) PROVE Choice(i)
    <2>1. rows'[i] = r \/ rows'[i] = [r EXCEPT !.archived = on]
      BY <1>1, <1>2, <1>8 DEF Archive
    <2>2. rows'[i].state = r.state /\ rows'[i].owner = r.owner
      BY <2>1 DEF Row
    <2> QED BY <1>1, <1>2, <2>2 DEF Choice
  <1>9. ASSUME NEW a \in Accounts, NEW d, NEW content, NEW to, Release(a, d, content, to) PROVE rows'[i] = r
    BY <1>1, <1>2, <1>4, <1>9 DEF Release
  <1>10. ASSUME NEW a \in Accounts, Join(a) \/ DeleteAccount(a) PROVE rows'[i] = r
    BY <1>1, <1>2, <1>9, <1>10 DEF Join, DeleteAccount
  <1>11. ASSUME NEW a \in Accounts, NEW content \in {"transfer", "delete"}, NEW to \in Accounts, EndMembership(a, content, to)
         PROVE  rows'[i] = r
    BY <1>9, <1>11 DEF EndMembership
  <1>12. ASSUME NEW t \in Txs, Abort(t) \/ Collide(t) \/ Take(t) PROVE rows'[i] = r
    BY <1>2, <1>12 DEF Abort, Collide, Take
  <1>13. ASSUME NEW t \in Txs, NEW a \in Accounts, NEW q \in Requests, Claim(t, a, q) PROVE rows'[i] = r
    BY <1>2, <1>13 DEF Claim
  <1>14. ASSUME NEW t \in Txs, NEW a \in Accounts, NEW k \in Ids, NEW s \in SlugOrNone, LockForUpdate(t, a, k, s)
         PROVE  rows'[i] = r
    BY <1>2, <1>14 DEF LockForUpdate
  <1>15. ASSUME NEW t \in Txs, NEW d \in Departures, ReadDeparture(t, d) PROVE rows'[i] = r
    BY <1>2, <1>15 DEF ReadDeparture
  <1> QED BY <1>3, <1>5, <1>6, <1>7, <1>8, <1>10, <1>11, <1>12, <1>13, <1>14, <1>15 DEF Next

(***************************************************************************)
(* What a member leaves behind is deleted only if the member chose so, and *)
(* is given only to the recipient of that choice, with the slug it had     *)
(* unless the delivery met it at the recipient's: whatever deliveries were *)
(* made twice or late, whoever left or came back meanwhile.                *)
(* (endMembership, sys_member_departure_apply)                             *)
(***************************************************************************)
THEOREM OwnersChoiceHolds == Spec => OwnersChoice
  <1>1. ASSUME Inv, [Next]_vars PROVE [\A i \in Own(Nobody) : Choice(i)]_vars
    BY <1>1, DeliveryKeepsChoice, OthersKeepChoice
  <1> QED BY <1>1, Invariant, PTL DEF Spec, OwnersChoice, Choice
=============================================================================
