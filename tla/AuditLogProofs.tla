--------------------------- MODULE AuditLogProofs ---------------------------
(***************************************************************************)
(* The audit log for any number of writing processes, rows and events per  *)
(* manifest: how the chain forks and how it does not, what manifests are   *)
(* worth, which rows tail and export answer, and what verify finds when it *)
(* is asked for a part of the table.                                       *)
(***************************************************************************)
EXTENDS AuditLog, WellFoundedInduction, TLAPS

HashAt(id) == IF id = 0 THEN Genesis ELSE events[id].hash

\* The last hash a process read, of row `id`, is the last one its own rows know of: whoever
\* inserted since is another process.
ReadAt(p, id) ==
    /\ draft[p].prev = HashAt(id)
    /\ \A later \in id + 1 .. Len(events) : events[later].writer # p

DraftInv ==
    \A p \in Writers : step[p] = "Insert" =>
        /\ draft[p].writer = p
        /\ draft[p].hash = RowHash(draft[p].prev, draft[p].type)
        /\ \E id \in 0 .. Len(events) : ReadAt(p, id)

RowsHashed ==
    \A id \in 1 .. Len(events) : events[id].hash = RowHash(events[id].prev, events[id].type)

\* The row that ends an interval, and for which process p has yet to make the manifest.
Pending(p, to) ==
    /\ events[to].writer = p
    /\ \A later \in to + 1 .. Len(events) : events[later].writer # p
    /\ to % ManifestInterval = 0
    /\ \A k \in 1 .. Len(manifests) : manifests[k].to # to

PendingInv ==
    \A p \in Writers : step[p] = "Manifest" => \E to \in 1 .. Len(events) : Pending(p, to)

ManifestsInside == \A k \in 1 .. Len(manifests) : manifests[k].to \in 1 .. Len(events)

AuditInv ==
    /\ AuditTypeOK
    /\ DraftInv /\ RowsHashed /\ ForksNeedTwoWriters
    /\ PendingInv /\ ManifestsInside /\ ManifestsHold

----------------------------------------------------------------------------
(* The tables. *)

\* One row more.
LEMMA RowAppended ==
    ASSUME AuditTypeOK, NEW row \in Rows, events' = Append(events, row)
    PROVE  /\ Len(events) \in Nat /\ Len(events') = Len(events) + 1
           /\ events' \in Seq(Rows)
           /\ events'[Len(events) + 1] = row
           /\ \A id \in 1 .. Len(events) : events'[id] = events[id]
BY DEF AuditTypeOK

\* A row keeps its prev and hash when the table grows, and so does what they are compared to.
LEMMA HashAtKept ==
    ASSUME AuditTypeOK, NEW row \in Rows, events' = Append(events, row),
           NEW id \in 0 .. Len(events)
    PROVE  HashAt(id)' = HashAt(id)
BY RowAppended DEF HashAt

\* The rows and hashes have their types.
LEMMA EventType ==
    ASSUME AuditTypeOK, NEW id \in 1 .. Len(events)
    PROVE  /\ events[id] \in Rows /\ events[id].hash \in Seq(EventTypes)
           /\ events[id].prev \in Seq(EventTypes) /\ events[id].writer \in Writers
<1>1. events[id] \in Rows
  BY DEF AuditTypeOK
<1> QED
  BY <1>1 DEF Rows

LEMMA LastHashType ==
    ASSUME AuditTypeOK
    PROVE  /\ LastHash = HashAt(Len(events)) /\ LastHash \in Seq(EventTypes)
           /\ Len(events) \in Nat
<1>1. Len(events) \in Nat /\ (events = <<>> <=> Len(events) = 0)
  BY DEF AuditTypeOK
<1>2. CASE events = <<>>
  BY <1>1, <1>2 DEF LastHash, HashAt, Genesis
<1>3. CASE events # <<>>
  <2>1. Len(events) \in 1 .. Len(events)
    BY <1>1, <1>3
  <2> QED
    BY <1>1, <1>3, <2>1, EventType DEF LastHash, HashAt
<1> QED
  BY <1>2, <1>3

\* A hash commits to at least one payload.
LEMMA HashType ==
    ASSUME NEW prev \in Seq(EventTypes), NEW type \in EventTypes
    PROVE  RowHash(prev, type) \in Seq(EventTypes) /\ RowHash(prev, type) # <<>>
<1>1. Append(prev, type) \in Seq(EventTypes)
  OBVIOUS
<1>2. Len(Append(prev, type)) = Len(prev) + 1 /\ Len(prev) \in Nat
  OBVIOUS
<1>3. Len(Append(prev, type)) # 0 /\ Len(<<>>) = 0
  BY <1>2
<1> QED
  BY <1>1, <1>3 DEF RowHash

\* A manifest's interval: positions that a table long enough has.
LEMMA IntervalEnd ==
    ASSUME NEW to \in Nat \ {0}, to % ManifestInterval = 0
    PROVE  to - ManifestInterval + 1 \in 1 .. to
<1>1. ManifestInterval \in Nat \ {0}
  BY AuditLogAssumption
<1>2. to < ManifestInterval => to % ManifestInterval = to
  BY <1>1
<1> QED
  BY <1>1, <1>2

\* The hashes a manifest was made of are still the table's when it has grown.
LEMMA HashesKept ==
    ASSUME AuditTypeOK, NEW row \in Rows, events' = Append(events, row),
           NEW to \in 1 .. Len(events), NEW from \in 1 .. to
    PROVE  HashesOf(from, to)' = HashesOf(from, to)
<1>1. \A i \in 1 .. to - from + 1 : from + i - 1 \in 1 .. Len(events)
  BY RowAppended
<1>2. \A i \in 1 .. to - from + 1 : events'[from + i - 1] = events[from + i - 1]
  BY <1>1, RowAppended
<1> QED
  BY <1>2 DEF HashesOf

LEMMA HashesType ==
    ASSUME AuditTypeOK, NEW to \in 1 .. Len(events), NEW from \in 1 .. to
    PROVE  HashesOf(from, to) \in Seq(Seq(EventTypes))
<1>1. Len(events) \in Nat
  BY DEF AuditTypeOK
<1>2. to - from + 1 \in Nat
  BY <1>1
<1>3. \A i \in 1 .. to - from + 1 : from + i - 1 \in 1 .. Len(events)
  BY <1>1
<1>4. \A i \in 1 .. to - from + 1 : events[from + i - 1].hash \in Seq(EventTypes)
  BY <1>3, EventType
<1>5. HashesOf(from, to) \in [1 .. to - from + 1 -> Seq(EventTypes)]
  BY <1>4 DEF HashesOf
<1> QED
  BY <1>2, <1>5

----------------------------------------------------------------------------
(* The steps. *)

\* What is said of the tables alone.
LEMMA TablesSame ==
    ASSUME AuditInv, UNCHANGED <<events, manifests>>
    PROVE  RowsHashed' /\ ForksNeedTwoWriters' /\ ManifestsInside' /\ ManifestsHold'
<1>1. RowsHashed'
  BY DEF AuditInv, RowsHashed
<1>2. ForksNeedTwoWriters'
  BY DEF AuditInv, ForksNeedTwoWriters, Linked
<1>3. ManifestsInside'
  BY DEF AuditInv, ManifestsInside
<1>4. ManifestsHold'
  BY DEF AuditInv, ManifestsHold, HashesOf
<1> QED
  BY <1>1, <1>2, <1>3, <1>4

\* A step that leaves the tables alone, and p without a row to insert or a manifest to make.
LEMMA TablesKept ==
    ASSUME AuditInv, NEW p \in Writers, NEW s \in {"Closed", "Ready"}, GoTo(p, s),
           draft' = draft \/ draft' = [draft EXCEPT ![p] = NoDraft],
           draft' = draft => step[p] # "Insert",
           UNCHANGED <<events, manifests>>
    PROVE  AuditInv'
<1>1. /\ step' \in [Writers -> {"Closed", "Ready", "Insert", "Manifest"}]
      /\ step'[p] = s /\ \A q \in Writers : q # p => step'[q] = step[q]
  BY DEF GoTo, AuditInv, AuditTypeOK
<1>2. /\ draft' \in [Writers -> Rows \cup {NoDraft}]
      /\ draft'[p] = NoDraft /\ \A q \in Writers : q # p => draft'[q] = draft[q]
  BY DEF AuditInv, AuditTypeOK
<1>3. AuditTypeOK'
  BY <1>1, <1>2 DEF AuditInv, AuditTypeOK
<1>4. DraftInv' /\ PendingInv'
  BY <1>1, <1>2 DEF AuditInv, DraftInv, ReadAt, HashAt, PendingInv, Pending
<1>5. RowsHashed' /\ ForksNeedTwoWriters' /\ ManifestsInside' /\ ManifestsHold'
  BY TablesSame
<1> QED
  BY <1>3, <1>4, <1>5 DEF AuditInv

\* The SELECT: what is read is the hash of the last row at that moment.
LEMMA ReadKeeps ==
    ASSUME AuditInv, NEW p \in Writers, NEW type \in EventTypes, ReadLastHash(p, type)
    PROVE  AuditInv'
<1> DEFINE row == [writer |-> p, type |-> type, prev |-> LastHash,
                   hash |-> RowHash(LastHash, type)]
<1>1. LastHash = HashAt(Len(events)) /\ LastHash \in Seq(EventTypes) /\ Len(events) \in Nat
  BY LastHashType DEF AuditInv
<1>2. RowHash(LastHash, type) \in Seq(EventTypes) /\ RowHash(LastHash, type) # <<>>
  BY <1>1, HashType
<1>3. row \in Rows /\ row # NoDraft
  BY <1>1, <1>2 DEF Rows, NoDraft, Genesis
<1>4. /\ step' \in [Writers -> {"Closed", "Ready", "Insert", "Manifest"}]
      /\ step'[p] = "Insert" /\ \A q \in Writers : q # p => step'[q] = step[q]
  BY DEF ReadLastHash, GoTo, AuditInv, AuditTypeOK
<1>5. /\ draft' \in [Writers -> Rows \cup {NoDraft}]
      /\ draft'[p] = row /\ \A q \in Writers : q # p => draft'[q] = draft[q]
  BY <1>3 DEF ReadLastHash, AuditInv, AuditTypeOK
<1>6. UNCHANGED <<events, manifests>>
  BY DEF ReadLastHash
<1>7. AuditTypeOK'
  BY <1>3, <1>4, <1>5, <1>6 DEF AuditInv, AuditTypeOK
<1>8. DraftInv'
  <2> SUFFICES ASSUME NEW q \in Writers, step'[q] = "Insert"
               PROVE  /\ draft'[q].writer = q
                      /\ draft'[q].hash = RowHash(draft'[q].prev, draft'[q].type)
                      /\ \E id \in 0 .. Len(events') : ReadAt(q, id)'
    BY DEF DraftInv
  <2>1. CASE q = p
    <3>1. /\ row.writer = p /\ row.prev = LastHash
          /\ row.hash = RowHash(row.prev, row.type)
      OBVIOUS
    <3> HIDE DEF row
    <3>2. Len(events) \in 0 .. Len(events) /\ \A later \in Len(events) + 1 .. Len(events) : FALSE
      BY <1>1
    <3>3. ReadAt(q, Len(events))'
      BY <1>1, <1>5, <1>6, <2>1, <3>1, <3>2 DEF ReadAt, HashAt
    <3> QED
      BY <1>5, <1>6, <2>1, <3>1, <3>2, <3>3
  <2>2. CASE q # p
    BY <1>4, <1>5, <1>6, <2>2 DEF AuditInv, DraftInv, ReadAt, HashAt
  <2> QED
    BY <2>1, <2>2
<1>9. PendingInv'
  BY <1>4, <1>6 DEF AuditInv, PendingInv, Pending
<1>10. RowsHashed' /\ ForksNeedTwoWriters' /\ ManifestsInside' /\ ManifestsHold'
  BY <1>6, TablesSame
<1> QED
  BY <1>7, <1>8, <1>9, <1>10 DEF AuditInv

\* The INSERT: if the row does not continue the one before it, that one is of a process that
\* got in between.
LEMMA InsertKeeps ==
    ASSUME AuditInv, NEW p \in Writers, InsertEvent(p)
    PROVE  AuditInv'
<1> DEFINE n == Len(events)
           row == draft[p]
<1>0. AuditTypeOK
  BY DEF AuditInv
<1>1. /\ step[p] = "Insert" /\ n < MaxRows /\ events' = Append(events, row)
      /\ UNCHANGED manifests /\ draft' = [draft EXCEPT ![p] = NoDraft]
      /\ GoTo(p, IF Len(events') % ManifestInterval = 0 THEN "Manifest" ELSE "Ready")
  BY DEF InsertEvent
<1>2. row \in Rows /\ row.writer = p /\ row.hash = RowHash(row.prev, row.type)
  BY <1>0, <1>1 DEF AuditTypeOK, AuditInv, DraftInv
<1>3. PICK read \in 0 .. n : ReadAt(p, read)
  BY <1>1 DEF AuditInv, DraftInv
<1> HIDE DEF row
<1>4. /\ n \in Nat /\ Len(events') = n + 1 /\ events' \in Seq(Rows) /\ events'[n + 1] = row
      /\ \A id \in 1 .. n : events'[id] = events[id]
  BY <1>0, <1>1, <1>2, RowAppended
<1> HIDE DEF n
<1>5. /\ step' \in [Writers -> {"Closed", "Ready", "Insert", "Manifest"}]
      /\ step'[p] = IF (n + 1) % ManifestInterval = 0 THEN "Manifest" ELSE "Ready"
      /\ \A q \in Writers : q # p => step'[q] = step[q]
  BY <1>0, <1>1, <1>4 DEF GoTo, AuditTypeOK
<1>6. /\ draft' \in [Writers -> Rows \cup {NoDraft}]
      /\ draft'[p] = NoDraft /\ \A q \in Writers : q # p => draft'[q] = draft[q]
  BY <1>0, <1>1 DEF AuditTypeOK
<1>7. AuditTypeOK'
  <2>1. Len(events') <= MaxRows
    BY <1>1, <1>4, AuditLogAssumption DEF n
  <2>2. \A q \in Writers : draft'[q] # NoDraft <=> step'[q] = "Insert"
    BY <1>0, <1>5, <1>6 DEF AuditTypeOK
  <2> QED
    BY <1>0, <1>1, <1>4, <1>5, <1>6, <2>1, <2>2 DEF AuditTypeOK
<1>8. DraftInv'
  <2> SUFFICES ASSUME NEW q \in Writers, step'[q] = "Insert"
               PROVE  /\ draft'[q].writer = q
                      /\ draft'[q].hash = RowHash(draft'[q].prev, draft'[q].type)
                      /\ \E id \in 0 .. Len(events') : ReadAt(q, id)'
    BY DEF DraftInv
  <2>1. q # p /\ step[q] = "Insert" /\ draft'[q] = draft[q]
    BY <1>5, <1>6
  <2>2. /\ draft[q].writer = q /\ draft[q].hash = RowHash(draft[q].prev, draft[q].type)
        /\ \E id \in 0 .. n : ReadAt(q, id)
    BY <2>1 DEF AuditInv, DraftInv, n
  <2>3. PICK id \in 0 .. n : ReadAt(q, id)
    BY <2>2
  <2>4. HashAt(id)' = HashAt(id)
    BY <1>0, <1>1, <1>2, HashAtKept DEF n
  <2>5. \A later \in id + 1 .. n + 1 : events'[later].writer # q
    <3> SUFFICES ASSUME NEW later \in id + 1 .. n + 1 PROVE events'[later].writer # q
      OBVIOUS
    <3>1. CASE later = n + 1
      BY <1>2, <1>4, <2>1, <3>1
    <3>2. CASE later # n + 1
      <4>1. later \in 1 .. n /\ later \in id + 1 .. n
        BY <1>4, <3>2
      <4> QED
        BY <1>4, <2>3, <4>1 DEF ReadAt, n
    <3> QED
      BY <3>1, <3>2
  <2>6. ReadAt(q, id)' /\ id \in 0 .. Len(events')
    BY <1>4, <2>1, <2>3, <2>4, <2>5 DEF ReadAt
  <2> QED
    BY <2>1, <2>2, <2>6
<1>9. RowsHashed'
  <2> SUFFICES ASSUME NEW id \in 1 .. n + 1
               PROVE  events'[id].hash = RowHash(events'[id].prev, events'[id].type)
    BY <1>4 DEF RowsHashed
  <2>1. CASE id = n + 1
    BY <1>2, <1>4, <2>1
  <2>2. CASE id # n + 1
    <3>1. id \in 1 .. n
      BY <1>4, <2>2
    <3> QED
      BY <1>4, <3>1 DEF AuditInv, RowsHashed, n
  <2> QED
    BY <2>1, <2>2
<1>10. ForksNeedTwoWriters'
  <2> SUFFICES ASSUME NEW id \in 1 .. n + 1, ~Linked(id)'
               PROVE  /\ id > 1 /\ events'[id - 1].writer # events'[id].writer
                      /\ \/ events'[id].prev = Genesis
                         \/ \E older \in 1 .. id - 2 : events'[older].hash = events'[id].prev
    BY <1>4 DEF ForksNeedTwoWriters
  <2>1. CASE id = n + 1
    <3>1. row.prev = HashAt(read) /\ \A later \in read + 1 .. n : events[later].writer # p
      <4>1. row.prev = HashAt(read)
        BY <1>3 DEF ReadAt, row
      <4> QED
        BY <1>3, <4>1 DEF ReadAt, n
    <3>2. read # n
      <4> SUFFICES ASSUME read = n PROVE FALSE
        OBVIOUS
      <4>1. CASE n = 0
        BY <1>4, <2>1, <3>1, <4>1 DEF Linked, HashAt
      <4>2. CASE n # 0
        <5>1. n \in 1 .. n /\ id - 1 = n /\ id # 1
          BY <1>4, <2>1, <4>2
        <5> QED
          BY <1>4, <2>1, <3>1, <4>2, <5>1 DEF Linked, HashAt
      <4> QED
        BY <4>1, <4>2
    <3>3. n > 0 /\ n \in read + 1 .. n /\ n \in 1 .. n /\ id - 1 = n
      BY <1>4, <2>1, <3>2
    <3>4. events'[id - 1].writer # events'[id].writer
      BY <1>2, <1>4, <2>1, <3>1, <3>3
    <3>5. CASE read = 0
      BY <1>4, <2>1, <3>1, <3>3, <3>4, <3>5 DEF HashAt
    <3>6. CASE read # 0
      <4>1. read \in 1 .. id - 2 /\ read \in 1 .. n
        BY <1>4, <2>1, <3>2, <3>6
      <4>2. events'[read].hash = events'[id].prev
        BY <1>4, <2>1, <3>1, <3>6, <4>1 DEF HashAt
      <4> QED
        BY <1>4, <2>1, <3>3, <3>4, <4>1, <4>2
    <3> QED
      BY <3>5, <3>6
  <2>2. CASE id # n + 1
    <3>1. id \in 1 .. n /\ (id # 1 => id - 1 \in 1 .. n)
          /\ \A older \in 1 .. id - 2 : older \in 1 .. n
      BY <1>4, <2>2
    <3>2. ~Linked(id)
      BY <1>4, <3>1 DEF Linked
    <3>3. /\ id > 1 /\ events[id - 1].writer # events[id].writer
          /\ \/ events[id].prev = Genesis
             \/ \E older \in 1 .. id - 2 : events[older].hash = events[id].prev
      BY <3>1, <3>2 DEF AuditInv, ForksNeedTwoWriters, n
    <3> QED
      BY <1>4, <3>1, <3>3
  <2> QED
    BY <2>1, <2>2
<1>11. ManifestsInside'
  BY <1>1, <1>4 DEF AuditInv, ManifestsInside, n
<1>12. ManifestsHold'
  <2>1. \A to \in 1 .. n : \A from \in 1 .. to : HashesOf(from, to)' = HashesOf(from, to)
    BY <1>0, <1>1, <1>2, HashesKept DEF n
  <2>2. ASSUME NEW k \in 1 .. Len(manifests)
        PROVE  manifests[k].to \in 1 .. n /\ manifests[k].from \in 1 .. manifests[k].to
    <3>1. /\ manifests[k].to \in 1 .. n /\ manifests[k].to % ManifestInterval = 0
          /\ manifests[k].from = manifests[k].to - ManifestInterval + 1
      BY DEF AuditInv, ManifestsInside, ManifestsHold, n
    <3>2. manifests[k].to \in Nat \ {0}
      BY <1>4, <3>1
    <3> QED
      BY <3>1, <3>2, IntervalEnd
  <2> QED
    BY <1>1, <2>1, <2>2 DEF AuditInv, ManifestsHold
<1>13. PendingInv'
  <2> SUFFICES ASSUME NEW q \in Writers, step'[q] = "Manifest"
               PROVE  \E to \in 1 .. n + 1 : Pending(q, to)'
    BY <1>4 DEF PendingInv
  <2>1. CASE q = p
    <3>1. (n + 1) % ManifestInterval = 0
      BY <1>5, <2>1
    <3>2. \A k \in 1 .. Len(manifests) : manifests[k].to # n + 1
      BY <1>4 DEF AuditInv, ManifestsInside, n
    <3>3. PICK to \in 1 .. n + 1 : to = n + 1
      BY <1>4
    <3>4. \A later \in to + 1 .. Len(events') : FALSE
      BY <1>4, <3>3
    <3>5. Pending(q, to)'
      BY <1>1, <1>2, <1>4, <2>1, <3>1, <3>2, <3>3, <3>4 DEF Pending
    <3> QED
      BY <3>5
  <2>2. CASE q # p
    <3>1. PICK to \in 1 .. n : Pending(q, to)
      BY <1>5, <2>2 DEF AuditInv, PendingInv, n
    <3>2. events'[to] = events[to] /\ to \in 1 .. n + 1
      BY <1>4
    <3>3. \A later \in to + 1 .. n + 1 : events'[later].writer # q
      <4> SUFFICES ASSUME NEW later \in to + 1 .. n + 1 PROVE events'[later].writer # q
        OBVIOUS
      <4>1. CASE later = n + 1
        BY <1>2, <1>4, <2>2, <4>1
      <4>2. CASE later # n + 1
        <5>1. later \in 1 .. n /\ later \in to + 1 .. n
          BY <1>4, <4>2
        <5> QED
          BY <1>4, <3>1, <5>1 DEF Pending, n
      <4> QED
        BY <4>1, <4>2
    <3>4. Pending(q, to)'
      BY <1>1, <1>4, <3>1, <3>2, <3>3 DEF Pending
    <3> QED
      BY <3>2, <3>4
  <2> QED
    BY <2>1, <2>2
<1> QED
  BY <1>7, <1>8, <1>9, <1>10, <1>11, <1>12, <1>13 DEF AuditInv

\* The manifest: the process's own last row is still the one that ended an interval, however
\* many rows of others follow it, and nobody has made that manifest.
LEMMA ManifestKeeps ==
    ASSUME AuditInv, NEW p \in Writers, CreateManifest(p)
    PROVE  AuditInv'
<1> DEFINE n == Len(events)
           k == Len(manifests)
<1>0. AuditTypeOK /\ n \in Nat /\ k \in Nat /\ n <= MaxRows /\ MaxRows \in Nat
  BY AuditLogAssumption DEF AuditInv, AuditTypeOK
<1>1. PICK to \in 1 .. n : Pending(p, to)
  BY DEF AuditInv, PendingInv, CreateManifest
<1>2. OwnLastId(p) = to
  <2>1. /\ events[to].writer = p
        /\ \A later \in to + 1 .. n : events[later].writer # p
    BY <1>1 DEF Pending
  <2>2. ASSUME NEW i \in 1 .. n, events[i].writer = p,
               \A later \in i + 1 .. n : events[later].writer # p
        PROVE  i = to
    <3>1. ~(to \in i + 1 .. n) /\ ~(i \in to + 1 .. n)
      BY <2>1, <2>2
    <3> QED
      BY <1>0, <3>1
  <2> QED
    BY <2>1, <2>2 DEF OwnLastId
<1>3. PICK from \in 1 .. to : from = to - ManifestInterval + 1
  <2>1. to \in Nat \ {0} /\ to % ManifestInterval = 0
    BY <1>0, <1>1 DEF Pending
  <2> QED
    BY <2>1, IntervalEnd
<1> DEFINE manifest == [from |-> from, to |-> to, hashes |-> HashesOf(from, to)]
           Manifests == [from : 1 .. MaxRows, to : 1 .. MaxRows, hashes : Seq(Seq(EventTypes))]
<1>4. /\ manifests' = Append(manifests, manifest) /\ step[p] = "Manifest"
      /\ UNCHANGED <<events, draft>> /\ GoTo(p, "Ready")
  BY <1>2, <1>3 DEF CreateManifest
<1>5. manifest \in Manifests
  <2>1. HashesOf(from, to) \in Seq(Seq(EventTypes))
    BY <1>0, HashesType
  <2>2. from \in 1 .. MaxRows /\ to \in 1 .. MaxRows
    BY <1>0
  <2> QED
    BY <2>1, <2>2
<1>6. manifest.from = from /\ manifest.to = to /\ manifest.hashes = HashesOf(from, to)
  OBVIOUS
<1>7. manifests \in Seq(Manifests)
  BY <1>0 DEF AuditTypeOK
<1> HIDE DEF manifest, Manifests
<1>8. /\ manifests' \in Seq(Manifests) /\ Len(manifests') = k + 1
      /\ manifests'[k + 1] = manifest /\ \A j \in 1 .. k : manifests'[j] = manifests[j]
  BY <1>4, <1>5, <1>7
<1> HIDE DEF n, k
<1>9. /\ step' \in [Writers -> {"Closed", "Ready", "Insert", "Manifest"}]
      /\ step'[p] = "Ready" /\ \A q \in Writers : q # p => step'[q] = step[q]
  BY <1>0, <1>4 DEF GoTo, AuditTypeOK
<1>10. AuditTypeOK'
  BY <1>0, <1>4, <1>8, <1>9 DEF AuditTypeOK, Manifests
<1>11. DraftInv'
  BY <1>4, <1>9 DEF AuditInv, DraftInv, ReadAt, HashAt
<1>12. RowsHashed' /\ ForksNeedTwoWriters'
  <2>1. RowsHashed'
    BY <1>4 DEF AuditInv, RowsHashed
  <2>2. ForksNeedTwoWriters'
    BY <1>4 DEF AuditInv, ForksNeedTwoWriters, Linked
  <2> QED
    BY <2>1, <2>2
\* Every manifest is the new one or an old one, and the old ones are of other rows.
<1>13. ASSUME NEW j \in 1 .. k + 1
       PROVE  \/ j = k + 1 /\ manifests'[j] = manifest
              \/ j \in 1 .. k /\ manifests'[j] = manifests[j] /\ manifests[j].to # to
  <2>1. CASE j = k + 1
    BY <1>8, <2>1
  <2>2. CASE j # k + 1
    <3>1. j \in 1 .. k
      BY <1>0, <2>2 DEF k
    <3> QED
      BY <1>1, <1>8, <3>1 DEF Pending, k
  <2> QED
    BY <2>1, <2>2
<1>14. ManifestsInside'
  <2> SUFFICES ASSUME NEW j \in 1 .. k + 1 PROVE manifests'[j].to \in 1 .. n
    BY <1>4, <1>8 DEF ManifestsInside, n
  <2> QED
    BY <1>6, <1>13 DEF AuditInv, ManifestsInside, n, k
<1>15. ManifestsHold'
  <2>1. ASSUME NEW j \in 1 .. k + 1
        PROVE  /\ manifests'[j].to % ManifestInterval = 0
               /\ manifests'[j].from = manifests'[j].to - ManifestInterval + 1
               /\ manifests'[j].hashes = HashesOf(manifests'[j].from, manifests'[j].to)
    <3>1. CASE j = k + 1 /\ manifests'[j] = manifest
      BY <1>1, <1>3, <1>6, <3>1 DEF Pending
    <3>2. CASE j \in 1 .. k /\ manifests'[j] = manifests[j]
      BY <3>2 DEF AuditInv, ManifestsHold, k
    <3> QED
      BY <1>13, <3>1, <3>2
  <2>2. ASSUME NEW i \in 1 .. k + 1, NEW j \in 1 .. k + 1, manifests'[i].to = manifests'[j].to
        PROVE  i = j
    <3>1. CASE i = k + 1 /\ j = k + 1
      BY <3>1
    <3>2. CASE i \in 1 .. k /\ j \in 1 .. k
      <4>1. manifests[i].to = manifests[j].to
        BY <1>8, <2>2, <3>2
      <4> QED
        BY <3>2, <4>1 DEF AuditInv, ManifestsHold, k
    <3> QED
      BY <1>6, <1>13, <2>2, <3>1, <3>2
  <2>3. \A j \in 1 .. k + 1 : HashesOf(manifests[j].from, manifests[j].to)'
                                = HashesOf(manifests'[j].from, manifests'[j].to)
    BY <1>4 DEF HashesOf
  <2> QED
    BY <1>8, <2>1, <2>2, <2>3 DEF ManifestsHold
<1>16. PendingInv'
  <2> SUFFICES ASSUME NEW q \in Writers, step'[q] = "Manifest"
               PROVE  \E last \in 1 .. n : Pending(q, last)'
    BY <1>4 DEF PendingInv, n
  <2>1. q # p /\ step[q] = "Manifest"
    BY <1>9
  <2>2. PICK last \in 1 .. n : Pending(q, last)
    BY <2>1 DEF AuditInv, PendingInv, n
  <2>3. last # to
    BY <1>1, <2>1, <2>2 DEF Pending
  <2>4. \A j \in 1 .. k + 1 : manifests'[j].to # last
    BY <1>6, <1>13, <2>2, <2>3 DEF Pending, k
  <2>5. Pending(q, last)'
    BY <1>4, <1>8, <2>2, <2>4 DEF Pending
  <2> QED
    BY <2>5
<1> QED
  BY <1>10, <1>11, <1>12, <1>14, <1>15, <1>16 DEF AuditInv

LEMMA AuditInvStep ==
    ASSUME AuditInv, [AuditNext]_auditVars
    PROVE  AuditInv'
<1>1. ASSUME NEW p \in Writers, OpenStore(p) PROVE AuditInv'
  BY <1>1, TablesKept DEF OpenStore
<1>2. ASSUME NEW p \in Writers, NEW type \in EventTypes, ReadLastHash(p, type) PROVE AuditInv'
  BY <1>2, ReadKeeps
<1>3. ASSUME NEW p \in Writers, InsertEvent(p) PROVE AuditInv'
  BY <1>3, InsertKeeps
<1>4. ASSUME NEW p \in Writers, CreateManifest(p) PROVE AuditInv'
  BY <1>4, ManifestKeeps
<1>5. ASSUME NEW p \in Writers, FailRecord(p) PROVE AuditInv'
  <2>1. draft' = draft => step[p] # "Insert"
    <3>1. draft'[p] = NoDraft /\ (draft[p] # NoDraft <=> step[p] = "Insert")
      BY <1>5 DEF FailRecord, AuditInv, AuditTypeOK
    <3> QED
      BY <3>1
  <2> QED
    BY <1>5, <2>1, TablesKept DEF FailRecord
<1>6. ASSUME NEW p \in Writers, CloseStore(p) PROVE AuditInv'
  <2>1. draft' = draft => step[p] # "Insert"
    <3>1. draft'[p] = NoDraft /\ (draft[p] # NoDraft <=> step[p] = "Insert")
      BY <1>6 DEF CloseStore, AuditInv, AuditTypeOK
    <3> QED
      BY <3>1
  <2> QED
    BY <1>6, <2>1, TablesKept DEF CloseStore
<1>7. CASE UNCHANGED auditVars
  <2>1. UNCHANGED <<events, manifests, step, draft>>
    BY <1>7 DEF auditVars
  <2>2. AuditTypeOK'
    BY <2>1 DEF AuditInv, AuditTypeOK
  <2>3. DraftInv'
    BY <2>1 DEF AuditInv, DraftInv, ReadAt, HashAt
  <2>4. PendingInv'
    BY <2>1 DEF AuditInv, PendingInv, Pending
  <2> QED
    BY <2>1, <2>2, <2>3, <2>4, TablesSame DEF AuditInv
<1> QED
  BY <1>1, <1>2, <1>3, <1>4, <1>5, <1>6, <1>7 DEF AuditNext

LEMMA AuditInvInit == AuditInit => AuditInv
<1> SUFFICES ASSUME AuditInit PROVE AuditInv
  OBVIOUS
<1>1. /\ events = <<>> /\ manifests = <<>> /\ Len(events) = 0 /\ Len(manifests) = 0
      /\ \A id \in 1 .. 0 : FALSE
  BY DEF AuditInit
<1>2. /\ step \in [Writers -> {"Closed", "Ready", "Insert", "Manifest"}]
      /\ draft \in [Writers -> Rows \cup {NoDraft}]
      /\ \A p \in Writers : step[p] = "Closed" /\ draft[p] = NoDraft
  BY DEF AuditInit
<1>3. AuditTypeOK
  BY <1>1, <1>2, AuditLogAssumption DEF AuditTypeOK
<1>4. DraftInv /\ PendingInv
  BY <1>2 DEF DraftInv, PendingInv
<1>5. RowsHashed /\ ForksNeedTwoWriters /\ ManifestsInside /\ ManifestsHold
  BY <1>1 DEF RowsHashed, ForksNeedTwoWriters, ManifestsInside, ManifestsHold
<1> QED
  BY <1>3, <1>4, <1>5 DEF AuditInv

LEMMA AuditInvHolds == AuditSpec => []AuditInv
<1>1. AuditInv /\ [AuditNext]_auditVars => AuditInv'
  BY AuditInvStep
<1> QED
  BY <1>1, AuditInvInit, PTL DEF AuditSpec

----------------------------------------------------------------------------
(* What the log promises. *)

\* The tables and what the processes hold keep their types; in particular a manifest only
\* ever names rows that the table can have.
THEOREM AuditTypesCorrect == AuditSpec => []AuditTypeOK
<1>1. AuditInv => AuditTypeOK
  BY DEF AuditInv
<1> QED
  BY <1>1, AuditInvHolds, PTL

\* record_event: two statements and no transaction, yet the chain forks only where two
\* processes overlapped, and a forked row still continues a row of the table.
THEOREM ForksTakeTwo == AuditSpec => []ForksNeedTwoWriters
<1>1. AuditInv => ForksNeedTwoWriters
  BY DEF AuditInv
<1> QED
  BY <1>1, AuditInvHolds, PTL

\* maybe_create_manifest: however many processes insert between a row and its manifest, the
\* manifest is of the interval that row ended, agrees with the table, and is the only one.
THEOREM ManifestsAgree == AuditSpec => []ManifestsHold
<1>1. AuditInv => ManifestsHold
  BY DEF AuditInv
<1> QED
  BY <1>1, AuditInvHolds, PTL

\* One process that restarts as often as it likes and fails at any statement keeps one
\* chain: verify over the whole table finds nothing.
THEOREM OneWriterVerifies == (\A p, q \in Writers : p = q) => (AuditSpec => []VerifyPasses)
<1>1. ASSUME \A p, q \in Writers : p = q, AuditInv PROVE VerifyPasses
  <2>1. \A id \in 1 .. Len(events) : Linked(id)
    <3> SUFFICES ASSUME NEW id \in 1 .. Len(events), ~Linked(id) PROVE FALSE
      OBVIOUS
    <3>1. id > 1 /\ events[id - 1].writer # events[id].writer
      BY <1>1 DEF AuditInv, ForksNeedTwoWriters
    <3>2. id - 1 \in 1 .. Len(events) /\ Len(events) \in Nat
      BY <1>1, <3>1 DEF AuditInv, AuditTypeOK
    <3>3. events[id - 1].writer \in Writers /\ events[id].writer \in Writers
      BY <1>1, <3>2, EventType DEF AuditInv
    <3> QED
      BY <1>1, <3>1, <3>3
  <2>2. ASSUME NEW id \in 1 .. Lowest(Len(events), Len(events))
        PROVE  events[id].prev = ExpectedPrev(id, 1)
               /\ events[id].hash = RowHash(events[id].prev, events[id].type)
    <3>1. id \in 1 .. Len(events)
      BY DEF Lowest
    <3>2. Linked(id)
      BY <2>1, <3>1
    <3> QED
      BY <1>1, <3>1, <3>2 DEF Linked, ExpectedPrev, AuditInv, RowsHashed
  <2> QED
    BY <2>2 DEF VerifyPasses, BrokenRows
<1>2. ASSUME \A p, q \in Writers : p = q PROVE AuditSpec => []VerifyPasses
  <2>1. AuditInv => VerifyPasses
    BY <1>1, <1>2
  <2> QED
    BY <2>1, AuditInvHolds, PTL
<1> QED
  BY <1>2

\* What verify expects of a row does not depend on where it starts.
LEMMA ExpectedAlike ==
    ASSUME NEW first \in Nat \ {0}, NEW id \in Nat, id >= first
    PROVE  ExpectedPrev(id, first) = ExpectedPrev(id, 1)
BY DEF ExpectedPrev

\* So what it finds in a part of the table is what it finds of that part in the whole.
LEMMA BrokenInRange ==
    ASSUME AuditTypeOK, NEW first \in Nat \ {0}, NEW last \in Nat, last <= Len(events)
    PROVE  BrokenRows(first, last)
             = {id \in BrokenRows(1, Len(events)) : first <= id /\ id <= last}
<1>1. Len(events) \in Nat
  BY DEF AuditTypeOK
<1>2. Lowest(last, Len(events)) = last /\ Lowest(Len(events), Len(events)) = Len(events)
  BY <1>1 DEF Lowest
<1>3. ASSUME NEW id \in first .. last
      PROVE  ExpectedPrev(id, first) = ExpectedPrev(id, 1) /\ id \in 1 .. Len(events)
  <2>1. id \in Nat /\ id >= first /\ id \in 1 .. Len(events)
    BY <1>1, <1>3
  <2> QED
    BY <2>1, ExpectedAlike
<1>4. ASSUME NEW id \in BrokenRows(first, last)
      PROVE  id \in BrokenRows(1, Len(events)) /\ first <= id /\ id <= last
  <2>1. id \in first .. last /\ first <= id /\ id <= last
    BY <1>2, <1>4 DEF BrokenRows
  <2> QED
    BY <1>2, <1>3, <1>4, <2>1 DEF BrokenRows
<1>5. ASSUME NEW id \in BrokenRows(1, Len(events)), first <= id, id <= last
      PROVE  id \in BrokenRows(first, last)
  <2>1. id \in 1 .. Len(events)
    BY <1>2, <1>5 DEF BrokenRows
  <2>2. id \in first .. last
    BY <1>1, <1>5, <2>1
  <2> QED
    BY <1>2, <1>3, <1>5, <2>2 DEF BrokenRows
<1> QED
  BY <1>4, <1>5

----------------------------------------------------------------------------
(* What a query returns. *)

\* Induction over the naturals, said of a set: a number missing from it would have a least.
LEMMA SetInduction ==
    ASSUME NEW S, 0 \in S, \A n \in Nat : n \in S => n + 1 \in S
    PROVE  Nat \subseteq S
<1> DEFINE T == {n \in Nat : n \notin S}
           R == OpToRel(<, Nat)
<1> SUFFICES ASSUME T # {} PROVE FALSE
  OBVIOUS
<1>1. IsWellFoundedOn(R, Nat)
  BY NatLessThanWellFounded
<1>2. \A a, b \in Nat : a < b => <<a, b>> \in R
  BY DEF OpToRel
<1>3. T \subseteq Nat
  OBVIOUS
<1> HIDE DEF R
<1>4. PICK x \in T : \A y \in T : ~(<<y, x>> \in R)
  BY <1>1, <1>3, WFMin
<1>5. x \in Nat /\ x # 0 /\ x - 1 \in Nat /\ x - 1 < x
  BY <1>4
<1>6. x - 1 \in S
  BY <1>2, <1>4, <1>5
<1>7. (x - 1) + 1 \in S /\ (x - 1) + 1 = x
  BY <1>5, <1>6
<1> QED
  BY <1>4, <1>7

\* The rows found among the newest n, for each of the first n.
Collected(g, type, n) ==
    /\ DOMAIN g = 0 .. n
    /\ \A k \in 0 .. n :
           g[k] = IF k = 0 THEN <<>>
                  ELSE IF Matches(Len(events) - k + 1, type)
                       THEN Append(g[k - 1], Len(events) - k + 1) ELSE g[k - 1]

LEMMA CollectedExists ==
    ASSUME NEW type, NEW n \in Nat
    PROVE  \E g : Collected(g, type, n)
<1> DEFINE S == {k \in Nat : \E g : Collected(g, type, k)}
<1>1. 0 \in S
  <2> DEFINE g == [k \in 0 .. 0 |-> <<>>]
  <2>1. \A k \in 0 .. 0 : k = 0 /\ g[k] = <<>>
    OBVIOUS
  <2>2. Collected(g, type, 0)
    BY <2>1 DEF Collected
  <2> QED
    BY <2>2
<1>2. ASSUME NEW k \in Nat, k \in S PROVE k + 1 \in S
  <2>1. PICK g : Collected(g, type, k)
    BY <1>2
  <2> DEFINE next == IF Matches(Len(events) - (k + 1) + 1, type)
                     THEN Append(g[k], Len(events) - (k + 1) + 1) ELSE g[k]
             h == [j \in 0 .. k + 1 |-> IF j <= k THEN g[j] ELSE next]
  <2>2. ASSUME NEW j \in 0 .. k + 1
        PROVE  h[j] = IF j = 0 THEN <<>>
                      ELSE IF Matches(Len(events) - j + 1, type)
                           THEN Append(h[j - 1], Len(events) - j + 1) ELSE h[j - 1]
    <3>1. j # 0 => j - 1 \in 0 .. k + 1 /\ j - 1 <= k
      OBVIOUS
    <3>2. j # 0 => h[j - 1] = g[j - 1]
      BY <3>1
    <3>3. CASE j <= k
      <4>1. j \in 0 .. k /\ h[j] = g[j]
        BY <3>3
      <4> HIDE DEF h
      <4> QED
        BY <2>1, <3>2, <4>1 DEF Collected
    <3>4. CASE ~(j <= k)
      <4>1. j = k + 1 /\ h[j] = next /\ j - 1 = k /\ j # 0
        BY <3>4
      <4> HIDE DEF h
      <4> QED
        BY <3>2, <4>1 DEF next
    <3> QED
      BY <3>3, <3>4
  <2>3. DOMAIN h = 0 .. k + 1
    OBVIOUS
  <2> HIDE DEF h
  <2>4. Collected(h, type, k + 1)
    BY <2>2, <2>3 DEF Collected
  <2> QED
    BY <2>4
<1> HIDE DEF S
<1>3. Nat \subseteq S
  BY <1>1, <1>2, SetInduction
<1> QED
  BY <1>3 DEF S

Scanned(limit) == Lowest(Lowest(Limit(limit, QueryMaxRows), QueryMaxRows), Len(events))

\* query_events_capped goes through the rows it scans from the newest on.
LEMMA QueryCollects ==
    ASSUME NEW type, NEW limit, Scanned(limit) \in Nat
    PROVE  \E g : Collected(g, type, Scanned(limit)) /\ QueryCapped(type, limit) = g[Scanned(limit)]
<1> DEFINE N == Scanned(limit)
           Fits(f) == f = [n \in 0 .. N |->
                             IF n = 0 THEN <<>>
                             ELSE IF Matches(Len(events) - n + 1, type)
                                  THEN Append(f[n - 1], Len(events) - n + 1) ELSE f[n - 1]]
           F == CHOOSE f : Fits(f)
<1>1. \E f : Fits(f)
  <2>1. PICK g : Collected(g, type, N)
    BY CollectedExists
  <2> DEFINE h == [k \in 0 .. N |-> g[k]]
  <2>2. \A k \in 0 .. N : k # 0 => k - 1 \in 0 .. N
    OBVIOUS
  <2>3. \A k \in 0 .. N : h[k] = IF k = 0 THEN <<>>
                                 ELSE IF Matches(Len(events) - k + 1, type)
                                      THEN Append(h[k - 1], Len(events) - k + 1) ELSE h[k - 1]
    BY <2>1, <2>2 DEF Collected
  <2>4. Fits(h)
    BY <2>3
  <2> QED
    BY <2>4
<1>2. Fits(F)
  BY <1>1
<1>3. QueryCapped(type, limit) = F[N]
  BY DEF QueryCapped, Scanned
<1> HIDE DEF F
<1>4. Collected(F, type, N)
  BY <1>2 DEF Collected
<1> QED
  BY <1>3, <1>4
\* The rows of the newest n that match, without a gap, the newest first.
NewestRows(rows, type, n) ==
    /\ rows \in Seq(Nat) /\ Len(rows) <= n
    /\ \A i \in 1 .. Len(rows) : rows[i] \in Len(events) - n + 1 .. Len(events)
    /\ \A i, j \in 1 .. Len(rows) : i < j => rows[i] > rows[j]
    /\ \A id \in Len(events) - n + 1 .. Len(events) :
           Matches(id, type) => \E i \in 1 .. Len(rows) : rows[i] = id

LEMMA CollectedNewest ==
    ASSUME Len(events) \in Nat, NEW type, NEW n \in 0 .. Len(events), NEW g, Collected(g, type, n)
    PROVE  NewestRows(g[n], type, n)
<1> PICK size \in Nat : size = Len(events)
  OBVIOUS
<1> DEFINE S == {k \in Nat : k <= n => NewestRows(g[k], type, k)}
<1>1. 0 \in S
  <2>1. g[0] = <<>>
    BY DEF Collected
  <2>2. <<>> \in Seq(Nat) /\ Len(<<>>) = 0
    OBVIOUS
  <2>3. NewestRows(<<>>, type, 0)
    BY <2>2 DEF NewestRows
  <2> QED
    BY <2>1, <2>3
<1>2. ASSUME NEW k \in Nat, k \in S PROVE k + 1 \in S
  <2> SUFFICES ASSUME k + 1 <= n PROVE NewestRows(g[k + 1], type, k + 1)
    OBVIOUS
  <2> PICK rows : rows = g[k]
    OBVIOUS
  <2> PICK id : id = size - (k + 1) + 1
    OBVIOUS
  <2>1. NewestRows(rows, type, k)
    BY <1>2
  <2>2. g[k + 1] = IF Matches(id, type) THEN Append(rows, id) ELSE rows
    <3>1. k + 1 \in 0 .. n /\ k + 1 # 0 /\ (k + 1) - 1 = k
      OBVIOUS
    <3> QED
      BY <3>1 DEF Collected
  <2>3. /\ id \in Nat /\ id = size - k /\ size - k + 1 = id + 1 /\ id <= size
        /\ size - (k + 1) + 1 = id
    OBVIOUS
  <2>4. /\ rows \in Seq(Nat) /\ Len(rows) \in Nat /\ Len(rows) <= k
        /\ \A i \in 1 .. Len(rows) : rows[i] \in id + 1 .. size
        /\ \A i, j \in 1 .. Len(rows) : i < j => rows[i] > rows[j]
        /\ \A m \in id + 1 .. size : Matches(m, type) => \E i \in 1 .. Len(rows) : rows[i] = m
    BY <2>1, <2>3 DEF NewestRows
  <2>5. CASE Matches(id, type)
    <3> PICK more : more = Append(rows, id)
      OBVIOUS
    <3>1. /\ more \in Seq(Nat) /\ Len(more) = Len(rows) + 1 /\ more[Len(rows) + 1] = id
          /\ \A i \in 1 .. Len(rows) : more[i] = rows[i]
      BY <2>3, <2>4
    <3>2. \A i \in 1 .. Len(more) : i \in 1 .. Len(rows) \/ i = Len(rows) + 1
      BY <2>4, <3>1
    <3>3. \A i \in 1 .. Len(more) : more[i] \in id .. size
      BY <2>3, <2>4, <3>1, <3>2
    <3>4. ASSUME NEW i \in 1 .. Len(more), NEW j \in 1 .. Len(more), i < j PROVE more[i] > more[j]
      <4>1. i \in 1 .. Len(rows)
        BY <2>4, <3>1, <3>4
      <4>2. more[i] = rows[i] /\ rows[i] \in id + 1 .. size
        BY <2>4, <3>1, <4>1
      <4>3. CASE j \in 1 .. Len(rows)
        BY <2>4, <3>1, <3>4, <4>1, <4>3
      <4>4. CASE j = Len(rows) + 1
        BY <2>3, <3>1, <4>2, <4>4
      <4> QED
        BY <3>2, <4>3, <4>4
    <3>5. ASSUME NEW m \in id .. size, Matches(m, type) PROVE \E i \in 1 .. Len(more) : more[i] = m
      <4>1. CASE m = id
        <5>1. Len(rows) + 1 \in 1 .. Len(more)
          BY <2>4, <3>1
        <5> QED
          BY <3>1, <4>1, <5>1
      <4>2. CASE m # id
        <5>1. m \in id + 1 .. size
          BY <2>3, <4>2
        <5>2. PICK i \in 1 .. Len(rows) : rows[i] = m
          BY <2>4, <3>5, <5>1
        <5>3. i \in 1 .. Len(more)
          BY <2>4, <3>1
        <5> QED
          BY <3>1, <5>2, <5>3
      <4> QED
        BY <4>1, <4>2
    <3>6. NewestRows(more, type, k + 1)
      <4>1. Len(more) <= k + 1
        BY <2>4, <3>1
      <4>2. Len(events) - (k + 1) + 1 = id /\ Len(events) = size
        BY <2>3
      <4> QED
        BY <3>1, <3>3, <3>4, <3>5, <4>1, <4>2 DEF NewestRows
    <3> QED
      BY <2>2, <2>5, <3>6
  <2>6. CASE ~Matches(id, type)
    <3>1. \A m \in id .. size : Matches(m, type) => m \in id + 1 .. size
      BY <2>3, <2>6
    <3>2. NewestRows(rows, type, k + 1)
      <4>1. Len(rows) <= k + 1
        BY <2>4
      <4>2. Len(events) - (k + 1) + 1 = id /\ Len(events) = size
        BY <2>3
      <4>3. \A i \in 1 .. Len(rows) : rows[i] \in id .. size
        <5>1. id + 1 .. size \subseteq id .. size
          BY <2>3
        <5> QED
          BY <2>4, <5>1
      <4>4. \A m \in id .. size : Matches(m, type) => \E i \in 1 .. Len(rows) : rows[i] = m
        BY <2>4, <3>1
      <4> QED
        BY <2>4, <4>1, <4>2, <4>3, <4>4 DEF NewestRows
    <3> QED
      BY <2>2, <2>6, <3>2
  <2> QED
    BY <2>5, <2>6
<1> HIDE DEF S
<1>3. Nat \subseteq S
  BY <1>1, <1>2, SetInduction
<1>4. n \in S
  BY <1>3
<1> QED
  BY <1>4 DEF S

LEMMA QueryFinds ==
    ASSUME AuditTypeOK, NEW type, NEW limit \in Nat
    PROVE  Scanned(limit) \in 0 .. Len(events) /\ NewestRows(QueryCapped(type, limit), type, Scanned(limit))
<1>1. Len(events) \in Nat /\ QueryMaxRows \in Nat
  BY AuditLogAssumption DEF AuditTypeOK
<1>2. Scanned(limit) \in 0 .. Len(events) /\ Scanned(limit) \in Nat
  BY <1>1 DEF Scanned, Lowest, Limit
<1>3. PICK g : Collected(g, type, Scanned(limit)) /\ QueryCapped(type, limit) = g[Scanned(limit)]
  BY <1>2, QueryCollects
<1> QED
  BY <1>1, <1>2, <1>3, CollectedNewest
\* Whichever rows are cut off of the old end, those that are left have no gap.
Gapless(ids, type) ==
    \A id \in 1 .. Len(events) :
        Matches(id, type) /\ (\E other \in ids : other < id) => id \in ids

\* tail returns the first of the rows found, at least one if there is one.
LEMMA TailFinds ==
    ASSUME AuditTypeOK, NEW type, NEW limit \in Nat
    PROVE  LET found == QueryCapped(type, limit)
               tail == TailRows(type, limit)
           IN  /\ found \in Seq(Nat) /\ tail \in Seq(Nat) /\ Len(tail) <= Len(found)
               /\ Len(tail) = 0 <=> Len(found) = 0
               /\ limit # NoLimit => Len(tail) <= limit
               /\ \A i \in 1 .. Len(tail) : tail[i] = found[i]
<1> PICK found : found = QueryCapped(type, limit)
  OBVIOUS
<1> PICK cap : cap = Lowest(Limit(limit, DefaultTail), QueryMaxRows)
  OBVIOUS
<1> PICK k : k = Lowest(cap, Len(found))
  OBVIOUS
<1>1. found \in Seq(Nat) /\ Len(found) \in Nat
  BY QueryFinds DEF NewestRows
<1>2. cap \in Nat /\ cap >= 1 /\ (limit # NoLimit => cap <= limit)
  BY AuditLogAssumption DEF Lowest, Limit, NoLimit
<1>3. /\ k \in 0 .. Len(found) /\ (k = 0 <=> Len(found) = 0)
      /\ limit # NoLimit => k <= limit
  BY <1>1, <1>2 DEF Lowest
<1> PICK tail : tail = SubSeq(found, 1, k)
  OBVIOUS
<1>4. TailRows(type, limit) = tail
  BY DEF TailRows
<1>5. tail \in Seq(Nat) /\ Len(tail) = k /\ \A i \in 1 .. k : tail[i] = found[i]
  BY <1>1, <1>3
<1> QED
  BY <1>1, <1>3, <1>4, <1>5

LEMMA TailComplete ==
    ASSUME AuditTypeOK, NEW type, NEW limit \in Nat
    PROVE  LET tail == TailRows(type, limit)
           IN  /\ Gapless(ToSet(tail), type)
               /\ \A i, j \in 1 .. Len(tail) : i < j => tail[i] > tail[j]
<1> PICK found : found = QueryCapped(type, limit)
  OBVIOUS
<1> PICK tail : tail = TailRows(type, limit)
  OBVIOUS
<1> PICK n : n = Scanned(limit)
  OBVIOUS
<1>1. /\ found \in Seq(Nat) /\ tail \in Seq(Nat) /\ Len(tail) <= Len(found)
      /\ Len(tail) \in Nat /\ Len(found) \in Nat
      /\ \A i \in 1 .. Len(tail) : tail[i] = found[i]
  BY TailFinds
<1>2. /\ n \in 0 .. Len(events)
      /\ \A i \in 1 .. Len(found) : found[i] \in Len(events) - n + 1 .. Len(events)
      /\ \A i, j \in 1 .. Len(found) : i < j => found[i] > found[j]
      /\ \A id \in Len(events) - n + 1 .. Len(events) :
             Matches(id, type) => \E i \in 1 .. Len(found) : found[i] = id
  <2>1. n \in 0 .. Len(events) /\ NewestRows(found, type, n)
    BY QueryFinds
  <2> QED
    BY <2>1 DEF NewestRows
<1>12. Len(events) \in Nat
  BY DEF AuditTypeOK
<1>3. ToSet(tail) = {tail[i] : i \in 1 .. Len(tail)}
  BY <1>1 DEF ToSet
<1>4. \A i \in 1 .. Len(tail) : i \in 1 .. Len(found)
  BY <1>1
<1>5. ASSUME NEW id \in 1 .. Len(events), Matches(id, type), NEW j \in 1 .. Len(tail), tail[j] < id
      PROVE  id \in ToSet(tail)
  <2>1. found[j] < id /\ j \in 1 .. Len(found) /\ found[j] \in Len(events) - n + 1 .. Len(events)
    BY <1>1, <1>2, <1>4, <1>5
  <2>2. id \in Len(events) - n + 1 .. Len(events)
    BY <1>12, <1>2, <2>1
  <2>3. PICK i \in 1 .. Len(found) : found[i] = id
    BY <1>2, <1>5, <2>2
  <2>4. found[i] \in Int /\ found[j] \in Int /\ ~(found[j] > found[i]) /\ i # j
    BY <1>1, <2>1, <2>3
  <2>5. ~(j < i)
    BY <1>2, <2>1, <2>4
  <2>6. i \in 1 .. Len(tail)
    BY <1>1, <2>4, <2>5
  <2> QED
    BY <1>1, <1>3, <2>3, <2>6
<1>6. Gapless(ToSet(tail), type)
  BY <1>3, <1>5 DEF Gapless
<1>7. \A i, j \in 1 .. Len(tail) : i < j => tail[i] > tail[j]
  BY <1>1, <1>2, <1>4
<1> QED
  BY <1>6, <1>7

LEMMA ExportComplete ==
    ASSUME AuditTypeOK, NEW type, NEW limit \in Nat
    PROVE  LET export == Export(type, limit)
           IN  /\ Gapless(ToSet(export), type)
               /\ \A i, j \in 1 .. Len(export) : i < j => export[i] < export[j]
               /\ limit # NoLimit => Len(export) <= limit
<1> PICK rows : rows = Lowest(Limit(limit, ExportMaxRows), ExportMaxRows)
  OBVIOUS
<1> PICK found : found = QueryCapped(type, rows)
  OBVIOUS
<1> PICK n : n = Scanned(rows)
  OBVIOUS
<1> PICK export : export = Export(type, limit)
  OBVIOUS
<1>1. rows \in Nat /\ rows # NoLimit /\ (limit # NoLimit => rows <= limit)
  BY AuditLogAssumption DEF Lowest, Limit, NoLimit
<1>2. /\ n \in 0 .. Len(events)
      /\ found \in Seq(Nat) /\ Len(found) \in Nat /\ Len(found) <= n
      /\ \A i \in 1 .. Len(found) : found[i] \in Len(events) - n + 1 .. Len(events)
      /\ \A i, j \in 1 .. Len(found) : i < j => found[i] > found[j]
      /\ \A id \in Len(events) - n + 1 .. Len(events) :
             Matches(id, type) => \E i \in 1 .. Len(found) : found[i] = id
  <2>1. n \in 0 .. Len(events) /\ NewestRows(found, type, n)
    BY <1>1, QueryFinds
  <2> QED
    BY <2>1 DEF NewestRows
<1>12. Len(events) \in Nat
  BY DEF AuditTypeOK
<1>3. n <= rows
  BY <1>12, <1>1, <1>2, AuditLogAssumption DEF Scanned, Lowest, Limit
<1>4. export = [i \in 1 .. Len(found) |-> found[(Len(found) - i) + 1]]
  BY DEF Export, Reverse
<1>5. /\ Len(export) = Len(found) /\ DOMAIN export = 1 .. Len(found)
      /\ \A i \in 1 .. Len(found) :
             /\ (Len(found) - i) + 1 \in 1 .. Len(found)
             /\ export[i] = found[(Len(found) - i) + 1]
  BY <1>2, <1>4
<1>6. ToSet(export) = {export[i] : i \in 1 .. Len(found)}
  BY <1>5 DEF ToSet
<1>7. \A i \in 1 .. Len(found) : found[i] \in ToSet(export)
  <2> TAKE i \in 1 .. Len(found)
  <2> PICK m \in 1 .. Len(found) : m = (Len(found) - i) + 1
    BY <1>5
  <2>1. (Len(found) - m) + 1 = i
    BY <1>2
  <2> QED
    BY <1>5, <1>6, <2>1
<1>8. ASSUME NEW id \in 1 .. Len(events), Matches(id, type), NEW j \in 1 .. Len(found), export[j] < id
      PROVE  id \in ToSet(export)
  <2>1. export[j] \in Len(events) - n + 1 .. Len(events)
    BY <1>2, <1>5
  <2>2. id \in Len(events) - n + 1 .. Len(events)
    BY <1>12, <1>2, <1>8, <2>1
  <2> QED
    BY <1>2, <1>7, <1>8, <2>2
<1>9. Gapless(ToSet(export), type)
  BY <1>6, <1>8 DEF Gapless
<1>10. ASSUME NEW i \in 1 .. Len(found), NEW j \in 1 .. Len(found), i < j PROVE export[i] < export[j]
  <2> PICK a \in 1 .. Len(found) : a = (Len(found) - i) + 1 /\ export[i] = found[a]
    BY <1>5
  <2> PICK b \in 1 .. Len(found) : b = (Len(found) - j) + 1 /\ export[j] = found[b]
    BY <1>5
  <2>1. b < a
    BY <1>2, <1>10
  <2>2. found[b] > found[a]
    BY <1>2, <2>1
  <2>3. found[a] \in Nat /\ found[b] \in Nat
    <3>1. found \in Seq(Nat)
      BY <1>2
    <3> QED
      BY <3>1
  <2> QED
    BY <2>2, <2>3
<1>11. limit # NoLimit => Len(export) <= limit
  <2>1. limit # NoLimit => rows <= limit
    BY <1>1
  <2> QED
    BY <1>1, <1>2, <1>3, <1>5, <2>1
<1> QED
  BY <1>5, <1>9, <1>10, <1>11
(* tail and export take the newest rows first and filter them afterwards, yet return the newest ones   *)
(* that match without a gap, in their two orders, however many rows, types and limits there are.       *)
THEOREM ReadsTakeNewest == AuditSpec => []ReadsAreNewest
<1>1. ASSUME AuditTypeOK PROVE ReadsAreNewest
  <2>1. ASSUME NEW type \in EventTypes \cup {AnyType}, NEW limit \in 0 .. MaxRows + 1
        PROVE  /\ Gapless(ToSet(TailRows(type, limit)), type)
               /\ Gapless(ToSet(Export(type, limit)), type)
               /\ \A i, j \in 1 .. Len(TailRows(type, limit)) :
                      i < j => TailRows(type, limit)[i] > TailRows(type, limit)[j]
               /\ \A i, j \in 1 .. Len(Export(type, limit)) :
                      i < j => Export(type, limit)[i] < Export(type, limit)[j]
               /\ limit # NoLimit => Len(TailRows(type, limit)) <= limit /\ Len(Export(type, limit)) <= limit
    <3>1. limit \in Nat
      OBVIOUS
    <3> QED
      BY <1>1, <3>1, TailFinds, TailComplete, ExportComplete
  <2> QED
    BY <2>1 DEF ReadsAreNewest, Gapless
<1>2. AuditTypeOK => ReadsAreNewest
  BY <1>1
<1> QED
  BY <1>2, AuditTypesCorrect, PTL

\* The row that tail answers first is the last one of the table.
LEMMA NewestAnswered ==
    ASSUME AuditTypeOK, events # <<>>
    PROVE  Head(TailRows(AnyType, 1)) = Len(events)
<1> PICK found : found = QueryCapped(AnyType, 1)
  OBVIOUS
<1> PICK tail : tail = TailRows(AnyType, 1)
  OBVIOUS
<1> PICK n : n = Scanned(1)
  OBVIOUS
<1>1. Len(events) \in Nat /\ Len(events) # 0
  BY DEF AuditTypeOK
<1>2. n \in 0 .. Len(events) /\ NewestRows(found, AnyType, n)
  BY QueryFinds
<1>3. n >= 1
  BY <1>1, AuditLogAssumption DEF Scanned, Lowest, Limit, NoLimit
<1>4. Len(events) \in Len(events) - n + 1 .. Len(events) /\ Matches(Len(events), AnyType)
  BY <1>1, <1>2, <1>3 DEF Matches
<1>5. PICK i \in 1 .. Len(found) : found[i] = Len(events)
  BY <1>2, <1>4 DEF NewestRows
<1>6. /\ found \in Seq(Nat) /\ Len(found) \in Nat
      /\ \A k \in 1 .. Len(found) : found[k] \in Len(events) - n + 1 .. Len(events)
      /\ \A j, k \in 1 .. Len(found) : j < k => found[j] > found[k]
  BY <1>2 DEF NewestRows
<1>7. 1 \in 1 .. Len(found) /\ found[1] = Len(events)
  <2>1. 1 \in 1 .. Len(found) /\ (i # 1 => 1 < i)
    BY <1>5, <1>6
  <2>2. ~(found[1] > Len(events))
    BY <1>1, <1>2, <1>6, <2>1
  <2> QED
    BY <1>5, <1>6, <2>1, <2>2
<1>8. /\ tail \in Seq(Nat) /\ Len(tail) # 0 /\ Len(tail) \in Nat
      /\ \A k \in 1 .. Len(tail) : tail[k] = found[k]
  BY <1>7, TailFinds
<1>9. 1 \in 1 .. Len(tail) /\ tail # <<>>
  BY <1>8
<1> QED
  BY <1>7, <1>8, <1>9

(* verify, and the self check that starts it some rows back: checking the table in pieces finds        *)
(* exactly what checking it at once finds, wherever it is cut.                                          *)
THEOREM RangesAgree == AuditSpec => []VerifyRangesAgree
<1>1. ASSUME AuditTypeOK PROVE VerifyRangesAgree
  <2> DEFINE n == Len(events)
             broken == BrokenRows(1, n)
  <2>0. n \in Nat /\ n <= MaxRows /\ MaxRows \in Nat
    BY <1>1, AuditLogAssumption DEF AuditTypeOK
  <2> SUFFICES ASSUME events # <<>>
               PROVE  /\ \A cut \in 1 .. n : broken = BrokenRows(1, cut) \cup BrokenRows(cut + 1, n)
                      /\ \A maxRows \in 1 .. MaxRows + 1 :
                             RecentlyBroken(maxRows) = {id \in broken : id > n - maxRows}
    BY DEF VerifyRangesAgree
  <2>1. n \in Nat \ {0}
    BY <1>1 DEF AuditTypeOK
  <2>2. \A id \in broken : id \in 1 .. n
    BY <2>0 DEF BrokenRows, Lowest
  <2>3. ASSUME NEW cut \in 1 .. n
        PROVE  broken = BrokenRows(1, cut) \cup BrokenRows(cut + 1, n)
    <3>1. cut \in Nat /\ cut <= n /\ cut + 1 \in Nat \ {0} /\ 1 \in Nat \ {0} /\ n <= n
      BY <2>0
    <3>2. /\ BrokenRows(1, cut) = {id \in broken : 1 <= id /\ id <= cut}
          /\ BrokenRows(cut + 1, n) = {id \in broken : cut + 1 <= id /\ id <= n}
      BY <1>1, <2>0, <3>1, BrokenInRange
    <3> HIDE DEF broken
    <3>3. \A id \in broken : (1 <= id /\ id <= cut) \/ (cut + 1 <= id /\ id <= n)
      BY <2>0, <2>2
    <3> QED
      BY <3>2, <3>3
  <2>4. ASSUME NEW maxRows \in 1 .. MaxRows + 1
        PROVE  RecentlyBroken(maxRows) = {id \in broken : id > n - maxRows}
    <3> DEFINE start == IF n - maxRows + 1 < 1 THEN 1 ELSE n - maxRows + 1
    <3>1. RecentlyBroken(maxRows) = BrokenRows(start, n)
      BY <1>1, NewestAnswered DEF RecentlyBroken
    <3>2. start \in Nat \ {0} /\ n <= n
      BY <2>0
    <3>3. BrokenRows(start, n) = {id \in broken : start <= id /\ id <= n}
      BY <1>1, <2>0, <3>2, BrokenInRange
    <3> HIDE DEF broken
    <3>4. \A id \in broken : (start <= id /\ id <= n) <=> id > n - maxRows
      BY <2>0, <2>2
    <3> HIDE DEF start
    <3> QED
      BY <3>1, <3>3, <3>4
  <2> QED
    BY <2>3, <2>4
<1>2. AuditTypeOK => VerifyRangesAgree
  BY <1>1
<1> QED
  BY <1>2, AuditTypesCorrect, PTL
=============================================================================
