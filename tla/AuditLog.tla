------------------------------ MODULE AuditLog ------------------------------
(***************************************************************************)
(* src/audit/mod.rs: the append-only, hash-chained table of audit events.  *)
(* Each process that runs `oo-bot run` has a store open for writing, whose *)
(* record_event is a SELECT of the last hash, then an INSERT, then         *)
(* sometimes a manifest, with no transaction around them; a mutex keeps    *)
(* the tasks of one process apart, nothing keeps two processes apart.      *)
(* Single SQL statements are atomic (SQLite), and any may fail when the    *)
(* database stays locked for busy_timeout_ms.                              *)
(*                                                                         *)
(* A hash is represented by what it commits to: the payloads of the chain  *)
(* that ends in it.  Of a payload only the event type is kept; event_id is *)
(* the position in `events`, since triggers forbid updates and deletes.    *)
(***************************************************************************)
EXTENDS Integers, Sequences, FiniteSets, SequencesExt

CONSTANTS Writers,           \* the processes
          EventTypes,        \* the event types they record
          ManifestInterval,  \* MANIFEST_INTERVAL
          QueryMaxRows, ExportMaxRows,  \* query_max_rows, export_max_rows
          DefaultTail,       \* the cap of tail without a limit (100)
          MaxRows            \* bound: rows of audit_events

ASSUME AuditLogAssumption ==
    /\ ManifestInterval \in Nat \ {0}
    /\ QueryMaxRows \in Nat \ {0} /\ ExportMaxRows \in Nat \ {0} /\ DefaultTail \in Nat \ {0}
    /\ MaxRows \in Nat

VARIABLES
    events,     \* audit_events
    manifests,  \* audit_manifests
    step,       \* where each process is
    draft       \* the row each process is about to insert

auditVars == <<events, manifests, step, draft>>

Genesis == <<>>
RowHash(prev, type) == Append(prev, type)   \* compute_row_hash: no two inputs collide

\* Mutation: the row before the last one is read.
LastHashButOne == IF Len(events) < 2 THEN Genesis ELSE events[Len(events) - 1].hash

LastHash == IF events = <<>> THEN Genesis ELSE events[Len(events)].hash

NoDraft == [writer |-> "nobody", type |-> "none", prev |-> Genesis, hash |-> Genesis]

GoTo(p, s) == step' = [step EXCEPT ![p] = s]

----------------------------------------------------------------------------
(* Writing. *)

\* AuditStore::open_rw
OpenStore(p) ==
    /\ step[p] = "Closed"
    /\ GoTo(p, "Ready")
    /\ UNCHANGED <<events, manifests, draft>>

\* record_event: the SELECT of the last row_hash, and the row made from it.
ReadLastHash(p, type) ==
    /\ step[p] = "Ready"
    /\ draft' = [draft EXCEPT ![p] = [writer |-> p, type |-> type, prev |-> LastHash,
                                      hash |-> RowHash(LastHash, type)]]
    /\ GoTo(p, "Insert")
    /\ UNCHANGED <<events, manifests>>

\* Mutation: what was read is kept for the next event.
InsertEventAgain(p) ==
    /\ step[p] = "Insert"
    /\ Len(events) < MaxRows
    /\ events' = Append(events, draft[p])
    /\ GoTo(p, IF Len(events') % ManifestInterval = 0 THEN "Manifest" ELSE "Ready")
    /\ UNCHANGED <<manifests, draft>>

\* maybe_create_manifest does something for every ManifestInterval-th event_id.
InsertEvent(p) ==
    /\ step[p] = "Insert"
    /\ Len(events) < MaxRows
    /\ events' = Append(events, draft[p])
    /\ GoTo(p, IF Len(events') % ManifestInterval = 0 THEN "Manifest" ELSE "Ready")
    /\ draft' = [draft EXCEPT ![p] = NoDraft]
    /\ UNCHANGED manifests

\* Mutation: the last event of the table is taken for the process's own.
TableLastId(p) == Len(events)

\* The event this process inserted last.
OwnLastId(p) == CHOOSE i \in 1 .. Len(events) :
                    /\ events[i].writer = p
                    /\ \A j \in i + 1 .. Len(events) : events[j].writer # p

HashesOf(from, to) == [i \in 1 .. to - from + 1 |-> events[from + i - 1].hash]

CreateManifest(p) ==
    LET to == OwnLastId(p)
        from == to - ManifestInterval + 1
    IN
    /\ step[p] = "Manifest"
    /\ manifests' = Append(manifests, [from |-> from, to |-> to, hashes |-> HashesOf(from, to)])
    /\ GoTo(p, "Ready")
    /\ UNCHANGED <<events, draft>>

\* The second or third statement of record_event fails and the caller gets an error, also
\* when the event itself is in the table and only its manifest is not. (When the first one
\* fails, nothing has happened.)
FailRecord(p) ==
    /\ step[p] \in {"Insert", "Manifest"}
    /\ GoTo(p, "Ready")
    /\ draft' = [draft EXCEPT ![p] = NoDraft]
    /\ UNCHANGED <<events, manifests>>

\* The process ends, between record_events or in the middle of one.
CloseStore(p) ==
    /\ step[p] # "Closed"
    /\ GoTo(p, "Closed")
    /\ draft' = [draft EXCEPT ![p] = NoDraft]
    /\ UNCHANGED <<events, manifests>>

AuditInit ==
    /\ events = <<>> /\ manifests = <<>>
    /\ step = [p \in Writers |-> "Closed"]
    /\ draft = [p \in Writers |-> NoDraft]

AuditNext ==
    \E p \in Writers :
        \/ OpenStore(p)
        \/ \E type \in EventTypes : ReadLastHash(p, type)
        \/ InsertEvent(p)
        \/ CreateManifest(p)
        \/ FailRecord(p)
        \/ CloseStore(p)

AuditSpec == AuditInit /\ [][AuditNext]_auditVars

----------------------------------------------------------------------------
(* Reading. Every query runs on the table as it is at one moment. *)

NoLimit == 0
AnyType == "any"

Lowest(a, b) == IF a < b THEN a ELSE b

Limit(limit, default) == IF limit = NoLimit THEN default ELSE limit

Matches(id, type) == type = AnyType \/ events[id].type = type

\* Mutation: the oldest rows are scanned.
QueryCappedOldest(type, limit) ==
    LET scanned == Lowest(Lowest(Limit(limit, QueryMaxRows), QueryMaxRows), Len(events))
    IN  SelectSeq(Reverse([i \in 1 .. scanned |-> i]), LAMBDA id : Matches(id, type))

\* query_events_capped: the newest rows are taken first and filtered afterwards.
QueryCapped(type, limit) ==
    LET scanned == Lowest(Lowest(Limit(limit, QueryMaxRows), QueryMaxRows), Len(events))
        rows[n \in 0 .. scanned] == \* of the newest n
            IF n = 0 THEN <<>>
            ELSE IF Matches(Len(events) - n + 1, type)
                 THEN Append(rows[n - 1], Len(events) - n + 1) ELSE rows[n - 1]
    IN  rows[scanned]

\* AuditStore::tail, as event ids
TailRows(type, limit) ==
    LET found == QueryCapped(type, limit)
        cap == Lowest(Limit(limit, DefaultTail), QueryMaxRows)
    IN  SubSeq(found, 1, Lowest(cap, Len(found)))

\* AuditStore::export, as event ids, oldest first
Export(type, limit) ==
    Reverse(QueryCapped(type, Lowest(Limit(limit, ExportMaxRows), ExportMaxRows)))

\* Mutation: every range is expected to start a chain.
ExpectedPrevInRange(id, first) == IF id = first THEN Genesis ELSE events[id - 1].hash

\* AuditStore::verify over the rows from `first` to `last`: the rows whose prev_hash is not
\* the one expected. (`first` = 1 stands for no start_event_id too.)
ExpectedPrev(id, first) ==
    IF id = first
    THEN IF first <= 1 THEN Genesis ELSE events[first - 1].hash
    ELSE events[id - 1].hash

BrokenRows(first, last) ==
    {id \in first .. Lowest(last, Len(events)) :
        \/ events[id].prev # ExpectedPrev(id, first)
        \/ events[id].hash # RowHash(events[id].prev, events[id].type)}

\* check_audit_health of the self check, on a table that is not empty: it asks for the
\* newest row and verifies from maxRows rows back; a start before the first row counts as it.
RecentlyBroken(maxRows) ==
    LET end == Head(TailRows(AnyType, 1))
        start == end - maxRows + 1
    IN  BrokenRows(IF start < 1 THEN 1 ELSE start, end)

----------------------------------------------------------------------------
(* Properties. *)

Rows == [writer : Writers, type : EventTypes, prev : Seq(EventTypes), hash : Seq(EventTypes)]

\* The types of the tables, and of what a process holds between the two statements of one
\* record_event.
AuditTypeOK ==
    /\ events \in Seq(Rows) /\ Len(events) <= MaxRows
    /\ manifests \in Seq([from : 1 .. MaxRows, to : 1 .. MaxRows, hashes : Seq(Seq(EventTypes))])
    /\ step \in [Writers -> {"Closed", "Ready", "Insert", "Manifest"}]
    /\ draft \in [Writers -> Rows \cup {NoDraft}]
    /\ \A p \in Writers : draft[p] # NoDraft <=> step[p] = "Insert"

Linked(id) == events[id].prev = IF id = 1 THEN Genesis ELSE events[id - 1].hash

\* record_event reads and inserts in two statements: the chain can fork, but only where two
\* processes overlapped, and a forked row still continues a row that is in the table. So
\* one process alone, whatever fails and however often it restarts, keeps one chain.
ForksNeedTwoWriters ==
    \A id \in 1 .. Len(events) : ~Linked(id) =>
        /\ id > 1 /\ events[id - 1].writer # events[id].writer
        /\ \/ events[id].prev = Genesis
           \/ \E older \in 1 .. id - 2 : events[older].hash = events[id].prev

\* verify with a start_event_id reads one hash outside its range: checking the table piece
\* by piece finds exactly the breaks that checking it at once finds. And the self check,
\* which looks at the newest rows only, finds those of them it should.
VerifyRangesAgree ==
    LET broken == BrokenRows(1, Len(events)) IN
    events # <<>> =>
        /\ \A cut \in 1 .. Len(events) :
               broken = BrokenRows(1, cut) \cup BrokenRows(cut + 1, Len(events))
        /\ \A maxRows \in 1 .. MaxRows + 1 :
               RecentlyBroken(maxRows) = {id \in broken : id > Len(events) - maxRows}

\* maybe_create_manifest, with other processes inserting in between: a manifest covers one
\* whole interval, still matches the rows it was made of, and is the only one of them.
ManifestsHold ==
    /\ \A k \in 1 .. Len(manifests) :
           LET m == manifests[k] IN
           /\ m.to % ManifestInterval = 0 /\ m.from = m.to - ManifestInterval + 1
           /\ m.hashes = HashesOf(m.from, m.to)
    /\ \A j, k \in 1 .. Len(manifests) : manifests[j].to = manifests[k].to => j = k

\* tail and export cap before they filter, and sort in opposite directions: what they
\* return has no gaps, tail starts with the newest row, export ends with it.
ReadsAreNewest ==
    \A type \in EventTypes \cup {AnyType}, limit \in 0 .. MaxRows + 1 :
        LET tail == TailRows(type, limit)
            export == Export(type, limit)
            Complete(ids) == \A id \in 1 .. Len(events) :
                Matches(id, type) /\ (\E other \in ids : other < id) => id \in ids
        IN  /\ Complete(ToSet(tail)) /\ Complete(ToSet(export))
            /\ \A i, j \in 1 .. Len(tail) : i < j => tail[i] > tail[j]
            /\ \A i, j \in 1 .. Len(export) : i < j => export[i] < export[j]
            /\ limit # NoLimit => Len(tail) <= limit /\ Len(export) <= limit

\* The test hash_chain_verify_detects_tamper asserts of a table nobody tampered with that
\* verify finds no broken rows.
VerifyPasses == BrokenRows(1, Len(events)) = {}
=============================================================================
