------------------------------ MODULE StateStore ------------------------------
(***************************************************************************)
(* agentmesh.state.store.StateStore: payload files, shared-memory segments,*)
(* the SQLite index of whole records, the states.jsonl log, and one cache   *)
(* of records per live StateStore object.  A put writes the payload, then   *)
(* the cache and the index, then the log; a process may die between any     *)
(* two of these, and several stores share one data directory.               *)
(***************************************************************************)
EXTENDS Naturals, FiniteSets

CONSTANTS
    Stores,    \* StateStore objects, one per process or per run
    Ids,       \* uuid state ids, each used for one record
    Agents,    \* names passed to add_consumer
    None,
    OwnerOnly  \* TRUE: a record is updated through the store that created it,
               \* as a run does, whose agents share its store; FALSE: through
               \* any store, as an agent that was given no store does

ASSUME StoresAssumption ==
    /\ IsFiniteSet(Ids)
    /\ None \notin Stores \cup Ids
    /\ OwnerOnly \in BOOLEAN

VARIABLES
    open,    \* the stores that exist
    cache,   \* _records of each store
    owned,   \* _owned_shm of each store
    pend,    \* what the call in progress on each store has left to do
    index,   \* state_records in state_index.sqlite
    journal, \* the last row of states.jsonl for each id
    payload, \* where the bytes of each state are
    blob,    \* state-blob-<n>.bin: whose bytes each blob file holds
    maker    \* the live store that created each record (history)

vars == <<open, cache, owned, pend, index, journal, payload, blob, maker>>

-----------------------------------------------------------------------------
Kinds == {"file", "shm", "blob"}
Slots == 0 .. Cardinality(Ids)

\* StateRecord: payload_ref is its kind and, for a blob, the number in the name
Record == [parents   : SUBSET Ids,
           kind      : Kinds,
           slot      : Slots,
           consumers : SUBSET Agents,
           memory    : BOOLEAN]

\* The part of a record that is its lineage.
Entry == [parents : SUBSET Ids, consumers : SUBSET Agents, memory : BOOLEAN]
EntryOf(r) == [parents |-> r.parents, consumers |-> r.consumers, memory |-> r.memory]

ASSUME NoneIsNoRecord == None \notin Record /\ None \notin Entry

Idle == [step |-> "idle"]
ToIndex(i, r) == [step |-> "index", id |-> i, rec |-> r]
ToJournal(i)  == [step |-> "journal", id |-> i]

Pending == {Idle}
      \cup [step : {"index"}, id : Ids, rec : Record]
      \cup [step : {"journal"}, id : Ids]

TypeOK ==
    /\ open \subseteq Stores
    /\ cache \in [Stores -> [Ids -> Record \cup {None}]]
    /\ owned \in [Stores -> SUBSET Ids]
    /\ pend \in [Stores -> Pending]
    /\ index \in [Ids -> Record \cup {None}]
    /\ journal \in [Ids -> Record \cup {None}]
    /\ payload \in [Ids -> {"none", "file", "shm", "blob", "gone"}]
    /\ blob \in [Slots -> Ids \cup {None}]
    /\ maker \in [Ids -> Stores \cup {None}]

Cached(s)  == {i \in Ids : cache[s][i] # None}
Indexed    == {i \in Ids : index[i] # None}
Ready(s)   == s \in open /\ pend[s] = Idle
Readable(i) == payload[i] \in {"file", "shm", "blob"}
MayUpdate(s, i) == OwnerOnly => maker[i] = s

Init ==
    /\ open = {}
    /\ cache = [s \in Stores |-> [i \in Ids |-> None]]
    /\ owned = [s \in Stores |-> {}]
    /\ pend = [s \in Stores |-> Idle]
    /\ index = [i \in Ids |-> None]
    /\ journal = [i \in Ids |-> None]
    /\ payload = [i \in Ids |-> "none"]
    /\ blob = [n \in Slots |-> None]
    /\ maker = [i \in Ids |-> None]

\* A new store loads every record of the index.
Open(s) ==
    /\ s \notin open
    /\ open' = open \cup {s}
    /\ cache' = [cache EXCEPT ![s] = index]
    /\ UNCHANGED <<owned, pend, index, journal, payload, blob, maker>>

\* Faulty: a ref is handed out once the payload is written, or never checked.
EarlyParents(s) == {i \in Ids : payload[i] # "none"}
UncheckedParents(s) == Ids

\* The states a caller may name as parents: those whose put has returned.
Parents(s) == Cached(s)

\* Faulty: a counter of the store's own.
OwnCount(s) == Cardinality({i \in Cached(s) : maker[i] = s})

\* The number in the name of a new blob file.
BlobNumber(s) == Cardinality(Cached(s))

\* The first half of put_*: a fresh id, and its payload written out.  A blob's
\* file is named by the number of records the store knows.
PutPayload(s, i, k, P) ==
    /\ Ready(s)
    /\ payload[i] = "none"
    /\ P \subseteq Parents(s)
    /\ LET n == IF k = "blob" THEN BlobNumber(s) ELSE 0
       IN  /\ blob' = IF k = "blob" THEN [blob EXCEPT ![n] = i] ELSE blob
           /\ pend' = [pend EXCEPT ![s] =
                         ToIndex(i, [parents |-> P, kind |-> k, slot |-> n,
                                     consumers |-> {}, memory |-> FALSE])]
    /\ payload' = [payload EXCEPT ![i] = k]
    /\ owned' = IF k = "shm" THEN [owned EXCEPT ![s] = @ \cup {i}] ELSE owned
    /\ maker' = [maker EXCEPT ![i] = s]
    /\ UNCHANGED <<open, cache, index, journal>>

\* The cached record replaces the whole row of the index.
Upsert(s, i, r) ==
    /\ cache' = [cache EXCEPT ![s][i] = r]
    /\ index' = [index EXCEPT ![i] = r]

\* _record: the cache and the index, then the log.
PutIndex(s) ==
    /\ s \in open
    /\ pend[s].step = "index"
    /\ Upsert(s, pend[s].id, pend[s].rec)
    /\ pend' = [pend EXCEPT ![s] = ToJournal(pend[s].id)]
    /\ UNCHANGED <<open, owned, journal, payload, blob, maker>>

\* Faulty: a row is appended for a new record only.
AppendOnce(s) ==
    /\ s \in open
    /\ pend[s].step = "journal"
    /\ journal' = IF journal[pend[s].id] = None
                  THEN [journal EXCEPT ![pend[s].id] = cache[s][pend[s].id]]
                  ELSE journal
    /\ pend' = [pend EXCEPT ![s] = Idle]
    /\ UNCHANGED <<open, cache, owned, index, payload, blob, maker>>

AppendJournal(s) ==
    /\ s \in open
    /\ pend[s].step = "journal"
    /\ journal' = [journal EXCEPT ![pend[s].id] = cache[s][pend[s].id]]
    /\ pend' = [pend EXCEPT ![s] = Idle]
    /\ UNCHANGED <<open, cache, owned, index, payload, blob, maker>>

\* Faulty: the arguments swapped.
SwappedConsumer(r, a) == [r EXCEPT !.consumers = @ \cup {r.kind}]

WithConsumer(r, a) == [r EXCEPT !.consumers = @ \cup {a}]

\* add_consumer: get raises, and nothing changes, unless the payload can be read.
AddConsumer(s, i, a) ==
    /\ Ready(s)
    /\ i \in Cached(s)
    /\ MayUpdate(s, i)
    /\ Readable(i)
    /\ Upsert(s, i, WithConsumer(cache[s][i], a))
    /\ pend' = [pend EXCEPT ![s] = ToJournal(i)]
    /\ UNCHANGED <<open, owned, journal, payload, blob, maker>>

\* mark_written_to_memory: the same, but nothing is logged.
MarkWrittenToMemory(s, i) ==
    /\ Ready(s)
    /\ i \in Cached(s)
    /\ MayUpdate(s, i)
    /\ Readable(i)
    /\ Upsert(s, i, [cache[s][i] EXCEPT !.memory = TRUE])
    /\ UNCHANGED <<open, owned, pend, journal, payload, blob, maker>>

\* Faulty: every segment the store knows.
CloseKnown(s) ==
    /\ Ready(s)
    /\ owned[s] # {}
    /\ payload' = [i \in Ids |-> IF i \in Cached(s) /\ cache[s][i].kind = "shm"
                                THEN "gone" ELSE payload[i]]
    /\ owned' = [owned EXCEPT ![s] = {}]
    /\ UNCHANGED <<open, cache, pend, index, journal, blob, maker>>

\* close unlinks the segments the store owns; its records stay.
Close(s) ==
    /\ Ready(s)
    /\ owned[s] # {}
    /\ payload' = [i \in Ids |-> IF i \in owned[s] THEN "gone" ELSE payload[i]]
    /\ owned' = [owned EXCEPT ![s] = {}]
    /\ UNCHANGED <<open, cache, pend, index, journal, blob, maker>>

\* The object is dropped or its process dies, in the middle of a call or not,
\* and without a close when an exception took the run away.
Drop(s) ==
    /\ s \in open
    /\ open' = open \ {s}
    /\ cache' = [cache EXCEPT ![s] = [i \in Ids |-> None]]
    /\ owned' = [owned EXCEPT ![s] = {}]
    /\ pend' = [pend EXCEPT ![s] = Idle]
    /\ maker' = [i \in Ids |-> IF maker[i] = s THEN None ELSE maker[i]]
    /\ UNCHANGED <<index, journal, payload, blob>>

\* multiprocessing's resource tracker removes a segment nobody closed.
TrackerUnlink(i) ==
    /\ payload[i] = "shm"
    /\ \A s \in Stores : i \notin owned[s]
    /\ payload' = [payload EXCEPT ![i] = "gone"]
    /\ UNCHANGED <<open, cache, owned, pend, index, journal, blob, maker>>

StoreStep(s) ==
    \/ Open(s)
    \/ \E i \in Ids, k \in Kinds, P \in SUBSET Ids : PutPayload(s, i, k, P)
    \/ PutIndex(s)
    \/ AppendJournal(s)
    \/ \E i \in Ids, a \in Agents : AddConsumer(s, i, a)
    \/ \E i \in Ids : MarkWrittenToMemory(s, i)
    \/ Close(s)
    \/ Drop(s)

Next ==
    \/ \E s \in Stores : StoreStep(s)
    \/ \E i \in Ids : TrackerUnlink(i)

Spec == Init /\ [][Next]_vars
-----------------------------------------------------------------------------
(* Safety.                                                                  *)

\* A durable record never names a parent that is not durable: lineage read
\* back after any crash is closed (_record writes the index before the ref is
\* returned to the caller that will name it as a parent).
LineageClosed == \A i \in Indexed : index[i].parents \subseteq Indexed

\* A durable record always has a payload that was written: the index never
\* points at bytes a crash lost (_put writes the payload first).  Only a
\* shared-memory payload may be gone, once no store owns it.
PayloadBeforeRecord ==
    \A i \in Indexed :
        \/ payload[i] = index[i].kind
        \/ /\ payload[i] = "gone"
           /\ index[i].kind = "shm"
           /\ \A s \in Stores : i \notin owned[s]

\* The log never leads the index, and what it lacks is the memory mark and the
\* effect of one call: the one that owes its row now, or was cut short before it
\* appended it (_record and add_consumer append last).  So a process that dies
\* between index and log leaves them one call apart, for ever, and never more.
Logged(i) ==
    /\ journal[i] # None
    /\ journal[i].parents = index[i].parents
    /\ journal[i].consumers = index[i].consumers
    /\ journal[i].memory => index[i].memory

OneCallBehind(i) ==
    \/ journal[i] = None /\ index[i].consumers = {}
    \/ /\ journal[i] # None
       /\ journal[i].parents = index[i].parents
       /\ \E a \in Agents : index[i].consumers = journal[i].consumers \cup {a}
       /\ journal[i].memory => index[i].memory

Unfinished(i) == maker[i] = None \/ pend[maker[i]] = ToJournal(i)

JournalTrails ==
    \A i \in Ids :
        IF i \in Indexed
        THEN Logged(i) \/ (Unfinished(i) /\ OneCallBehind(i))
        ELSE journal[i] = None

\* A blob file holds the bytes of the last state that was given its number,
\* and a store gives no number twice: a store that knows a blob never
\* overwrites it.  Another store over the directory may.
KnownBlobKept ==
    [][\A s \in Stores, i, j \in Ids :
         /\ cache[s][i] # None
         /\ cache[s][i].kind = "blob"
         /\ blob[cache[s][i].slot] = i
         /\ blob'[cache[s][i].slot] = j
         /\ j # i
         => maker'[j] # s]_vars

\* A durable record stays, and its lineage only grows: no step of any store
\* removes a consumer or a memory mark that was written.  It takes that a record
\* is updated through one store: through any store (OwnerOnly FALSE) a row is
\* replaced whole by a copy that may be older than it.
LineageKept ==
    [][\A i \in Indexed :
         /\ index'[i] # None
         /\ index'[i].parents = index[i].parents
         /\ index[i].consumers \subseteq index'[i].consumers
         /\ index[i].memory => index'[i].memory]_vars

\* The index implements the registry: crashes, stale caches and half-finished
\* calls of the stores are invisible in it.
Lineage == [i \in Ids |-> IF index[i] = None THEN None ELSE EntryOf(index[i])]

Registry == INSTANCE StateRegistry WITH registry <- Lineage

ImplementsRegistry == Registry!Spec
-----------------------------------------------------------------------------
(* The inductive invariant: the parts that are not properties above.        *)

\* A store that does not exist holds nothing and created nothing.
DroppedHoldNothing ==
    /\ \A s \in Stores \ open : Cached(s) = {} /\ owned[s] = {} /\ pend[s] = Idle
    /\ \A i \in Ids : maker[i] # None => maker[i] \in open

\* A cached record is durable, and the parts of it no call changes are the same.
CacheIndexed ==
    \A s \in Stores : \A i \in Cached(s) :
        /\ i \in Indexed
        /\ cache[s][i].parents = index[i].parents
        /\ cache[s][i].kind = index[i].kind

\* An owned segment exists and belongs to the store that created the state.
OwnedLive ==
    \A s \in Stores : \A i \in owned[s] : maker[i] = s /\ payload[i] = "shm"

\* Between the two halves of a put: the payload is there, the record nowhere.
PutHalfDone ==
    \A s \in Stores, i \in Ids, r \in Record :
        pend[s] = ToIndex(i, r) =>
            /\ maker[i] = s
            /\ i \notin Indexed
            /\ payload[i] = r.kind
            /\ r.kind = "shm" => i \in owned[s]
            /\ r.parents \subseteq Cached(s)
            /\ r.consumers = {}
            /\ r.memory = FALSE

\* Before its row is appended: the record is in the cache and was created here.
RowOwed ==
    \A s \in Stores, i \in Ids :
        pend[s] = ToJournal(i) => i \in Cached(s) /\ (OwnerOnly => maker[i] = s)

\* The store that created a record never works from a stale copy of it.
OwnerFresh ==
    \A s \in open, i \in Indexed : maker[i] = s => cache[s][i] = index[i]

\* A blob's number is below the number of records of the index, and of every
\* cache that holds it: a store never gives the next blob a number it knows.
SlotsBelowCount ==
    /\ \A i \in Indexed : index[i].slot < Cardinality(Indexed)
    /\ \A s \in Stores : \A i \in Cached(s) :
          cache[s][i].slot = index[i].slot /\ cache[s][i].slot < BlobNumber(s)
    /\ \A s \in Stores, i \in Ids, r \in Record :
          pend[s] = ToIndex(i, r) => r.slot <= BlobNumber(s)

Inductive ==
    /\ LineageClosed
    /\ PayloadBeforeRecord
    /\ DroppedHoldNothing
    /\ CacheIndexed
    /\ OwnedLive
    /\ PutHalfDone
    /\ RowOwed
    /\ SlotsBelowCount
    /\ OwnerOnly => OwnerFresh /\ JournalTrails
=============================================================================
