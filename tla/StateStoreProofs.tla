--------------------------- MODULE StateStoreProofs ---------------------------
(***************************************************************************)
(* Theorems about StateStore, for any stores, states and agents.            *)
(***************************************************************************)
EXTENDS StateStore, FiniteSetTheorems, TLAPS

\* A store knows at most as many records as there are ids.
LEMMA KnownIsSlot ==
    ASSUME NEW s \in Stores
    PROVE  BlobNumber(s) \in Slots
<1>1. IsFiniteSet(Ids) BY StoresAssumption
<1>2. Cached(s) \subseteq Ids BY DEF Cached
<1>3. /\ IsFiniteSet(Cached(s))
      /\ Cardinality(Cached(s)) <= Cardinality(Ids)
  BY <1>1, <1>2, FS_Subset
<1>4. Cardinality(Cached(s)) \in Nat /\ Cardinality(Ids) \in Nat
  BY <1>1, <1>3, FS_CardinalityType
<1> QED BY <1>3, <1>4 DEF Slots, BlobNumber

\* The records a set of ids has are counted by a number, and one more id in the
\* set is one more record.
LEMMA IdsCounted ==
    ASSUME NEW K \in SUBSET Ids
    PROVE  /\ Cardinality(K) \in Nat
           /\ \A i \in Ids \ K : Cardinality(K \cup {i}) = Cardinality(K) + 1
           /\ \A J \in SUBSET K : Cardinality(J) <= Cardinality(K)
<1>1. IsFiniteSet(K) BY StoresAssumption, FS_Subset
<1> QED BY <1>1, FS_CardinalityType, FS_AddElement, FS_Subset

LEMMA KnownCount ==
    ASSUME NEW s \in Stores
    PROVE  BlobNumber(s) \in Nat
  BY IdsCounted DEF BlobNumber, Cached

-----------------------------------------------------------------------------
\* Every variable keeps its type.
THEOREM TypeCorrect == Spec => []TypeOK
<1>1. Init => TypeOK
  BY StoresAssumption DEF Init, TypeOK, Pending, Idle
<1>2. TypeOK /\ [Next]_vars => TypeOK'
  <2> SUFFICES ASSUME TypeOK, [Next]_vars PROVE TypeOK'
    OBVIOUS
  <2> USE DEF TypeOK
  <2>1. ASSUME NEW s \in Stores, Open(s) PROVE TypeOK'
    BY <2>1 DEF Open
  <2>2. ASSUME NEW s \in Stores, NEW i \in Ids, NEW k \in Kinds,
               NEW P \in SUBSET Ids, PutPayload(s, i, k, P)
        PROVE  TypeOK'
    <3> DEFINE n == IF k = "blob" THEN BlobNumber(s) ELSE 0
               r == [parents |-> P, kind |-> k, slot |-> n,
                     consumers |-> {}, memory |-> FALSE]
    <3>1. n \in Slots BY KnownIsSlot, StoresAssumption, FS_CardinalityType DEF Slots
    <3>2. r \in Record BY <3>1 DEF Record
    <3>3. ToIndex(i, r) \in Pending BY <3>2 DEF Pending, ToIndex
    <3>4. pend' = [pend EXCEPT ![s] = ToIndex(i, r)]
      BY <2>2 DEF PutPayload
    <3>5. pend' \in [Stores -> Pending] BY <3>3, <3>4
    <3>6. blob' \in [Slots -> Ids \cup {None}] BY <2>2, <3>1 DEF PutPayload
    <3>7. owned' \in [Stores -> SUBSET Ids] BY <2>2 DEF PutPayload
    <3>8. payload' \in [Ids -> {"none", "file", "shm", "blob", "gone"}]
      BY <2>2 DEF PutPayload, Kinds
    <3>9. maker' \in [Ids -> Stores \cup {None}] BY <2>2 DEF PutPayload
    <3> QED BY <2>2, <3>5, <3>6, <3>7, <3>8, <3>9 DEF PutPayload
  <2>3. ASSUME NEW s \in Stores, PutIndex(s) PROVE TypeOK'
    <3>1. pend[s].id \in Ids /\ pend[s].rec \in Record
      BY <2>3 DEF PutIndex, Pending, Idle
    <3>2. ToJournal(pend[s].id) \in Pending BY <3>1 DEF ToJournal, Pending
    <3> QED BY <2>3, <3>1, <3>2 DEF PutIndex, Upsert
  <2>4. ASSUME NEW s \in Stores, AppendJournal(s) PROVE TypeOK'
    <3>1. pend[s].id \in Ids BY <2>4 DEF AppendJournal, Pending, Idle
    <3> QED BY <2>4, <3>1 DEF AppendJournal, Pending
  <2>5. ASSUME NEW s \in Stores, NEW i \in Ids, NEW a \in Agents, AddConsumer(s, i, a)
        PROVE  TypeOK'
    <3>1. cache[s][i] \in Record BY <2>5 DEF AddConsumer, Cached
    <3>2. WithConsumer(cache[s][i], a) \in Record
      BY <3>1 DEF Record, WithConsumer
    <3>3. ToJournal(i) \in Pending BY DEF ToJournal, Pending
    <3> QED BY <2>5, <3>2, <3>3 DEF AddConsumer, Upsert
  <2>6. ASSUME NEW s \in Stores, NEW i \in Ids, MarkWrittenToMemory(s, i)
        PROVE  TypeOK'
    <3>1. cache[s][i] \in Record BY <2>6 DEF MarkWrittenToMemory, Cached
    <3>2. [cache[s][i] EXCEPT !.memory = TRUE] \in Record
      BY <3>1 DEF Record
    <3> QED BY <2>6, <3>2 DEF MarkWrittenToMemory, Upsert
  <2>7. ASSUME NEW s \in Stores, Close(s) PROVE TypeOK'
    BY <2>7 DEF Close
  <2>8. ASSUME NEW s \in Stores, Drop(s) PROVE TypeOK'
    BY <2>8 DEF Drop, Pending
  <2>9. ASSUME NEW i \in Ids, TrackerUnlink(i) PROVE TypeOK'
    BY <2>9 DEF TrackerUnlink
  <2>10. CASE UNCHANGED vars
    BY <2>10 DEF vars
  <2> QED BY <2>1, <2>2, <2>3, <2>4, <2>5, <2>6, <2>7, <2>8, <2>9, <2>10
          DEF Next, StoreStep
<1> QED BY <1>1, <1>2, PTL DEF Spec
-----------------------------------------------------------------------------
(* The steps of a store, with the record they write made explicit.          *)

BeginPut(s, i, r) ==
    /\ s \in open
    /\ pend[s] = Idle
    /\ payload[i] = "none"
    /\ r.kind \in Kinds
    /\ r.parents \subseteq Cached(s)
    /\ r.consumers = {}
    /\ r.memory = FALSE
    /\ r.slot <= BlobNumber(s)
    /\ pend' = [pend EXCEPT ![s] = ToIndex(i, r)]
    /\ payload' = [payload EXCEPT ![i] = r.kind]
    /\ owned' = IF r.kind = "shm" THEN [owned EXCEPT ![s] = @ \cup {i}] ELSE owned
    /\ maker' = [maker EXCEPT ![i] = s]
    /\ UNCHANGED <<open, cache, index, journal>>

RecordPut(s, i, r) ==
    /\ s \in open
    /\ pend[s] = ToIndex(i, r)
    /\ cache' = [cache EXCEPT ![s][i] = r]
    /\ index' = [index EXCEPT ![i] = r]
    /\ pend' = [pend EXCEPT ![s] = ToJournal(i)]
    /\ UNCHANGED <<open, owned, journal, payload, maker>>

AppendRow(s, i) ==
    /\ s \in open
    /\ pend[s] = ToJournal(i)
    /\ journal' = [journal EXCEPT ![i] = cache[s][i]]
    /\ pend' = [pend EXCEPT ![s] = Idle]
    /\ UNCHANGED <<open, cache, owned, index, payload, maker>>

\* add_consumer and mark_written_to_memory replace a row by a larger one.
UpdateRow(s, i, r) ==
    /\ s \in open
    /\ pend[s] = Idle
    /\ i \in Cached(s)
    /\ OwnerOnly => maker[i] = s
    /\ r.parents = cache[s][i].parents
    /\ r.kind = cache[s][i].kind
    /\ r.slot = cache[s][i].slot
    /\ cache[s][i].consumers \subseteq r.consumers
    /\ cache[s][i].memory => r.memory
    /\ cache' = [cache EXCEPT ![s][i] = r]
    /\ index' = [index EXCEPT ![i] = r]
    /\ \/ /\ pend' = [pend EXCEPT ![s] = ToJournal(i)]
          /\ \E a \in Agents : r.consumers = cache[s][i].consumers \cup {a}
       \/ pend' = pend /\ r.consumers = cache[s][i].consumers
    /\ UNCHANGED <<open, owned, journal, payload, maker>>

Fresh == OwnerOnly => OwnerFresh
Trails == OwnerOnly => JournalTrails

\* The calls in progress are told apart by what is left to do.
LEMMA StepsDiffer ==
    /\ \A i \in Ids, r \in Record : ToIndex(i, r) # Idle
    /\ \A i \in Ids : ToJournal(i) # Idle
    /\ \A i, j \in Ids, r \in Record : ToIndex(i, r) # ToJournal(j)
    /\ \A i, j \in Ids, q, r \in Record : ToIndex(i, q) = ToIndex(j, r) => i = j /\ q = r
    /\ \A i, j \in Ids : ToJournal(i) = ToJournal(j) => i = j
  BY DEF ToIndex, ToJournal, Idle

\* The second half of a put writes the record the first half prepared (_record).
LEMMA IndexStep ==
    ASSUME TypeOK, NEW s \in Stores, PutIndex(s)
    PROVE  \E i \in Ids, r \in Record : RecordPut(s, i, r)
<1>1. /\ pend[s].id \in Ids /\ pend[s].rec \in Record
      /\ pend[s] = ToIndex(pend[s].id, pend[s].rec)
  BY DEF TypeOK, PutIndex, Pending, Idle, ToIndex
<1>2. RecordPut(s, pend[s].id, pend[s].rec)
  BY <1>1 DEF PutIndex, Upsert, RecordPut
<1> QED BY <1>1, <1>2

\* Every step is one of these.
LEMMA StepCases ==
    ASSUME TypeOK, [Next]_vars
    PROVE  \/ \E s \in Stores : Open(s) \/ Close(s) \/ Drop(s)
           \/ \E s \in Stores, i \in Ids, r \in Record :
                 BeginPut(s, i, r) \/ RecordPut(s, i, r) \/ UpdateRow(s, i, r)
           \/ \E s \in Stores, i \in Ids : AppendRow(s, i)
           \/ \E i \in Ids : TrackerUnlink(i)
           \/ UNCHANGED vars
<1> USE DEF TypeOK
<1>1. ASSUME NEW s \in Stores, NEW i \in Ids, NEW k \in Kinds,
             NEW P \in SUBSET Ids, PutPayload(s, i, k, P)
      PROVE  \E r \in Record : BeginPut(s, i, r)
  <2> DEFINE n == IF k = "blob" THEN BlobNumber(s) ELSE 0
             r == [parents |-> P, kind |-> k, slot |-> n,
                   consumers |-> {}, memory |-> FALSE]
  <2>1. n \in Slots BY KnownIsSlot, StoresAssumption, FS_CardinalityType DEF Slots
  <2>2. r \in Record BY <2>1 DEF Record
  <2>3. /\ r.parents = P /\ r.kind = k /\ r.kind \in Kinds
        /\ r.consumers = {} /\ r.memory = FALSE /\ r.slot = n
        /\ pend' = [pend EXCEPT ![s] = ToIndex(i, r)]
    BY <1>1 DEF PutPayload
  <2>3a. n <= BlobNumber(s) BY KnownCount
  <2> HIDE DEF r
  <2>4. BeginPut(s, i, r)
    BY <1>1, <2>3, <2>3a DEF PutPayload, Ready, Parents, BeginPut
  <2> QED BY <2>2, <2>4
<1>2. ASSUME NEW s \in Stores, PutIndex(s)
      PROVE  \E i \in Ids, r \in Record : RecordPut(s, i, r)
  BY <1>2, IndexStep
<1>3. ASSUME NEW s \in Stores, AppendJournal(s)
      PROVE  \E i \in Ids : AppendRow(s, i)
  <2>1. pend[s].id \in Ids /\ pend[s] = ToJournal(pend[s].id)
    BY <1>3 DEF AppendJournal, Pending, Idle, ToJournal
  <2>2. AppendRow(s, pend[s].id)
    BY <1>3, <2>1 DEF AppendJournal, AppendRow
  <2> QED BY <2>1, <2>2
<1>4. ASSUME NEW s \in Stores, NEW i \in Ids, NEW a \in Agents, AddConsumer(s, i, a)
      PROVE  \E r \in Record : UpdateRow(s, i, r)
  <2> DEFINE r == WithConsumer(cache[s][i], a)
  <2>1. cache[s][i] \in Record BY <1>4 DEF AddConsumer, Cached
  <2>2. /\ r \in Record
        /\ r.parents = cache[s][i].parents /\ r.kind = cache[s][i].kind
        /\ r.slot = cache[s][i].slot
        /\ r.consumers = cache[s][i].consumers \cup {a}
        /\ r.memory = cache[s][i].memory
    BY <2>1 DEF Record, WithConsumer
  <2>3. /\ cache' = [cache EXCEPT ![s][i] = r] /\ index' = [index EXCEPT ![i] = r]
    BY <1>4 DEF AddConsumer, Upsert
  <2> HIDE DEF r
  <2>4. UpdateRow(s, i, r)
    BY <1>4, <2>2, <2>3 DEF AddConsumer, Ready, MayUpdate, UpdateRow
  <2> QED BY <2>2, <2>4
<1>5. ASSUME NEW s \in Stores, NEW i \in Ids, MarkWrittenToMemory(s, i)
      PROVE  \E r \in Record : UpdateRow(s, i, r)
  <2> DEFINE r == [cache[s][i] EXCEPT !.memory = TRUE]
  <2>1. cache[s][i] \in Record BY <1>5 DEF MarkWrittenToMemory, Cached
  <2>2. /\ r \in Record
        /\ r.parents = cache[s][i].parents /\ r.kind = cache[s][i].kind
        /\ r.slot = cache[s][i].slot
        /\ r.consumers = cache[s][i].consumers
        /\ r.memory
    BY <2>1 DEF Record
  <2>3. /\ cache' = [cache EXCEPT ![s][i] = r] /\ index' = [index EXCEPT ![i] = r]
    BY <1>5 DEF MarkWrittenToMemory, Upsert
  <2> HIDE DEF r
  <2>4. UpdateRow(s, i, r)
    BY <1>5, <2>2, <2>3 DEF MarkWrittenToMemory, Ready, MayUpdate, UpdateRow
  <2> QED BY <2>2, <2>4
<1> QED BY <1>1, <1>2, <1>3, <1>4, <1>5 DEF Next, StoreStep

\* A state without a payload is nowhere yet.
Nowhere(i) ==
    /\ i \notin Indexed
    /\ \A t \in Stores : i \notin Cached(t) /\ i \notin owned[t]
    /\ \A t \in Stores : pend[t] # ToJournal(i)
    /\ \A t \in Stores, r \in Record : pend[t] # ToIndex(i, r)

\* An id whose payload was never written is fresh (the uuid of _put).
LEMMA FreshId ==
    ASSUME TypeOK, Inductive, NEW i \in Ids, payload[i] = "none"
    PROVE  Nowhere(i)
<1> USE DEF TypeOK, Inductive
<1>1. \A r \in Record : r.kind # "none" /\ r.kind # "gone" BY DEF Record, Kinds
<1>2. i \notin Indexed BY <1>1 DEF Indexed, PayloadBeforeRecord
<1>3. \A t \in Stores : i \notin Cached(t) BY <1>2 DEF CacheIndexed
<1>4. \A t \in Stores : i \notin owned[t] BY DEF OwnedLive
<1>5. \A t \in Stores : pend[t] # ToJournal(i) BY <1>3 DEF RowOwed
<1>6. \A t \in Stores, r \in Record : pend[t] # ToIndex(i, r) BY <1>1 DEF PutHalfDone
<1> QED BY <1>2, <1>3, <1>4, <1>5, <1>6 DEF Nowhere

\* A parent is cached, so durable, before the record that names it.
LEMMA LineageClosedKept ==
    ASSUME TypeOK, TypeOK', Inductive, [Next]_vars
    PROVE  LineageClosed'
<1> USE DEF Inductive, TypeOK
<1>1. ASSUME NEW s \in Stores, Open(s)
      PROVE  LineageClosed'
  BY <1>1 DEF Indexed, LineageClosed, Open
<1>2. ASSUME NEW s \in Stores, NEW i \in Ids, NEW r \in Record, BeginPut(s, i, r)
      PROVE  LineageClosed'
  <2>1. Nowhere(i) BY <1>2, FreshId DEF BeginPut
  <2> QED BY <1>2, <2>1 DEF Indexed, LineageClosed, BeginPut
<1>3. ASSUME NEW s \in Stores, NEW i \in Ids, NEW r \in Record, RecordPut(s, i, r)
      PROVE  LineageClosed'
  BY <1>3 DEF PutHalfDone, CacheIndexed, Indexed, LineageClosed, RecordPut
<1>4. ASSUME NEW s \in Stores, NEW i \in Ids, AppendRow(s, i)
      PROVE  LineageClosed'
  BY <1>4 DEF Indexed, LineageClosed, AppendRow
<1>5. ASSUME NEW s \in Stores, NEW i \in Ids, NEW r \in Record, UpdateRow(s, i, r)
      PROVE  LineageClosed'
  BY <1>5, NoneIsNoRecord DEF CacheIndexed, Indexed, LineageClosed, UpdateRow
<1>6. ASSUME NEW s \in Stores, Close(s)
      PROVE  LineageClosed'
  BY <1>6 DEF Indexed, LineageClosed, Close
<1>7. ASSUME NEW s \in Stores, Drop(s)
      PROVE  LineageClosed'
  BY <1>7 DEF Indexed, LineageClosed, Drop
<1>8. ASSUME NEW i \in Ids, TrackerUnlink(i)
      PROVE  LineageClosed'
  BY <1>8 DEF Indexed, LineageClosed, TrackerUnlink
<1>9. CASE UNCHANGED vars
  BY <1>9 DEF vars, LineageClosed, Indexed
<1> QED BY <1>1, <1>2, <1>3, <1>4, <1>5, <1>6, <1>7, <1>8, <1>9, StepCases

\* The payload of a record is written before it and outlives it.
LEMMA PayloadBeforeRecordKept ==
    ASSUME TypeOK, TypeOK', Inductive, [Next]_vars
    PROVE  PayloadBeforeRecord'
<1> USE DEF Inductive, TypeOK
<1>1. ASSUME NEW s \in Stores, Open(s)
      PROVE  PayloadBeforeRecord'
  BY <1>1 DEF Indexed, PayloadBeforeRecord, Open
<1>2. ASSUME NEW s \in Stores, NEW i \in Ids, NEW r \in Record, BeginPut(s, i, r)
      PROVE  PayloadBeforeRecord'
  <2>1. Nowhere(i) BY <1>2, FreshId DEF BeginPut
  <2> QED BY <1>2, <2>1 DEF Indexed, PayloadBeforeRecord, BeginPut, Nowhere
<1>3. ASSUME NEW s \in Stores, NEW i \in Ids, NEW r \in Record, RecordPut(s, i, r)
      PROVE  PayloadBeforeRecord'
  BY <1>3 DEF PutHalfDone, Indexed, PayloadBeforeRecord, RecordPut
<1>4. ASSUME NEW s \in Stores, NEW i \in Ids, AppendRow(s, i)
      PROVE  PayloadBeforeRecord'
  BY <1>4 DEF Indexed, PayloadBeforeRecord, AppendRow
<1>5. ASSUME NEW s \in Stores, NEW i \in Ids, NEW r \in Record, UpdateRow(s, i, r)
      PROVE  PayloadBeforeRecord'
  BY <1>5 DEF CacheIndexed, Indexed, PayloadBeforeRecord, UpdateRow
<1>6. ASSUME NEW s \in Stores, Close(s)
      PROVE  PayloadBeforeRecord'
  BY <1>6 DEF OwnedLive, Indexed, PayloadBeforeRecord, Close
<1>7. ASSUME NEW s \in Stores, Drop(s)
      PROVE  PayloadBeforeRecord'
  BY <1>7 DEF Indexed, PayloadBeforeRecord, Drop
<1>8. ASSUME NEW i \in Ids, TrackerUnlink(i)
      PROVE  PayloadBeforeRecord'
  BY <1>8 DEF Indexed, PayloadBeforeRecord, TrackerUnlink
<1>9. CASE UNCHANGED vars
  BY <1>9 DEF vars, PayloadBeforeRecord, Indexed
<1> QED BY <1>1, <1>2, <1>3, <1>4, <1>5, <1>6, <1>7, <1>8, <1>9, StepCases

\* A store that is gone takes all it held with it.
LEMMA DroppedHoldNothingKept ==
    ASSUME TypeOK, TypeOK', Inductive, [Next]_vars
    PROVE  DroppedHoldNothing'
<1> USE DEF Inductive, TypeOK
<1>1. ASSUME NEW s \in Stores, Open(s)
      PROVE  DroppedHoldNothing'
  BY <1>1 DEF Cached, DroppedHoldNothing, Open
<1>2. ASSUME NEW s \in Stores, NEW i \in Ids, NEW r \in Record, BeginPut(s, i, r)
      PROVE  DroppedHoldNothing'
  <2>1. Nowhere(i) BY <1>2, FreshId DEF BeginPut
  <2> QED BY <1>2, <2>1 DEF Cached, DroppedHoldNothing, BeginPut
<1>3. ASSUME NEW s \in Stores, NEW i \in Ids, NEW r \in Record, RecordPut(s, i, r)
      PROVE  DroppedHoldNothing'
  BY <1>3 DEF Cached, DroppedHoldNothing, RecordPut
<1>4. ASSUME NEW s \in Stores, NEW i \in Ids, AppendRow(s, i)
      PROVE  DroppedHoldNothing'
  BY <1>4 DEF Cached, DroppedHoldNothing, AppendRow
<1>5. ASSUME NEW s \in Stores, NEW i \in Ids, NEW r \in Record, UpdateRow(s, i, r)
      PROVE  DroppedHoldNothing'
  BY <1>5 DEF Cached, DroppedHoldNothing, UpdateRow
<1>6. ASSUME NEW s \in Stores, Close(s)
      PROVE  DroppedHoldNothing'
  BY <1>6 DEF Cached, DroppedHoldNothing, Close
<1>7. ASSUME NEW s \in Stores, Drop(s)
      PROVE  DroppedHoldNothing'
  BY <1>7 DEF Cached, DroppedHoldNothing, Drop
<1>8. ASSUME NEW i \in Ids, TrackerUnlink(i)
      PROVE  DroppedHoldNothing'
  BY <1>8 DEF Cached, DroppedHoldNothing, TrackerUnlink
<1>9. CASE UNCHANGED vars
  BY <1>9 DEF vars, DroppedHoldNothing, Cached
<1> QED BY <1>1, <1>2, <1>3, <1>4, <1>5, <1>6, <1>7, <1>8, <1>9, StepCases

\* A call that changes a record changes the cache and the index alike.
LEMMA CacheIndexedKept ==
    ASSUME TypeOK, TypeOK', Inductive, [Next]_vars
    PROVE  CacheIndexed'
<1> USE DEF Inductive, TypeOK
<1>1. ASSUME NEW s \in Stores, Open(s)
      PROVE  CacheIndexed'
  BY <1>1 DEF Indexed, Cached, CacheIndexed, Open
<1>2. ASSUME NEW s \in Stores, NEW i \in Ids, NEW r \in Record, BeginPut(s, i, r)
      PROVE  CacheIndexed'
  <2>1. Nowhere(i) BY <1>2, FreshId DEF BeginPut
  <2> QED BY <1>2, <2>1 DEF Indexed, Cached, CacheIndexed, BeginPut
<1>3. ASSUME NEW s \in Stores, NEW i \in Ids, NEW r \in Record, RecordPut(s, i, r)
      PROVE  CacheIndexed'
  BY <1>3 DEF PutHalfDone, Indexed, Cached, CacheIndexed, RecordPut
<1>4. ASSUME NEW s \in Stores, NEW i \in Ids, AppendRow(s, i)
      PROVE  CacheIndexed'
  BY <1>4 DEF Indexed, Cached, CacheIndexed, AppendRow
<1>5. ASSUME NEW s \in Stores, NEW i \in Ids, NEW r \in Record, UpdateRow(s, i, r)
      PROVE  CacheIndexed'
  BY <1>5, NoneIsNoRecord DEF Indexed, Cached, CacheIndexed, UpdateRow
<1>6. ASSUME NEW s \in Stores, Close(s)
      PROVE  CacheIndexed'
  BY <1>6 DEF Indexed, Cached, CacheIndexed, Close
<1>7. ASSUME NEW s \in Stores, Drop(s)
      PROVE  CacheIndexed'
  BY <1>7 DEF Indexed, Cached, CacheIndexed, Drop
<1>8. ASSUME NEW i \in Ids, TrackerUnlink(i)
      PROVE  CacheIndexed'
  BY <1>8 DEF Indexed, Cached, CacheIndexed, TrackerUnlink
<1>9. CASE UNCHANGED vars
  BY <1>9 DEF vars, CacheIndexed, Cached, Indexed
<1> QED BY <1>1, <1>2, <1>3, <1>4, <1>5, <1>6, <1>7, <1>8, <1>9, StepCases

\* Only the owner unlinks a segment it owns.
LEMMA OwnedLiveKept ==
    ASSUME TypeOK, TypeOK', Inductive, [Next]_vars
    PROVE  OwnedLive'
<1> USE DEF Inductive, TypeOK
<1>1. ASSUME NEW s \in Stores, Open(s)
      PROVE  OwnedLive'
  BY <1>1 DEF OwnedLive, Open
<1>2. ASSUME NEW s \in Stores, NEW i \in Ids, NEW r \in Record, BeginPut(s, i, r)
      PROVE  OwnedLive'
  <2>1. Nowhere(i) BY <1>2, FreshId DEF BeginPut
  <2> QED BY <1>2, <2>1 DEF OwnedLive, BeginPut
<1>3. ASSUME NEW s \in Stores, NEW i \in Ids, NEW r \in Record, RecordPut(s, i, r)
      PROVE  OwnedLive'
  BY <1>3 DEF OwnedLive, RecordPut
<1>4. ASSUME NEW s \in Stores, NEW i \in Ids, AppendRow(s, i)
      PROVE  OwnedLive'
  BY <1>4 DEF OwnedLive, AppendRow
<1>5. ASSUME NEW s \in Stores, NEW i \in Ids, NEW r \in Record, UpdateRow(s, i, r)
      PROVE  OwnedLive'
  BY <1>5 DEF OwnedLive, UpdateRow
<1>6. ASSUME NEW s \in Stores, Close(s)
      PROVE  OwnedLive'
  BY <1>6 DEF OwnedLive, Close
<1>7. ASSUME NEW s \in Stores, Drop(s)
      PROVE  OwnedLive'
  BY <1>7 DEF OwnedLive, Drop
<1>8. ASSUME NEW i \in Ids, TrackerUnlink(i)
      PROVE  OwnedLive'
  BY <1>8 DEF OwnedLive, TrackerUnlink
<1>9. CASE UNCHANGED vars
  BY <1>9 DEF vars, OwnedLive
<1> QED BY <1>1, <1>2, <1>3, <1>4, <1>5, <1>6, <1>7, <1>8, <1>9, StepCases

\* No other store touches a state whose put is half done.
LEMMA PutHalfDoneKept ==
    ASSUME TypeOK, TypeOK', Inductive, [Next]_vars
    PROVE  PutHalfDone'
<1> USE DEF Inductive, TypeOK
<1>1. ASSUME NEW s \in Stores, Open(s)
      PROVE  PutHalfDone'
  BY <1>1 DEF CacheIndexed, Indexed, Cached, PutHalfDone, Open
<1>2. ASSUME NEW s \in Stores, NEW i \in Ids, NEW r \in Record, BeginPut(s, i, r)
      PROVE  PutHalfDone'
  <2>1. Nowhere(i) BY <1>2, FreshId DEF BeginPut
  <2> QED BY <1>2, <2>1, StepsDiffer DEF Indexed, Cached, PutHalfDone, BeginPut, Nowhere
<1>3. ASSUME NEW s \in Stores, NEW i \in Ids, NEW r \in Record, RecordPut(s, i, r)
      PROVE  PutHalfDone'
  BY <1>3, StepsDiffer DEF Indexed, Cached, PutHalfDone, RecordPut
<1>4. ASSUME NEW s \in Stores, NEW i \in Ids, AppendRow(s, i)
      PROVE  PutHalfDone'
  BY <1>4, StepsDiffer DEF Indexed, Cached, PutHalfDone, AppendRow
<1>5. ASSUME NEW s \in Stores, NEW i \in Ids, NEW r \in Record, UpdateRow(s, i, r)
      PROVE  PutHalfDone'
  BY <1>5, StepsDiffer DEF CacheIndexed, Indexed, Cached, PutHalfDone, UpdateRow
<1>6. ASSUME NEW s \in Stores, Close(s)
      PROVE  PutHalfDone'
  BY <1>6, StepsDiffer DEF OwnedLive, Indexed, Cached, PutHalfDone, Ready, Close
<1>7. ASSUME NEW s \in Stores, Drop(s)
      PROVE  PutHalfDone'
  BY <1>7, StepsDiffer DEF Indexed, Cached, PutHalfDone, Drop
<1>8. ASSUME NEW i \in Ids, TrackerUnlink(i)
      PROVE  PutHalfDone'
  BY <1>8 DEF Indexed, Cached, PutHalfDone, TrackerUnlink
<1>9. CASE UNCHANGED vars
  BY <1>9 DEF vars, PutHalfDone, Cached, Indexed
<1> QED BY <1>1, <1>2, <1>3, <1>4, <1>5, <1>6, <1>7, <1>8, <1>9, StepCases

\* A row is owed only for a record the store knows.
LEMMA RowOwedKept ==
    ASSUME TypeOK, TypeOK', Inductive, [Next]_vars
    PROVE  RowOwed'
<1> USE DEF Inductive, TypeOK
<1>1. ASSUME NEW s \in Stores, Open(s)
      PROVE  RowOwed'
  BY <1>1 DEF DroppedHoldNothing, Cached, RowOwed, Open
<1>2. ASSUME NEW s \in Stores, NEW i \in Ids, NEW r \in Record, BeginPut(s, i, r)
      PROVE  RowOwed'
  <2>1. Nowhere(i) BY <1>2, FreshId DEF BeginPut
  <2> QED BY <1>2, <2>1, StepsDiffer DEF Cached, RowOwed, BeginPut, Nowhere
<1>3. ASSUME NEW s \in Stores, NEW i \in Ids, NEW r \in Record, RecordPut(s, i, r)
      PROVE  RowOwed'
  BY <1>3, NoneIsNoRecord, StepsDiffer DEF PutHalfDone, Cached, RowOwed, RecordPut
<1>4. ASSUME NEW s \in Stores, NEW i \in Ids, AppendRow(s, i)
      PROVE  RowOwed'
  BY <1>4, StepsDiffer DEF Cached, RowOwed, AppendRow
<1>5. ASSUME NEW s \in Stores, NEW i \in Ids, NEW r \in Record, UpdateRow(s, i, r)
      PROVE  RowOwed'
  BY <1>5, NoneIsNoRecord, StepsDiffer DEF Cached, RowOwed, UpdateRow
<1>6. ASSUME NEW s \in Stores, Close(s)
      PROVE  RowOwed'
  BY <1>6 DEF Cached, RowOwed, Close
<1>7. ASSUME NEW s \in Stores, Drop(s)
      PROVE  RowOwed'
  BY <1>7, StepsDiffer DEF Cached, RowOwed, Drop
<1>8. ASSUME NEW i \in Ids, TrackerUnlink(i)
      PROVE  RowOwed'
  BY <1>8 DEF Cached, RowOwed, TrackerUnlink
<1>9. CASE UNCHANGED vars
  BY <1>9 DEF vars, RowOwed, Cached
<1> QED BY <1>1, <1>2, <1>3, <1>4, <1>5, <1>6, <1>7, <1>8, <1>9, StepCases

\* No cache and no index holds a blob number that it has not passed.
LEMMA SlotsKept ==
    ASSUME TypeOK, TypeOK', Inductive, [Next]_vars
    PROVE  SlotsBelowCount'
<1> USE DEF Inductive
<1>0. \A r \in Record : r.slot \in Nat
  BY StoresAssumption, FS_CardinalityType DEF Record, Slots
<1>b. /\ \A i \in Indexed : i \in Ids /\ index[i] \in Record
      /\ \A s \in Stores : \A i \in Cached(s) :
            i \in Indexed /\ i \in Ids /\ cache[s][i] \in Record
  BY DEF Indexed, Cached, TypeOK, CacheIndexed
<1>c. /\ \A s \in Stores : BlobNumber(s) \in Nat
      /\ Cardinality(Indexed) \in Nat
  BY KnownCount, IdsCounted DEF Indexed
<1>a. ASSUME UNCHANGED <<cache, index>>,
             \A s \in Stores, i \in Ids, r \in Record :
                pend'[s] = ToIndex(i, r) => pend[s] = ToIndex(i, r)
      PROVE  SlotsBelowCount'
  <2>1. /\ Indexed' = Indexed
        /\ \A s \in Stores : Cached(s)' = Cached(s) /\ BlobNumber(s)' = BlobNumber(s)
    BY <1>a DEF Indexed, Cached, BlobNumber
  <2> QED BY <1>a, <2>1 DEF SlotsBelowCount
<1>1. ASSUME NEW s \in Stores, Open(s)
      PROVE  SlotsBelowCount'
  <2>1. Cached(s)' = Indexed /\ \A t \in Stores \ {s} : Cached(t)' = Cached(t)
    BY <1>1 DEF Open, Cached, Indexed, TypeOK
  <2>2. pend[s] = Idle /\ pend' = pend /\ index' = index
    BY <1>1 DEF Open, DroppedHoldNothing
  <2>3. Indexed' = Indexed BY <1>1 DEF Open, Indexed
  <2>4. /\ BlobNumber(s)' = Cardinality(Indexed)
        /\ \A t \in Stores \ {s} : BlobNumber(t)' = BlobNumber(t)
    BY <2>1 DEF BlobNumber
  <2>5. cache'[s] = index /\ \A t \in Stores \ {s} : cache'[t] = cache[t]
    BY <1>1 DEF Open, TypeOK
  <2> QED BY <2>1, <2>2, <2>3, <2>4, <2>5, <1>b, StepsDiffer DEF SlotsBelowCount
<1>2. ASSUME NEW s \in Stores, NEW i \in Ids, NEW r \in Record, BeginPut(s, i, r)
      PROVE  SlotsBelowCount'
  <2>1. Indexed' = Indexed /\ \A t \in Stores : Cached(t)' = Cached(t)
    BY <1>2 DEF BeginPut, Indexed, Cached
  <2>2. \A t \in Stores, j \in Ids, q \in Record :
           pend'[t] = ToIndex(j, q) => pend[t] = ToIndex(j, q) \/ (t = s /\ q = r)
    <3>1. /\ pend'[s] = ToIndex(i, r)
          /\ \A t \in Stores \ {s} : pend'[t] = pend[t]
      BY <1>2 DEF BeginPut, TypeOK
    <3>2. \A j \in Ids, q \in Record : ToIndex(i, r) = ToIndex(j, q) => q = r
      BY StepsDiffer
    <3> SUFFICES ASSUME NEW t \in Stores, NEW j \in Ids, NEW q \in Record,
                        pend'[t] = ToIndex(j, q), t = s
                 PROVE  q = r
      BY <3>1
    <3> QED BY <3>1, <3>2
  <2>3. \A t \in Stores : BlobNumber(t)' = BlobNumber(t)
    BY <2>1 DEF BlobNumber
  <2>4. UNCHANGED <<cache, index>> /\ r.slot <= BlobNumber(s)
    BY <1>2 DEF BeginPut
  <2> QED BY <2>1, <2>2, <2>3, <2>4 DEF SlotsBelowCount
<1>3. ASSUME NEW s \in Stores, NEW i \in Ids, NEW r \in Record, RecordPut(s, i, r)
      PROVE  SlotsBelowCount'
  <2>1. /\ i \notin Indexed /\ i \notin Cached(s)
        /\ r.slot <= BlobNumber(s) /\ r # None
    BY <1>3, NoneIsNoRecord DEF RecordPut, PutHalfDone, CacheIndexed, SlotsBelowCount
  <2>2. /\ Indexed' = Indexed \cup {i} /\ Cached(s)' = Cached(s) \cup {i}
        /\ \A t \in Stores \ {s} : Cached(t)' = Cached(t)
    BY <1>3, <2>1 DEF RecordPut, Indexed, Cached, TypeOK
  <2>3. /\ Cardinality(Indexed)' = Cardinality(Indexed) + 1
        /\ Cardinality(Indexed) \in Nat /\ BlobNumber(s) \in Nat
        /\ BlobNumber(s)' = BlobNumber(s) + 1
        /\ BlobNumber(s) <= Cardinality(Indexed)
        /\ \A t \in Stores \ {s} : BlobNumber(t)' = BlobNumber(t)
    <3>1. Indexed \in SUBSET Ids /\ Cached(s) \in SUBSET Indexed /\ Cached(s) \in SUBSET Ids
      BY DEF Indexed, Cached, CacheIndexed
    <3>2. i \in Ids \ Indexed /\ i \in Ids \ Cached(s) BY <2>1
    <3> QED BY <2>2, <3>1, <3>2, IdsCounted DEF BlobNumber
  <2>4. /\ index'[i].slot = r.slot /\ cache'[s][i].slot = r.slot
        /\ \A j \in Indexed : index'[j].slot = index[j].slot
        /\ \A t \in Stores, j \in Ids :
             <<t, j>> # <<s, i>> => cache'[t][j] = cache[t][j]
    BY <1>3, <2>1 DEF RecordPut, Indexed, TypeOK
  <2>5. \A j \in Indexed' : index'[j].slot < Cardinality(Indexed)'
    <3> SUFFICES ASSUME NEW j \in Indexed' PROVE index'[j].slot < Cardinality(Indexed)'
      OBVIOUS
    <3>1. CASE j = i BY <1>0, <2>1, <2>3, <2>4, <3>1
    <3>2. CASE j \in Indexed
      <4>1. index[j].slot < Cardinality(Indexed) /\ index[j].slot \in Nat
        BY <1>0, <1>b, <3>2 DEF SlotsBelowCount
      <4> QED BY <2>3, <2>4, <3>2, <4>1
    <3> QED BY <2>2, <3>1, <3>2
  <2>6. \A t \in Stores : \A j \in Cached(t)' :
           cache'[t][j].slot = index'[j].slot /\ cache'[t][j].slot < BlobNumber(t)'
    <3> SUFFICES ASSUME NEW t \in Stores, NEW j \in Cached(t)'
                 PROVE  /\ cache'[t][j].slot = index'[j].slot
                        /\ cache'[t][j].slot < BlobNumber(t)'
      OBVIOUS
    <3>1. CASE t = s /\ j = i BY <1>0, <2>1, <2>3, <2>4, <3>1
    <3>2. CASE <<t, j>> # <<s, i>>
      <4>1. j \in Cached(t) BY <2>2, <3>2
      <4>2. /\ cache[t][j].slot = index[j].slot /\ cache[t][j].slot < BlobNumber(t)
            /\ cache[t][j].slot \in Nat /\ j \in Indexed /\ j \in Ids
        BY <1>0, <1>b, <4>1 DEF SlotsBelowCount
      <4>3. BlobNumber(t) <= BlobNumber(t)' /\ BlobNumber(t)' \in Nat
        BY <1>c, <2>3
      <4> QED BY <1>c, <2>4, <3>2, <4>2, <4>3
    <3> QED BY <3>1, <3>2
  <2>7. \A t \in Stores, j \in Ids, q \in Record :
           pend'[t] = ToIndex(j, q) => t # s /\ pend[t] = ToIndex(j, q)
    BY <1>3, StepsDiffer DEF RecordPut, TypeOK
  <2> QED BY <2>3, <2>5, <2>6, <2>7 DEF SlotsBelowCount
<1>4. ASSUME NEW s \in Stores, NEW i \in Ids, AppendRow(s, i)
      PROVE  SlotsBelowCount'
  BY <1>a, <1>4, StepsDiffer DEF AppendRow, TypeOK
<1>5. ASSUME NEW s \in Stores, NEW i \in Ids, NEW r \in Record, UpdateRow(s, i, r)
      PROVE  SlotsBelowCount'
  <2>1. i \in Cached(s) /\ i \in Indexed /\ r # None
    BY <1>5, NoneIsNoRecord DEF UpdateRow, CacheIndexed
  <2>2. /\ Indexed' = Indexed /\ \A t \in Stores : Cached(t)' = Cached(t)
    BY <1>5, <2>1 DEF UpdateRow, Indexed, Cached, TypeOK
  <2>3. /\ \A j \in Ids : j \in Indexed => index'[j].slot = index[j].slot
        /\ \A t \in Stores, j \in Ids : cache'[t][j].slot = cache[t][j].slot
    BY <1>5, <2>1 DEF UpdateRow, SlotsBelowCount, TypeOK
  <2>4. \A t \in Stores, j \in Ids, q \in Record :
           pend'[t] = ToIndex(j, q) => pend[t] = ToIndex(j, q)
    BY <1>5, StepsDiffer DEF UpdateRow, TypeOK
  <2>5. \A t \in Stores : BlobNumber(t)' = BlobNumber(t) /\ Cached(t) \subseteq Indexed
    BY <2>2 DEF BlobNumber, CacheIndexed
  <2> QED BY <2>2, <2>3, <2>4, <2>5, <1>b DEF SlotsBelowCount
<1>6. ASSUME NEW s \in Stores, Close(s)
      PROVE  SlotsBelowCount'
  BY <1>a, <1>6 DEF Close
<1>7. ASSUME NEW s \in Stores, Drop(s)
      PROVE  SlotsBelowCount'
  <2>1. /\ Indexed' = Indexed /\ Cached(s)' = {}
        /\ \A t \in Stores \ {s} : Cached(t)' = Cached(t)
    BY <1>7 DEF Drop, Indexed, Cached, TypeOK
  <2>2. /\ \A t \in Stores \ {s} : BlobNumber(t)' = BlobNumber(t) /\ pend'[t] = pend[t]
        /\ \A t \in Stores \ {s} : cache'[t] = cache[t]
        /\ pend'[s] = Idle /\ index' = index
    BY <1>7, <2>1 DEF BlobNumber, Drop, TypeOK
  <2> QED BY <2>1, <2>2, <1>b, StepsDiffer DEF SlotsBelowCount
<1>8. ASSUME NEW i \in Ids, TrackerUnlink(i)
      PROVE  SlotsBelowCount'
  BY <1>a, <1>8 DEF TrackerUnlink
<1>9. CASE UNCHANGED vars
  BY <1>a, <1>9 DEF vars
<1> QED BY <1>1, <1>2, <1>3, <1>4, <1>5, <1>6, <1>7, <1>8, <1>9, StepCases

\* The store that created a record holds the record of the index.
LEMMA FreshKept ==
    ASSUME TypeOK, TypeOK', Inductive, [Next]_vars
    PROVE  Fresh'
<1> USE DEF Inductive, TypeOK
<1>1. ASSUME NEW s \in Stores, Open(s)
      PROVE  Fresh'
  BY <1>1 DEF Indexed, OwnerFresh, Fresh, Open
<1>2. ASSUME NEW s \in Stores, NEW i \in Ids, NEW r \in Record, BeginPut(s, i, r)
      PROVE  Fresh'
  <2>1. Nowhere(i) BY <1>2, FreshId DEF BeginPut
  <2> QED BY <1>2, <2>1 DEF Indexed, OwnerFresh, Fresh, BeginPut, Nowhere
<1>3. ASSUME NEW s \in Stores, NEW i \in Ids, NEW r \in Record, RecordPut(s, i, r)
      PROVE  Fresh'
  BY <1>3 DEF PutHalfDone, Indexed, OwnerFresh, Fresh, RecordPut
<1>4. ASSUME NEW s \in Stores, NEW i \in Ids, AppendRow(s, i)
      PROVE  Fresh'
  BY <1>4 DEF Indexed, OwnerFresh, Fresh, AppendRow
<1>5. ASSUME NEW s \in Stores, NEW i \in Ids, NEW r \in Record, UpdateRow(s, i, r)
      PROVE  Fresh'
  BY <1>5 DEF Indexed, OwnerFresh, Fresh, UpdateRow
<1>6. ASSUME NEW s \in Stores, Close(s)
      PROVE  Fresh'
  BY <1>6 DEF Indexed, OwnerFresh, Fresh, Close
<1>7. ASSUME NEW s \in Stores, Drop(s)
      PROVE  Fresh'
  BY <1>7, StoresAssumption DEF Indexed, OwnerFresh, Fresh, Drop
<1>8. ASSUME NEW i \in Ids, TrackerUnlink(i)
      PROVE  Fresh'
  BY <1>8 DEF Indexed, OwnerFresh, Fresh, TrackerUnlink
<1>9. CASE UNCHANGED vars
  BY <1>9 DEF vars, Fresh, OwnerFresh, Indexed
<1> QED BY <1>1, <1>2, <1>3, <1>4, <1>5, <1>6, <1>7, <1>8, <1>9, StepCases

\* What an id is to the log, its index row, its maker and the maker's call.
SameRow(i) ==
    /\ index'[i] = index[i] /\ journal'[i] = journal[i] /\ maker'[i] = maker[i]
    /\ maker[i] # None => (pend[maker[i]] = ToJournal(i) => pend'[maker[i]] = ToJournal(i))

TrailsAt(i) ==
    IF i \in Indexed
    THEN Logged(i) \/ (Unfinished(i) /\ OneCallBehind(i))
    ELSE journal[i] = None

LEMMA SameRowTrails ==
    ASSUME NEW i \in Ids, TrailsAt(i), SameRow(i)
    PROVE  TrailsAt(i)'
<1>1. (i \in Indexed)' = (i \in Indexed) BY DEF Indexed, SameRow
<1>2. Logged(i) => Logged(i)' BY DEF Logged, SameRow
<1>3. OneCallBehind(i) => OneCallBehind(i)' BY DEF OneCallBehind, SameRow
<1>4. Unfinished(i) => Unfinished(i)' BY DEF Unfinished, SameRow
<1> QED BY <1>1, <1>2, <1>3, <1>4 DEF TrailsAt, SameRow

\* The log trails the index by the last call of each record.
LEMMA TrailsKept ==
    ASSUME TypeOK, TypeOK', Inductive, [Next]_vars
    PROVE  Trails'
<1> SUFFICES ASSUME OwnerOnly', NEW j \in Ids PROVE TrailsAt(j)'
  BY DEF Trails, JournalTrails, TrailsAt
<1> USE DEF TypeOK
<1>0. OwnerOnly /\ TrailsAt(j) /\ OwnerFresh
  BY DEF Inductive, JournalTrails, TrailsAt
<1>1. ASSUME NEW s \in Stores, Open(s)
      PROVE  TrailsAt(j)'
  BY <1>0, <1>1, SameRowTrails DEF SameRow, Open
<1>2. ASSUME NEW s \in Stores, NEW i \in Ids, NEW r \in Record, BeginPut(s, i, r)
      PROVE  TrailsAt(j)'
  <2>1. Nowhere(i) BY <1>2, FreshId DEF BeginPut
  <2>2. CASE j = i
    BY <1>0, <1>2, <2>1, <2>2 DEF TrailsAt, BeginPut, Nowhere, Indexed
  <2>3. CASE j # i
    <3>1. pend[s] # ToJournal(j) BY <1>2, StepsDiffer DEF BeginPut
    <3> QED BY <1>0, <1>2, <2>3, <3>1, SameRowTrails DEF SameRow, BeginPut
  <2> QED BY <2>2, <2>3
<1>3. ASSUME NEW s \in Stores, NEW i \in Ids, NEW r \in Record, RecordPut(s, i, r)
      PROVE  TrailsAt(j)'
  <2>1. CASE j = i
    <3>1. i \notin Indexed /\ maker[i] = s /\ r.consumers = {}
      BY <1>3 DEF RecordPut, Inductive, PutHalfDone
    <3>2. journal[i] = None BY <1>0, <2>1, <3>1 DEF TrailsAt
    <3> QED BY <1>3, <2>1, <3>1, <3>2, NoneIsNoRecord
            DEF RecordPut, TrailsAt, Indexed, Unfinished, OneCallBehind
  <2>2. CASE j # i
    <3>1. pend[s] # ToJournal(j) BY <1>3, StepsDiffer DEF RecordPut
    <3> QED BY <1>0, <1>3, <2>2, <3>1, SameRowTrails DEF SameRow, RecordPut
  <2> QED BY <2>1, <2>2
<1>4. ASSUME NEW s \in Stores, NEW i \in Ids, AppendRow(s, i)
      PROVE  TrailsAt(j)'
  <2>1. CASE j = i
    <3>1. i \in Cached(s) /\ maker[i] = s
      BY <1>0, <1>4 DEF AppendRow, Inductive, RowOwed
    <3>2. i \in Indexed BY <3>1 DEF Inductive, CacheIndexed
    <3>3. cache[s][i] = index[i] BY <1>0, <1>4, <3>1, <3>2 DEF AppendRow, OwnerFresh
    <3> QED BY <1>4, <2>1, <3>2, <3>3 DEF AppendRow, TrailsAt, Indexed, Logged
  <2>2. CASE j # i
    <3>1. pend[s] # ToJournal(j) BY <1>4, <2>2, StepsDiffer DEF AppendRow
    <3> QED BY <1>0, <1>4, <2>2, <3>1, SameRowTrails DEF SameRow, AppendRow
  <2> QED BY <2>1, <2>2
<1>5. ASSUME NEW s \in Stores, NEW i \in Ids, NEW r \in Record, UpdateRow(s, i, r)
      PROVE  TrailsAt(j)'
  <2>1. pend[s] # ToJournal(j) BY <1>5, StepsDiffer DEF UpdateRow
  <2>2. CASE j = i
    <3>1. maker[i] = s /\ s # None /\ i \in Indexed
      BY <1>0, <1>5, StoresAssumption DEF UpdateRow, Inductive, CacheIndexed
    <3>2. cache[s][i] = index[i] BY <1>0, <1>5, <3>1 DEF UpdateRow, OwnerFresh
    <3>3. Logged(i) BY <1>0, <2>1, <2>2, <3>1 DEF TrailsAt, Unfinished
    <3>4. /\ index'[i] = r /\ journal' = journal /\ maker' = maker /\ r # None
          /\ r.parents = index[i].parents /\ (index[i].memory => r.memory)
      BY <1>5, <3>2, NoneIsNoRecord DEF UpdateRow
    <3>5. CASE pend' = pend /\ r.consumers = index[i].consumers
      BY <2>2, <3>3, <3>4, <3>5 DEF TrailsAt, Indexed, Logged
    <3>6. CASE /\ pend' = [pend EXCEPT ![s] = ToJournal(i)]
               /\ \E a \in Agents : r.consumers = index[i].consumers \cup {a}
      <4>1. Unfinished(i)' BY <3>1, <3>4, <3>6 DEF Unfinished
      <4>2. OneCallBehind(i)' BY <3>3, <3>4, <3>6 DEF OneCallBehind, Logged
      <4> QED BY <2>2, <3>4, <4>1, <4>2 DEF TrailsAt, Indexed
    <3> QED BY <1>5, <3>2, <3>5, <3>6 DEF UpdateRow
  <2>3. CASE j # i
    BY <1>0, <1>5, <2>1, <2>3, SameRowTrails DEF SameRow, UpdateRow
  <2> QED BY <2>2, <2>3
<1>6. ASSUME NEW s \in Stores, Close(s)
      PROVE  TrailsAt(j)'
  BY <1>0, <1>6, SameRowTrails DEF SameRow, Close
<1>7. ASSUME NEW s \in Stores, Drop(s)
      PROVE  TrailsAt(j)'
  <2>1. CASE maker[j] = s
    <3>1. maker'[j] = None BY <1>7, <2>1 DEF Drop
    <3>2. index'[j] = index[j] /\ journal'[j] = journal[j] BY <1>7 DEF Drop
    <3> QED BY <1>0, <3>1, <3>2
            DEF TrailsAt, Indexed, Logged, Unfinished, OneCallBehind
  <2>2. CASE maker[j] # s
    BY <1>0, <1>7, <2>2, SameRowTrails DEF SameRow, Drop
  <2> QED BY <2>1, <2>2
<1>8. ASSUME NEW i \in Ids, TrackerUnlink(i)
      PROVE  TrailsAt(j)'
  BY <1>0, <1>8, SameRowTrails DEF SameRow, TrackerUnlink
<1>9. CASE UNCHANGED vars
  BY <1>0, <1>9, SameRowTrails DEF SameRow, vars
<1> QED BY <1>1, <1>2, <1>3, <1>4, <1>5, <1>6, <1>7, <1>8, <1>9, StepCases

\* The invariant holds in every reachable state.
THEOREM InductiveHolds == Spec => []Inductive
<1>1. Init => Inductive
  BY NoneIsNoRecord
     DEF Init, Inductive, LineageClosed, PayloadBeforeRecord, DroppedHoldNothing,
         CacheIndexed, OwnedLive, PutHalfDone, RowOwed, SlotsBelowCount, OwnerFresh,
         JournalTrails, Indexed, Cached, Idle, ToIndex, ToJournal
<1>2. TypeOK /\ TypeOK' /\ Inductive /\ [Next]_vars => Inductive'
  BY LineageClosedKept, PayloadBeforeRecordKept, DroppedHoldNothingKept,
     CacheIndexedKept, OwnedLiveKept, PutHalfDoneKept, RowOwedKept, SlotsKept, FreshKept,
     TrailsKept
     DEF Inductive, Fresh, Trails
<1> QED BY <1>1, <1>2, TypeCorrect, PTL DEF Spec

-----------------------------------------------------------------------------
(* What the invariant gives.                                                *)

\* Lineage read back from the index is closed, after any crash of any store,
\* whoever updates the records (_record, add_consumer).
THEOREM LineageIsClosed == Spec => []LineageClosed
  BY InductiveHolds, PTL DEF Inductive

\* The index never points at a payload that was not written (_put).
THEOREM PayloadsAreWritten == Spec => []PayloadBeforeRecord
  BY InductiveHolds, PTL DEF Inductive

\* With records updated by their creators only, states.jsonl never leads the
\* index, and trails it by the unfinished call of a record at most, wherever the
\* stores have died (_record, add_consumer).
THEOREM JournalTrailsIndex ==
    ASSUME OwnerOnly
    PROVE  Spec => []JournalTrails
<1>1. Inductive => JournalTrails BY DEF Inductive
<1> QED BY <1>1, InductiveHolds, PTL

\* No step of any store loses a consumer or a memory mark (_upsert_index).
THEOREM LineageIsKept ==
    ASSUME OwnerOnly
    PROVE  Spec => LineageKept
<1> DEFINE Kept == \A i \in Indexed :
                     /\ index'[i] # None
                     /\ index'[i].parents = index[i].parents
                     /\ index[i].consumers \subseteq index'[i].consumers
                     /\ index[i].memory => index'[i].memory
<1>1. TypeOK /\ Inductive /\ [Next]_vars => [Kept]_vars
  <2> SUFFICES ASSUME TypeOK, Inductive, [Next]_vars PROVE Kept \/ UNCHANGED vars
    BY DEF vars
  <2> USE DEF TypeOK
  <2>1. ASSUME index' = index PROVE Kept
    BY <2>1 DEF Indexed
  <2>2. ASSUME NEW s \in Stores, NEW i \in Ids, NEW r \in Record, RecordPut(s, i, r)
        PROVE  Kept
    <3>1. i \notin Indexed BY <2>2 DEF RecordPut, Inductive, PutHalfDone
    <3> QED BY <2>2, <3>1 DEF RecordPut, Indexed
  <2>3. ASSUME NEW s \in Stores, NEW i \in Ids, NEW r \in Record, UpdateRow(s, i, r)
        PROVE  Kept
    <3>1. cache[s][i] = index[i]
      BY <2>3 DEF UpdateRow, Inductive, OwnerFresh, CacheIndexed
    <3> QED BY <2>3, <3>1, NoneIsNoRecord DEF UpdateRow, Indexed
  <2> QED BY <2>1, <2>2, <2>3, StepCases
          DEF Open, Close, Drop, BeginPut, AppendRow, TrackerUnlink
<1> QED BY <1>1, TypeCorrect, InductiveHolds, PTL DEF Spec, LineageKept

\* A store never gives a new blob the number of one it knows (_put): no blob a
\* store has in its cache is overwritten by a put of that store, however many
\* stores share the directory.
THEOREM KnownBlobsAreKept == Spec => KnownBlobKept
<1> DEFINE Kept == \A s \in Stores, i, j \in Ids :
                     /\ cache[s][i] # None
                     /\ cache[s][i].kind = "blob"
                     /\ blob[cache[s][i].slot] = i
                     /\ blob'[cache[s][i].slot] = j
                     /\ j # i
                     => maker'[j] # s
<1>1. TypeOK /\ Inductive /\ [Next]_vars => [Kept]_vars
  <2> SUFFICES ASSUME TypeOK, Inductive, [Next]_vars PROVE Kept
    OBVIOUS
  <2>1. ASSUME blob' = blob PROVE Kept
    BY <2>1
  <2>2. ASSUME NEW t \in Stores, NEW m \in Ids, NEW k \in Kinds, NEW P \in SUBSET Ids,
               PutPayload(t, m, k, P)
        PROVE  Kept
    <3> SUFFICES ASSUME NEW s \in Stores, NEW i \in Ids, NEW j \in Ids, cache[s][i] # None,
                        blob[cache[s][i].slot] = i, blob'[cache[s][i].slot] = j, j # i
                 PROVE  maker'[j] # s
      OBVIOUS
    <3>1. /\ cache[s][i].slot < BlobNumber(s) /\ cache[s][i].slot \in Slots
          /\ cache[s][i].slot \in Nat
      <4>1. i \in Cached(s) /\ cache[s][i] \in Record BY DEF Cached, TypeOK
      <4> QED BY <4>1, StoresAssumption, FS_CardinalityType
              DEF Inductive, SlotsBelowCount, Record, Slots
    <3>2. cache[s][i].slot = BlobNumber(t) /\ j = m
      BY <2>2, <3>1 DEF PutPayload, TypeOK
    <3>3. s # t BY <3>1, <3>2
    <3> QED BY <2>2, <3>2, <3>3 DEF PutPayload, TypeOK
  <2> QED BY <2>1, <2>2
          DEF Next, StoreStep, vars, Open, PutIndex, AppendJournal, AddConsumer,
              MarkWrittenToMemory, Close, Drop, TrackerUnlink
<1> QED BY <1>1, TypeCorrect, InductiveHolds, PTL DEF Spec, KnownBlobKept

\* A new consumer of a record is a new consumer of its entry (add_consumer).
LEMMA EntryConsumed ==
    ASSUME NEW x \in Record, NEW y \in Record, NEW a, y.parents = x.parents,
           y.consumers = x.consumers \cup {a}, y.memory = x.memory
    PROVE  EntryOf(y) = [EntryOf(x) EXCEPT !.consumers = @ \cup {a}]
<1> DEFINE e == EntryOf(x)
<1>1. e = [parents |-> x.parents, consumers |-> x.consumers, memory |-> x.memory]
  BY DEF EntryOf
<1>2. [e EXCEPT !.consumers = @ \cup {a}]
      = [parents |-> x.parents, consumers |-> x.consumers \cup {a}, memory |-> x.memory]
  BY <1>1
<1>3. EntryOf(y)
      = [parents |-> x.parents, consumers |-> x.consumers \cup {a}, memory |-> x.memory]
  BY Zenon DEF EntryOf
<1> QED BY <1>2, <1>3

LEMMA WithConsumerEntry ==
    ASSUME NEW x \in Record, NEW a \in Agents
    PROVE  EntryOf(WithConsumer(x, a)) = [EntryOf(x) EXCEPT !.consumers = @ \cup {a}]
<1> DEFINE r == WithConsumer(x, a)
<1>1. /\ r \in Record /\ r.parents = x.parents
      /\ r.consumers = x.consumers \cup {a} /\ r.memory = x.memory
  BY DEF Record, WithConsumer
<1> HIDE DEF r
<1>2. EntryOf(r) = [EntryOf(x) EXCEPT !.consumers = @ \cup {a}]
  BY <1>1, EntryConsumed
<1> QED BY <1>2 DEF r

\* The same for the mark (mark_written_to_memory).
LEMMA EntryMemorised ==
    ASSUME NEW x \in Record, NEW y \in Record, NEW m, y.parents = x.parents,
           y.consumers = x.consumers, y.memory = m
    PROVE  EntryOf(y) = [EntryOf(x) EXCEPT !.memory = m]
<1> DEFINE e == EntryOf(x)
<1>1. e = [parents |-> x.parents, consumers |-> x.consumers, memory |-> x.memory]
  BY DEF EntryOf
<1>2. [e EXCEPT !.memory = m]
      = [parents |-> x.parents, consumers |-> x.consumers, memory |-> m]
  BY <1>1
<1> QED BY <1>2 DEF EntryOf

\* The index of any number of stores is a registry of records.
THEOREM IndexIsRegistry ==
    ASSUME OwnerOnly
    PROVE  Spec => ImplementsRegistry
<1>1. Init => Registry!Init
  BY DEF Init, Registry!Init, Lineage
<1>2. TypeOK /\ Inductive /\ [Next]_vars => [Registry!Next]_Lineage
  <2> SUFFICES ASSUME TypeOK, Inductive, [Next]_vars
               PROVE  Registry!Next \/ Lineage' = Lineage
    OBVIOUS
  <2> USE DEF TypeOK, Lineage
  <2>0. \A r \in Record : EntryOf(r) # None
    BY NoneIsNoRecord DEF Record, Entry, EntryOf
  <2>1. ASSUME index' = index PROVE Lineage' = Lineage
    BY <2>1
  <2>2. ASSUME NEW s \in Stores, NEW i \in Ids, NEW r \in Record, RecordPut(s, i, r)
        PROVE  Registry!Next
    <3>1. pend[s] = ToIndex(i, r) /\ i \in Ids /\ r \in Record BY <2>2 DEF RecordPut
    <3>2. index' = [index EXCEPT ![i] = r] BY <2>2 DEF RecordPut
    <3>3. /\ i \notin Indexed /\ r.parents \subseteq Indexed
          /\ r.consumers = {} /\ r.memory = FALSE
      BY <3>1 DEF Inductive, PutHalfDone, CacheIndexed
    <3>4. Lineage' = [Lineage EXCEPT ![i] = EntryOf(r)]
      BY <3>1, <3>2, NoneIsNoRecord
    <3>5. EntryOf(r) = [parents |-> r.parents, consumers |-> {}, memory |-> FALSE]
      BY <3>3 DEF EntryOf
    <3>6. Lineage[i] = None /\ Lineage'[i] = EntryOf(r) /\ Lineage'[i] # None
      BY <2>0, <3>1, <3>3, <3>4 DEF Indexed
    <3>7. Lineage'[i].parents = r.parents BY <3>6 DEF EntryOf
    <3>8. Indexed = {j \in Ids : Lineage[j] # None}
      BY <2>0 DEF Indexed
    <3>9. Registry!Create(i)
      BY <3>3, <3>4, <3>5, <3>6, <3>7, <3>8 DEF Registry!Create, Registry!Known
    <3> QED BY <3>9 DEF Registry!Next
  <2>3. ASSUME NEW s \in Stores, NEW i \in Ids, NEW a \in Agents, AddConsumer(s, i, a)
        PROVE  Registry!Next
    <3>1. s \in open /\ i \in Indexed /\ cache[s][i] = index[i] /\ index[i] \in Record
      BY <2>3
         DEF AddConsumer, Ready, MayUpdate, Inductive, OwnerFresh, CacheIndexed, Indexed
    <3> DEFINE r == WithConsumer(index[i], a)
    <3>2. index' = [index EXCEPT ![i] = r]
      BY <2>3, <3>1 DEF AddConsumer, Upsert
    <3>3. /\ r \in Record /\ r.parents = index[i].parents
          /\ r.consumers = index[i].consumers \cup {a} /\ r.memory = index[i].memory
      BY <3>1 DEF Record, WithConsumer
    <3>6. EntryOf(r) = [EntryOf(index[i]) EXCEPT !.consumers = @ \cup {a}]
      BY <3>1, WithConsumerEntry, Zenon
    <3> HIDE DEF r
    <3>4. Lineage' = [Lineage EXCEPT ![i] = EntryOf(r)]
      BY <3>2, <3>3, NoneIsNoRecord
    <3>5. Lineage[i] = EntryOf(index[i]) /\ Lineage[i] # None
      BY <2>0, <3>1 DEF Indexed
    <3>7. Registry!Consumed(i, a)
      BY <3>1, <3>4, <3>5, <3>6 DEF Registry!Consumed, Registry!Known
    <3> QED BY <3>7 DEF Registry!Next
  <2>4. ASSUME NEW s \in Stores, NEW i \in Ids, MarkWrittenToMemory(s, i)
        PROVE  Registry!Next
    <3>1. s \in open /\ i \in Indexed /\ cache[s][i] = index[i] /\ index[i] \in Record
      BY <2>4
         DEF MarkWrittenToMemory, Ready, MayUpdate, Inductive, OwnerFresh, CacheIndexed,
             Indexed
    <3> DEFINE r == [index[i] EXCEPT !.memory = TRUE]
    <3>2. index' = [index EXCEPT ![i] = r]
      BY <2>4, <3>1 DEF MarkWrittenToMemory, Upsert
    <3>3. /\ r \in Record /\ r.parents = index[i].parents
          /\ r.consumers = index[i].consumers /\ r.memory = TRUE
      BY <3>1 DEF Record
    <3> HIDE DEF r
    <3>6. EntryOf(r) = [EntryOf(index[i]) EXCEPT !.memory = TRUE]
      BY <3>1, <3>3, EntryMemorised
    <3>4. Lineage' = [Lineage EXCEPT ![i] = EntryOf(r)]
      BY <3>2, <3>3, NoneIsNoRecord
    <3>5. Lineage[i] = EntryOf(index[i]) /\ Lineage[i] # None
      BY <2>0, <3>1 DEF Indexed
    <3>7. Registry!Memorised(i)
      BY <3>1, <3>4, <3>5, <3>6 DEF Registry!Memorised, Registry!Known
    <3> QED BY <3>7 DEF Registry!Next
  <2>5. \/ \E s \in Stores, i \in Ids, r \in Record : RecordPut(s, i, r)
        \/ \E s \in Stores, i \in Ids, a \in Agents : AddConsumer(s, i, a)
        \/ \E s \in Stores, i \in Ids : MarkWrittenToMemory(s, i)
        \/ index' = index
    <3>1. ASSUME NEW s \in Stores, StoreStep(s)
          PROVE  \/ PutIndex(s)
                 \/ \E i \in Ids, a \in Agents : AddConsumer(s, i, a)
                 \/ \E i \in Ids : MarkWrittenToMemory(s, i)
                 \/ index' = index
      BY <3>1 DEF StoreStep, Open, PutPayload, AppendJournal, Close, Drop
    <3>2. ASSUME NEW i \in Ids, TrackerUnlink(i) PROVE index' = index
      BY <3>2 DEF TrackerUnlink
    <3>3. CASE UNCHANGED vars
      BY <3>3 DEF vars
    <3> QED BY <3>1, <3>2, <3>3, IndexStep DEF Next
  <2> QED BY <2>1, <2>2, <2>3, <2>4, <2>5
<1> QED BY <1>1, <1>2, TypeCorrect, InductiveHolds, PTL
        DEF Spec, ImplementsRegistry, Registry!Spec
=============================================================================
