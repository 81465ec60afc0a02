-------------------------- MODULE EventStoreProofs --------------------------
(***************************************************************************)
(* Proofs about EventStore, for every set of clients, aggregates and       *)
(* payloads, every snapshot frequency and every bound: the invariants, the *)
(* refinement of CompareAndAppend, and about the ids that contexts give    *)
(* their rows (EventStoreLog): streams grow in the order of their ids, and *)
(* contexts are writers as EventLog describes them.                        *)
(***************************************************************************)
EXTENDS EventStoreInvariant, EventStoreLog, TLAPS, WellFoundedInduction,
        SequenceTheorems, FiniteSetTheorems

(* A replay stays a replay when rows are added. *)
LEMMA ReplayMonotone ==
  ASSUME NEW R, NEW S, R \subseteq S, NEW a, NEW s, IsReplay(R, a, s)
  PROVE  IsReplay(S, a, s)
BY DEF IsReplay, Holds

(* Applying a row's payload extends the replay by that row. *)
LEMMA ReplayAppend ==
  ASSUME NEW R, NEW a, NEW s \in State, NEW v \in Vals, IsReplay(R, a, s),
         Holds(R, a, Len(s) + 1, v)
  PROVE  IsReplay(R, a, Append(s, v))
BY DEF IsReplay, Holds, State

(* The types of rows and objects that the steps below build. *)
LEMMA ObjectNotNone == ASSUME NEW o \in Object PROVE o # NoObject
BY EventStoreAssumption DEF EventStoreAssumption, Object, State

\* A new aggregate (createEmptyAggregate) is an object.
LEMMA FreshType == Fresh \in Object /\ Fresh # NoObject
<1>1. Fresh \in Object BY DEF Fresh, Object, State
<1> QED BY <1>1, ObjectNotNone

(* The initial state satisfies the invariant. *)
LEMMA InitInv == Init => IndInv
<1> SUFFICES ASSUME Init PROVE IndInv OBVIOUS
<1>1. TypeOK BY DEF Init, TypeOK
<1>2. PhasesOK /\ KeysUnique BY DEF Init, PhasesOK, KeysUnique, BatchSize
<1>3. NoLostUpdate /\ SnapshotsAreReplays /\ ObjectsAreReplays
  BY DEF Init, NoLostUpdate, SnapshotsAreReplays, ObjectsAreReplays
<1>4. CapturedAreReplays /\ StagedMatch BY DEF Init, CapturedAreReplays, StagedMatch, StagedFrom
<1>5. FetchedContinues /\ PendingExclusive
  BY DEF Init, FetchedContinues, PendingExclusive
<1> QED BY <1>1, <1>2, <1>3, <1>4, <1>5 DEF IndInv

-----------------------------------------------------------------------------
(* Types *)

\* ApplyEventTo builds a well-typed event, snapshot and object.
LEMMA ApplyEventType ==
  ASSUME TypeOK, NEW c \in Clients, NEW a \in Aggregates, NEW v \in Vals,
         ApplyEvent(c, a, v)
  PROVE  TypeOK'
<1> DEFINE o == objects[c][a]
<1> DEFINE e == EventFor(a, o, v)
<1> DEFINE s == SnapshotFor(a, o, v)
<1>1. o \in Object BY DEF ApplyEvent, TypeOK
<1>2. o.seq + 1 \in Nat /\ Append(o.state, v) \in State BY <1>1 DEF Object, State
<1>3. e \in EventRow /\ s \in SnapshotRow
  BY <1>1, <1>2 DEF EventRow, SnapshotRow, Object, EventFor, SnapshotFor
<1>4. objects' \in [Clients -> [Aggregates -> Object \cup {NoObject}]]
  BY <1>2 DEF ApplyEvent, TypeOK, Object, Applied
<1>5. captured' \in [Clients -> Seq(EventRow)]
  <2> HIDE DEF e
  <2>1. captured' = [captured EXCEPT ![c] = Append(captured[c], e)]
    BY DEF ApplyEvent, e
  <2> QED BY <2>1, <1>3 DEF TypeOK
<1>6. staged' \in [Clients -> Seq(SnapshotRow)]
  <2> HIDE DEF s
  <2>1. staged' = staged \/ staged' = [staged EXCEPT ![c] = Append(staged[c], s)]
    BY DEF ApplyEvent, s
  <2>2. [staged EXCEPT ![c] = Append(staged[c], s)] \in [Clients -> Seq(SnapshotRow)]
    BY <1>3 DEF TypeOK
  <2> QED BY <2>1, <2>2 DEF TypeOK
<1> QED BY <1>4, <1>5, <1>6 DEF TypeOK, ApplyEvent

\* Whatever WriteState inserts is a row of table events or of table snapshots.
LEMMA RowType ==
  ASSUME TypeOK, NEW c \in Clients, NEW i \in 1 .. BatchSize(c)
  PROVE  Row(c, i) \in EventRow \cup SnapshotRow
<1>1. captured[c] \in Seq(EventRow) /\ staged[c] \in Seq(SnapshotRow) BY DEF TypeOK
<1>2. Len(captured[c]) \in Nat /\ Len(staged[c]) \in Nat BY <1>1
<1>3. CASE i <= Len(captured[c])
  BY <1>1, <1>2, <1>3 DEF Row, BatchSize
<1>4. CASE ~(i <= Len(captured[c]))
  <2> DEFINE m == Len(captured[c])
             n == Len(staged[c])
  <2>1. m \in Nat /\ n \in Nat /\ i \in 1 .. (m + n) /\ ~(i <= m)
    BY <1>2, <1>4 DEF BatchSize
  <2> HIDE DEF m, n
  <2>2. i - m \in 1 .. n BY <2>1
  <2> USE DEF m, n
  <2> QED BY <1>1, <1>4, <2>2 DEF Row
<1> QED BY <1>3, <1>4

\* The rows of an open transaction are typed like those of the tables.
LEMMA InsertedType ==
  ASSUME TypeOK, NEW c \in Clients, written[c] <= BatchSize(c)
  PROVE  Inserted(c) \in SUBSET (EventRow \cup SnapshotRow)
<1>1. written[c] \in Nat /\ BatchSize(c) \in Nat BY DEF TypeOK, BatchSize
<1>2. \A i \in 1 .. written[c] : i \in 1 .. BatchSize(c) BY <1>1
<1> QED BY <1>2, RowType DEF Inserted

\* What is left when a context ends is well typed.
LEMMA DiscardType ==
  ASSUME TypeOK, NEW c \in Clients, Discard(c)
  PROVE  /\ phase' \in [Clients -> {"idle", "callback", "loading", "applying", "saving"}]
         /\ objects' \in [Clients -> [Aggregates -> Object \cup {NoObject}]]
         /\ target' \in [Clients -> Aggregates \cup {NoAggregate}]
         /\ fetched' \in [Clients -> SUBSET EventRow]
         /\ captured' \in [Clients -> Seq(EventRow)]
         /\ staged' \in [Clients -> Seq(SnapshotRow)]
         /\ written' \in [Clients -> Nat]
         /\ created' \in [Clients -> SUBSET Aggregates]
<1>1. <<>> \in Seq(EventRow) /\ <<>> \in Seq(SnapshotRow) OBVIOUS
<1> QED BY <1>1 DEF Discard, TypeOK

\* No step of any context breaks the types.
LEMMA TypeInvariance ==
  ASSUME TypeOK, PhasesOK, [Next]_vars
  PROVE  TypeOK'
<1>1. CASE UNCHANGED vars BY <1>1 DEF vars, local, TypeOK
<1>2. ASSUME NEW c \in Clients, Begin(c) PROVE TypeOK' BY <1>2 DEF Begin, TypeOK
<1>3. ASSUME NEW c \in Clients, NEW a \in Aggregates, CreateAggregate(c, a) PROVE TypeOK'
  BY <1>3, FreshType DEF CreateAggregate, TypeOK
<1>4. ASSUME NEW c \in Clients, NEW a \in Aggregates, LoadSnapshot(c, a) PROVE TypeOK'
  <2>1. objects' \in [Clients -> [Aggregates -> Object \cup {NoObject}]]
    <3>1. CASE objects' = [objects EXCEPT ![c][a] = Fresh]
      BY <3>1, FreshType DEF TypeOK
    <3>2. ASSUME NEW s \in SnapshotsOf(a),
                 objects' = [objects EXCEPT ![c][a] = [seq |-> s.seq, state |-> s.state]]
          PROVE  objects' \in [Clients -> [Aggregates -> Object \cup {NoObject}]]
      <4>1. s \in SnapshotRow BY DEF SnapshotsOf, TypeOK, EventRow, SnapshotRow
      <4>2. [seq |-> s.seq, state |-> s.state] \in Object BY <4>1 DEF SnapshotRow, Object
      <4> QED BY <3>2, <4>2 DEF TypeOK
    <3> QED BY <1>4, <3>1, <3>2 DEF LoadSnapshot
  <2> QED BY <1>4, <2>1 DEF LoadSnapshot, TypeOK
<1>5. ASSUME NEW c \in Clients, LoadEvents(c) PROVE TypeOK'
  <2>1. EventsOf(target[c]) \subseteq EventRow
    BY DEF EventsOf, TypeOK, EventRow, SnapshotRow
  <2> QED BY <1>5, <2>1 DEF LoadEvents, EventsAfter, TypeOK
<1>6. ASSUME NEW c \in Clients, ApplyFetched(c) PROVE TypeOK'
  <2>1. target[c] \in Aggregates /\ objects[c][target[c]] \in Object
    BY <1>6 DEF ApplyFetched, PhasesOK, TypeOK
  <2>2. PICK r \in fetched[c] :
          /\ fetched' = [fetched EXCEPT ![c] = @ \ {r}]
          /\ objects' = [objects EXCEPT ![c][target[c]] =
                           [seq |-> r.seq, state |-> Append(@.state, r.val)]]
    BY <1>6 DEF ApplyFetched
  <2>3. r \in EventRow BY DEF TypeOK
  <2>4. [seq |-> r.seq, state |-> Append(objects[c][target[c]].state, r.val)] \in Object
    BY <2>1, <2>3 DEF Object, EventRow, State
  <2>5. objects' \in [Clients -> [Aggregates -> Object \cup {NoObject}]]
    BY <2>1, <2>2, <2>4 DEF TypeOK
  <2>6. fetched' \in [Clients -> SUBSET EventRow] BY <2>2 DEF TypeOK
  <2> QED BY <1>6, <2>5, <2>6 DEF ApplyFetched, TypeOK
<1>7. ASSUME NEW c \in Clients, EndLoad(c) PROVE TypeOK' BY <1>7 DEF EndLoad, TypeOK
<1>8. ASSUME NEW c \in Clients, NEW a \in Aggregates, NEW v \in Vals, ApplyEvent(c, a, v)
      PROVE TypeOK'
  BY <1>8, ApplyEventType
<1>9. ASSUME NEW c \in Clients, Return(c) PROVE TypeOK' BY <1>9 DEF Return, TypeOK
<1>10. ASSUME NEW c \in Clients, InsertRow(c) PROVE TypeOK'
  BY <1>10 DEF InsertRow, TypeOK
<1>11. ASSUME NEW c \in Clients, InsertFails(c) \/ DeadlockVictim(c) \/ Abort(c)
       PROVE TypeOK'
  <2>1. Discard(c) /\ UNCHANGED <<aggregates, db>>
    BY <1>11 DEF InsertFails, DeadlockVictim, Abort
  <2> QED BY <2>1, DiscardType DEF TypeOK
<1>12. ASSUME NEW c \in Clients, Commit(c) PROVE TypeOK'
  <2>1. Discard(c) BY <1>12 DEF Commit
  <2>2. db' \in SUBSET (EventRow \cup SnapshotRow)
    BY <1>12, InsertedType DEF Commit, TypeOK, PhasesOK
  <2>3. aggregates' \in SUBSET Aggregates BY <1>12 DEF Commit, TypeOK
  <2> QED BY <2>1, <2>2, <2>3, DiscardType DEF TypeOK
<1> QED
  BY <1>1, <1>2, <1>3, <1>4, <1>5, <1>6, <1>7, <1>8, <1>9, <1>10, <1>11, <1>12 DEF Next

-----------------------------------------------------------------------------
(* Steps that leave the tables and the captured batches alone               *)

\* What Begin, Return, EndLoad and a stuttering step have in common.
LEMMA QuietStep ==
  ASSUME IndInv, TypeOK', PhasesOK',
         UNCHANGED <<objects, captured, staged, written, db>>,
         \A d \in Clients : phase'[d] = "applying" =>
           phase[d] = "applying" /\ target'[d] = target[d] /\ fetched'[d] = fetched[d]
  PROVE  IndInv'
<1>1. KeysUnique' /\ NoLostUpdate' /\ SnapshotsAreReplays'
  BY DEF IndInv, KeysUnique, NoLostUpdate, SnapshotsAreReplays
<1>2. ObjectsAreReplays' /\ CapturedAreReplays'
  BY DEF IndInv, ObjectsAreReplays, CapturedAreReplays
<1>3. StagedMatch' BY DEF IndInv, StagedMatch
<1>4. FetchedContinues'
  <2> SUFFICES ASSUME NEW d \in Clients, phase'[d] = "applying"
               PROVE  /\ fetched'[d] \subseteq {r \in db' : r.table = "events" /\ r.agg = target'[d]}
                      /\ Continue(fetched'[d], objects'[d][target'[d]].seq)
    BY DEF FetchedContinues
  <2>1. phase[d] = "applying" /\ target'[d] = target[d] /\ fetched'[d] = fetched[d]
    OBVIOUS
  <2> QED BY <2>1 DEF IndInv, FetchedContinues, EventsOf
<1>5. PendingExclusive' BY DEF IndInv, PendingExclusive, Row
<1> QED BY <1>1, <1>2, <1>3, <1>4, <1>5 DEF IndInv

\* An object of c changes, the tables and the captured batches do not.
LEMMA ObjectStep ==
  ASSUME IndInv, TypeOK', PhasesOK', FetchedContinues',
         UNCHANGED <<captured, staged, written, db>>,
         NEW c \in Clients, NEW a \in Aggregates, NEW o \in Object,
         objects' = [objects EXCEPT ![c][a] = o],
         Len(o.state) = o.seq, IsReplay(db \cup Range(captured[c]), a, o.state)
  PROVE  IndInv'
<1>1. KeysUnique' /\ NoLostUpdate' /\ SnapshotsAreReplays'
  BY DEF IndInv, KeysUnique, NoLostUpdate, SnapshotsAreReplays
<1>2. CapturedAreReplays' BY DEF IndInv, CapturedAreReplays
<1>3. ObjectsAreReplays'
  <2> SUFFICES ASSUME NEW d \in Clients, NEW b \in Aggregates, objects'[d][b] # NoObject
               PROVE  /\ Len(objects'[d][b].state) = objects'[d][b].seq
                      /\ IsReplay(db \cup Range(captured[d]), b, objects'[d][b].state)
    BY DEF ObjectsAreReplays
  <2>1. CASE d = c /\ b = a BY <2>1 DEF IndInv, TypeOK
  <2>2. CASE ~(d = c /\ b = a)
    <3>1. objects'[d][b] = objects[d][b] BY <2>2 DEF IndInv, TypeOK
    <3> QED BY <3>1 DEF IndInv, ObjectsAreReplays
  <2> QED BY <2>1, <2>2
<1>4. StagedMatch' BY DEF IndInv, StagedMatch
<1>5. PendingExclusive' BY DEF IndInv, PendingExclusive, Row
<1> QED BY <1>1, <1>2, <1>3, <1>4, <1>5 DEF IndInv

\* A new aggregate is the replay of no event at all.
LEMMA CreateAggregateInv ==
  ASSUME IndInv, TypeOK', NEW c \in Clients, NEW a \in Aggregates, CreateAggregate(c, a)
  PROVE  IndInv'
<1>1. objects' = [objects EXCEPT ![c][a] = Fresh] BY DEF CreateAggregate
<1>2. PhasesOK'
  BY <1>1, FreshType DEF IndInv, PhasesOK, TypeOK, CreateAggregate, BatchSize
<1>3. FetchedContinues'
  BY <1>1 DEF IndInv, FetchedContinues, TypeOK, CreateAggregate
<1>4. Len(Fresh.state) = Fresh.seq /\ IsReplay(db \cup Range(captured[c]), a, Fresh.state)
  BY DEF Fresh, IsReplay
<1>5. UNCHANGED <<captured, staged, written, db>> BY DEF CreateAggregate
<1> QED BY <1>1, <1>2, <1>3, <1>4, <1>5, FreshType, ObjectStep

\* A loaded object starts as a stored snapshot, which is a replay, or empty:
\* loadState keeps the invariant.
LEMMA LoadSnapshotInv ==
  ASSUME IndInv, TypeOK', NEW c \in Clients, NEW a \in Aggregates, LoadSnapshot(c, a)
  PROVE  IndInv'
<1>1. PICK o \in Object :
        /\ objects' = [objects EXCEPT ![c][a] = o]
        /\ Len(o.state) = o.seq /\ IsReplay(db \cup Range(captured[c]), a, o.state)
  <2>1. CASE objects' = [objects EXCEPT ![c][a] = Fresh]
    <3>1. Len(Fresh.state) = Fresh.seq /\ IsReplay(db \cup Range(captured[c]), a, Fresh.state)
      BY DEF Fresh, IsReplay
    <3> QED BY <2>1, <3>1, FreshType
  <2>2. ASSUME NEW s \in SnapshotsOf(a),
               objects' = [objects EXCEPT ![c][a] = [seq |-> s.seq, state |-> s.state]]
        PROVE  \E o \in Object :
                 /\ objects' = [objects EXCEPT ![c][a] = o]
                 /\ Len(o.state) = o.seq /\ IsReplay(db \cup Range(captured[c]), a, o.state)
    <3>1. s \in SnapshotRow /\ s \in db /\ s.table = "snapshots" /\ s.agg = a
      BY DEF IndInv, SnapshotsOf, TypeOK, EventRow, SnapshotRow
    <3>2. [seq |-> s.seq, state |-> s.state] \in Object BY <3>1 DEF SnapshotRow, Object
    <3>3. Len(s.state) = s.seq /\ IsReplay(db, a, s.state)
      BY <3>1 DEF IndInv, SnapshotsAreReplays
    <3>4. IsReplay(db \cup Range(captured[c]), a, s.state) BY <3>3, ReplayMonotone
    <3> WITNESS [seq |-> s.seq, state |-> s.state] \in Object
    <3> QED BY <2>2, <3>3, <3>4
  <2> QED BY <2>1, <2>2 DEF LoadSnapshot
<1>2. PhasesOK'
  BY <1>1, ObjectNotNone DEF IndInv, PhasesOK, TypeOK, LoadSnapshot, BatchSize
<1>3. FetchedContinues'
  BY <1>1 DEF IndInv, FetchedContinues, TypeOK, LoadSnapshot
<1>4. UNCHANGED <<captured, staged, written, db>> BY DEF LoadSnapshot
<1> QED BY <1>1, <1>2, <1>3, <1>4, ObjectStep

\* A stream has all rows up to any of its rows.
LEMMA StreamsHaveNoGaps ==
  ASSUME IndInv, NEW r \in db, r.table = "events", NEW i \in 1 .. r.seq
  PROVE  \E s \in db : s.table = "events" /\ s.agg = r.agg /\ s.seq = i
<1>1. r \in EventRow BY DEF IndInv, TypeOK, EventRow, SnapshotRow
<1>2. Len(r.base) = r.seq - 1 /\ IsReplay(db, r.agg, r.base)
  BY DEF IndInv, NoLostUpdate
<1>3. CASE i = r.seq BY <1>3
<1>4. CASE i # r.seq
  <2>1. i \in 1 .. Len(r.base) BY <1>1, <1>2, <1>4 DEF EventRow
  <2> QED BY <1>2, <2>1 DEF IsReplay, Holds
<1> QED BY <1>3, <1>4

\* What loadEvents returns starts right after the object's sequence, although the
\* snapshot was read by an earlier statement.
LEMMA LoadEventsInv ==
  ASSUME IndInv, TypeOK', NEW c \in Clients, LoadEvents(c)
  PROVE  IndInv'
<1> DEFINE a == target[c]
           n == objects[c][a].seq
<1>1. a \in Aggregates /\ objects[c][a] # NoObject
  BY DEF LoadEvents, IndInv, PhasesOK
<1>2. n \in Nat BY <1>1 DEF IndInv, TypeOK, Object
<1>3. fetched'[c] = {r \in EventsOf(a) : r.seq > n} BY DEF LoadEvents, IndInv, TypeOK, EventsAfter
<1>4. \A r \in fetched'[c] : \A i \in (n + 1) .. r.seq : \E s \in fetched'[c] : s.seq = i
  <2> SUFFICES ASSUME NEW r \in EventsOf(a), NEW i \in (n + 1) .. r.seq
               PROVE  \E s \in EventsOf(a) : s.seq > n /\ s.seq = i
    BY <1>3
  <2>1. r \in db /\ r.table = "events" /\ r.agg = a BY DEF EventsOf
  <2>2. r.seq \in Nat BY <2>1 DEF IndInv, TypeOK, EventRow, SnapshotRow
  <2>3. i \in 1 .. r.seq /\ i > n BY <1>2, <2>2
  <2>4. PICK s \in db : s.table = "events" /\ s.agg = r.agg /\ s.seq = i
    BY <2>1, <2>3, StreamsHaveNoGaps
  <2> QED BY <2>1, <2>3, <2>4 DEF EventsOf
<1>5. PhasesOK' BY <1>1 DEF IndInv, PhasesOK, TypeOK, LoadEvents, BatchSize
<1>6. FetchedContinues'
  <2> SUFFICES ASSUME NEW d \in Clients, phase'[d] = "applying"
               PROVE  /\ fetched'[d] \subseteq {r \in db' : r.table = "events" /\ r.agg = target'[d]}
                      /\ Continue(fetched'[d], objects'[d][target'[d]].seq)
    BY DEF FetchedContinues
  <2>0. UNCHANGED <<objects, target, db>> BY DEF LoadEvents
  <2>1. CASE d = c BY <1>3, <1>4, <2>0, <2>1 DEF EventsOf, Continue
  <2>2. CASE d # c
    <3>1. phase[d] = "applying" /\ fetched'[d] = fetched[d]
      BY <2>2 DEF LoadEvents, IndInv, TypeOK
    <3> QED BY <2>0, <3>1 DEF IndInv, FetchedContinues, EventsOf
  <2> QED BY <2>1, <2>2
<1>7. UNCHANGED <<objects, captured, staged, written, db>> BY DEF LoadEvents
<1>8. KeysUnique' /\ NoLostUpdate' /\ SnapshotsAreReplays'
  BY <1>7 DEF IndInv, KeysUnique, NoLostUpdate, SnapshotsAreReplays
<1>9. ObjectsAreReplays' /\ CapturedAreReplays'
  BY <1>7 DEF IndInv, ObjectsAreReplays, CapturedAreReplays
<1>10. StagedMatch' /\ PendingExclusive'
  BY <1>7 DEF IndInv, StagedMatch, PendingExclusive, Row
<1> QED BY <1>5, <1>6, <1>8, <1>9, <1>10 DEF IndInv

\* Applying the first row loadEvents returned makes a replay one event longer.
LEMMA ApplyFetchedInv ==
  ASSUME IndInv, TypeOK', NEW c \in Clients, ApplyFetched(c)
  PROVE  IndInv'
<1> DEFINE a == target[c]
           o == objects[c][a]
<1>1. PICK r \in fetched[c] :
        /\ \A s \in fetched[c] : r.seq <= s.seq
        /\ fetched' = [fetched EXCEPT ![c] = @ \ {r}]
        /\ objects' = [objects EXCEPT ![c][target[c]] =
                         [seq |-> r.seq, state |-> Append(@.state, r.val)]]
  BY DEF ApplyFetched
<1> DEFINE new == [seq |-> r.seq, state |-> Append(o.state, r.val)]
<1>2. a \in Aggregates /\ o # NoObject /\ o \in Object
  BY DEF ApplyFetched, IndInv, PhasesOK, TypeOK
<1>3. /\ fetched[c] \subseteq {x \in db : x.table = "events" /\ x.agg = a}
      /\ Continue(fetched[c], o.seq)
      /\ fetched[c] \subseteq EventRow
  BY DEF ApplyFetched, IndInv, FetchedContinues, TypeOK
<1>4. r.seq = o.seq + 1
  <2>1. r.seq \in Nat /\ o.seq \in Nat /\ r.seq > o.seq
    BY <1>2, <1>3 DEF EventRow, Object, Continue
  <2>2. PICK s \in fetched[c] : s.seq = o.seq + 1 BY <1>3, <2>1 DEF Continue
  <2> QED BY <1>1, <2>1, <2>2
<1>5. new \in Object BY <1>2, <1>3 DEF Object, EventRow, State
<1>6. Len(o.state) = o.seq /\ IsReplay(db \cup Range(captured[c]), a, o.state)
  BY <1>2 DEF IndInv, ObjectsAreReplays
<1>7. Len(new.state) = new.seq /\ IsReplay(db \cup Range(captured[c]), a, new.state)
  <2>1. Holds(db \cup Range(captured[c]), a, Len(o.state) + 1, r.val)
    BY <1>3, <1>4, <1>6 DEF Holds
  <2>2. o.state \in State /\ r.val \in Vals BY <1>2, <1>3 DEF Object, EventRow
  <2>3. IsReplay(db \cup Range(captured[c]), a, Append(o.state, r.val))
    BY <1>6, <2>1, <2>2, ReplayAppend
  <2>4. Len(Append(o.state, r.val)) = Len(o.state) + 1 BY <2>2 DEF State
  <2> QED BY <1>4, <1>6, <2>3, <2>4
<1>8. objects' = [objects EXCEPT ![c][a] = new] BY <1>1
<1>9. PhasesOK'
  <2>1. new # NoObject BY <1>5, ObjectNotNone
  <2>2. ASSUME NEW d \in Clients, phase'[d] \in {"loading", "applying"}
        PROVE  target'[d] \in Aggregates /\ objects'[d][target'[d]] # NoObject
    <3> HIDE DEF new
    <3>1. target[d] \in Aggregates /\ objects[d][target[d]] # NoObject
      BY <2>2 DEF ApplyFetched, IndInv, PhasesOK
    <3>2. objects'[d][target[d]] = new \/ objects'[d][target[d]] = objects[d][target[d]]
      BY <1>2, <1>8, <3>1 DEF IndInv, TypeOK
    <3> QED BY <2>1, <3>1, <3>2 DEF ApplyFetched
  <2>3. UNCHANGED <<phase, written, captured, staged>> BY DEF ApplyFetched
  <2> QED BY <2>2, <2>3 DEF IndInv, PhasesOK, BatchSize
<1>10. FetchedContinues'
  <2> SUFFICES ASSUME NEW d \in Clients, phase'[d] = "applying"
               PROVE  /\ fetched'[d] \subseteq {x \in db' : x.table = "events" /\ x.agg = target'[d]}
                      /\ Continue(fetched'[d], objects'[d][target'[d]].seq)
    BY DEF FetchedContinues
  <2>0. UNCHANGED <<phase, target, db>> BY DEF ApplyFetched
  <2>1. CASE d = c
    <3>1. fetched'[c] = fetched[c] \ {r} BY <1>1 DEF IndInv, TypeOK
    <3>2. objects'[c][target'[c]].seq = r.seq BY <1>2, <1>8, <2>0 DEF IndInv, TypeOK
    <3>3. Continue(fetched[c] \ {r}, r.seq)
      <4> SUFFICES ASSUME NEW s \in fetched[c] \ {r}
                   PROVE  /\ s.seq > r.seq
                          /\ \A i \in (r.seq + 1) .. s.seq :
                               \E t \in fetched[c] \ {r} : t.seq = i
        BY DEF Continue
      <4>1. s.seq \in Nat /\ r.seq \in Nat /\ o.seq \in Nat
        BY <1>2, <1>3 DEF EventRow, Object
      <4>2. s.seq # r.seq BY <1>3 DEF IndInv, KeysUnique, SameKey
      <4>3. s.seq > r.seq BY <1>1, <4>1, <4>2
      <4>4. ASSUME NEW i \in (r.seq + 1) .. s.seq
            PROVE  \E t \in fetched[c] \ {r} : t.seq = i
        <5>1. i \in (o.seq + 1) .. s.seq /\ i # r.seq BY <1>4, <4>1
        <5>2. PICK t \in fetched[c] : t.seq = i BY <1>3, <5>1 DEF Continue
        <5> QED BY <5>1, <5>2
      <4> QED BY <4>3, <4>4
    <3> QED BY <1>3, <2>0, <2>1, <3>1, <3>2, <3>3
  <2>2. CASE d # c
    <3>1. fetched'[d] = fetched[d] /\ objects'[d] = objects[d]
      BY <1>1, <2>2 DEF IndInv, TypeOK
    <3> QED BY <2>0, <3>1 DEF IndInv, FetchedContinues
  <2> QED BY <2>1, <2>2
<1>11. UNCHANGED <<captured, staged, written, db>> BY DEF ApplyFetched
<1> QED BY <1>2, <1>5, <1>7, <1>8, <1>9, <1>10, <1>11, ObjectStep

-----------------------------------------------------------------------------
(* ApplyEvent                                                               *)

\* Capturing an event adds exactly that event to the captured ones.
LEMMA RangeAppend ==
  ASSUME NEW S, NEW q \in Seq(S), NEW e \in S
  PROVE  Range(Append(q, e)) = Range(q) \cup {e}
<1>1. DOMAIN Append(q, e) = 1 .. (Len(q) + 1) /\ DOMAIN q = 1 .. Len(q) /\ Len(q) \in Nat
  OBVIOUS
<1>2. /\ \A i \in 1 .. Len(q) : Append(q, e)[i] = q[i]
      /\ Append(q, e)[Len(q) + 1] = e
  OBVIOUS
<1>3. \A x \in Range(q) \cup {e} : x \in Range(Append(q, e))
  BY <1>1, <1>2 DEF Range
<1>4. \A x \in Range(Append(q, e)) : x \in Range(q) \cup {e}
  <2> SUFFICES ASSUME NEW i \in 1 .. (Len(q) + 1) PROVE Append(q, e)[i] \in Range(q) \cup {e}
    BY <1>1 DEF Range
  <2>1. CASE i = Len(q) + 1 BY <1>2, <2>1
  <2>2. CASE i \in 1 .. Len(q) BY <1>1, <1>2, <2>2 DEF Range
  <2> QED BY <1>1, <2>1, <2>2
<1> QED BY <1>3, <1>4

\* Staging event e's snapshot s, or not staging it, keeps events and snapshots paired.
LEMMA StagedAppend ==
  ASSUME NEW q \in Seq(EventRow), NEW t \in Seq(SnapshotRow), StagedFrom(q, t),
         NEW e \in EventRow, NEW s \in SnapshotRow,
         Matches(e, s), s.state = Append(e.base, e.val)
  PROVE  StagedFrom(Append(q, e), t) /\ StagedFrom(Append(q, e), Append(t, s))
<1> DEFINE qq == Append(q, e)
           tt == Append(t, s)
           m == Len(q)
           n == Len(t)
<1>1. /\ m \in Nat /\ n \in Nat /\ Len(qq) = m + 1 /\ Len(tt) = n + 1
      /\ \A i \in 1 .. m : qq[i] = q[i]
      /\ \A i \in 1 .. n : tt[i] = t[i]
      /\ qq[m + 1] = e /\ tt[n + 1] = s
  OBVIOUS
<1>3. ASSUME NEW j \in 1 .. (n + 1)
      PROVE  \E i \in 1 .. (m + 1) :
               Matches(qq[i], tt[j]) /\ tt[j].state = Append(qq[i].base, qq[i].val)
  <2>1. CASE j = n + 1
    <3>1. m + 1 \in 1 .. (m + 1) /\ qq[m + 1] = e /\ tt[j] = s BY <1>1, <2>1
    <3> HIDE DEF qq, tt
    <3> QED BY <3>1
  <2>2. CASE j # n + 1
    <3>1. j \in 1 .. n BY <1>1, <2>2
    <3>2. PICK i \in 1 .. m : Matches(q[i], t[j]) /\ t[j].state = Append(q[i].base, q[i].val)
      BY <3>1 DEF StagedFrom
    <3>3. i \in 1 .. (m + 1) /\ qq[i] = q[i] /\ tt[j] = t[j] BY <1>1, <3>1, <3>2
    <3> HIDE DEF qq, tt
    <3> QED BY <3>2, <3>3
  <2> QED BY <2>1, <2>2
<1>4. ASSUME NEW k \in 1 .. n, SameKey(s, t[k])
      PROVE  \E p, r \in 1 .. (m + 1) : p # r /\ Matches(qq[p], s) /\ Matches(qq[r], s)
  <2>1. PICK i \in 1 .. m : Matches(q[i], t[k]) BY DEF StagedFrom
  <2>2. Matches(qq[i], s) BY <1>1, <1>4, <2>1 DEF Matches, SameKey
  <2>3. Matches(qq[m + 1], s) BY <1>1
  <2>4. i \in 1 .. (m + 1) /\ m + 1 \in 1 .. (m + 1) /\ i # m + 1 BY <1>1, <2>1
  <2> QED BY <2>2, <2>3, <2>4
<1>5. ASSUME NEW j \in 1 .. (n + 1), NEW k \in 1 .. (n + 1), k # j, SameKey(tt[j], tt[k])
      PROVE  \E p, r \in 1 .. (m + 1) :
               p # r /\ Matches(qq[p], tt[j]) /\ Matches(qq[r], tt[j])
  <2>1. CASE j = n + 1
    <3>1. k \in 1 .. n BY <1>1, <1>5, <2>1
    <3> QED BY <1>1, <1>4, <1>5, <2>1, <3>1
  <2>2. CASE k = n + 1
    <3>1. j \in 1 .. n /\ tt[j] = t[j] /\ tt[k] = s BY <1>1, <1>5, <2>2
    <3>2. SameKey(s, t[j]) BY <1>5, <3>1 DEF SameKey
    <3>3. \A x : Matches(x, s) => Matches(x, t[j]) BY <3>2 DEF Matches, SameKey
    <3> QED BY <1>4, <3>1, <3>2, <3>3
  <2>3. CASE j # n + 1 /\ k # n + 1
    <3>1. j \in 1 .. n /\ k \in 1 .. n BY <1>1, <2>3
    <3>2. PICK p, r \in 1 .. m : p # r /\ Matches(q[p], t[j]) /\ Matches(q[r], t[j])
      BY <1>1, <1>5, <3>1 DEF StagedFrom
    <3>3. p \in 1 .. (m + 1) /\ r \in 1 .. (m + 1) BY <1>1, <3>2
    <3> QED BY <1>1, <3>1, <3>2, <3>3
  <2> QED BY <2>1, <2>2, <2>3
<1>6. StagedFrom(qq, tt) BY <1>1, <1>3, <1>5 DEF StagedFrom
<1>7. StagedFrom(qq, t)
  <2>1. \A j \in 1 .. n : j \in 1 .. (n + 1) /\ tt[j] = t[j] BY <1>1
  <2>2. ASSUME NEW j \in 1 .. n
        PROVE  \E i \in 1 .. (m + 1) :
                 Matches(qq[i], t[j]) /\ t[j].state = Append(qq[i].base, qq[i].val)
    <3>1. j \in 1 .. (n + 1) /\ tt[j] = t[j] BY <2>1
    <3> HIDE DEF qq, tt
    <3> QED BY <1>3, <3>1
  <2>3. ASSUME NEW j \in 1 .. n, NEW k \in 1 .. n, k # j, SameKey(t[j], t[k])
        PROVE  \E p, r \in 1 .. (m + 1) :
                 p # r /\ Matches(qq[p], t[j]) /\ Matches(qq[r], t[j])
    <3>1. /\ j \in 1 .. (n + 1) /\ tt[j] = t[j]
          /\ k \in 1 .. (n + 1) /\ tt[k] = t[k]
      BY <2>1
    <3> HIDE DEF qq, tt
    <3> QED BY <1>5, <2>3, <3>1
  <2>4. Len(qq) = m + 1 BY <1>1
  <2> HIDE DEF qq, tt
  <2> QED BY <2>2, <2>3, <2>4 DEF StagedFrom
<1> QED BY <1>6, <1>7

\* ApplyEventTo keeps the invariant: the event's base, the snapshot and the new
\* state are all replays of what is committed and captured.
LEMMA ApplyEventInv ==
  ASSUME IndInv, TypeOK', NEW c \in Clients, NEW a \in Aggregates, NEW v \in Vals,
         ApplyEvent(c, a, v)
  PROVE  IndInv'
<1> DEFINE o == objects[c][a]
           e == EventFor(a, o, v)
           s == SnapshotFor(a, o, v)
           new == Applied(o, v)
           n == Len(captured[c])
<1>1. /\ phase[c] = "callback" /\ o # NoObject
      /\ objects' = [objects EXCEPT ![c][a] = new]
      /\ captured' = [captured EXCEPT ![c] = Append(captured[c], e)]
      /\ staged' = [staged EXCEPT ![c] = Append(staged[c], s)] \/ staged' = staged
      /\ UNCHANGED <<phase, target, fetched, written, db>>
  BY DEF ApplyEvent
<1>2. o \in Object /\ o.seq \in Nat /\ o.state \in State
  BY <1>1 DEF IndInv, TypeOK, Object
<1>3. Len(o.state) = o.seq /\ IsReplay(db \cup Range(captured[c]), a, o.state)
  BY <1>1 DEF IndInv, ObjectsAreReplays
<1>4. e \in EventRow /\ s \in SnapshotRow /\ new \in Object
  BY <1>2 DEF EventRow, SnapshotRow, Object, State, EventFor, SnapshotFor, Applied
<1>5. /\ e.table = "events" /\ e.agg = a /\ e.seq = o.seq + 1 /\ e.val = v
      /\ e.base = o.state
      /\ s.table = "snapshots" /\ s.agg = a /\ s.seq = o.seq + 1
      /\ s.state = Append(o.state, v)
      /\ new.seq = o.seq + 1 /\ new.state = Append(o.state, v)
  BY DEF EventFor, SnapshotFor, Applied
<1> HIDE DEF e, s, new
<1>6. captured[c] \in Seq(EventRow) /\ staged[c] \in Seq(SnapshotRow) /\ n \in Nat
  BY DEF IndInv, TypeOK
<1>7. /\ captured'[c] = Append(captured[c], e)
      /\ \A d \in Clients : d # c => captured'[d] = captured[d] /\ staged'[d] = staged[d]
      /\ staged'[c] = Append(staged[c], s) \/ staged'[c] = staged[c]
  BY <1>1 DEF IndInv, TypeOK
<1>8. Range(captured'[c]) = Range(captured[c]) \cup {e}
  BY <1>4, <1>6, <1>7, RangeAppend
<1>9. IsReplay(db \cup Range(captured'[c]), a, o.state)
  BY <1>3, <1>8, ReplayMonotone
<1>10. Len(new.state) = new.seq /\ IsReplay(db \cup Range(captured'[c]), a, new.state)
  <2>1. Holds(db \cup Range(captured'[c]), a, Len(o.state) + 1, v)
    BY <1>3, <1>5, <1>8 DEF Holds
  <2>2. Len(Append(o.state, v)) = Len(o.state) + 1 BY <1>2 DEF State
  <2> QED BY <1>2, <1>3, <1>5, <1>9, <2>1, <2>2, ReplayAppend
<1>11. ASSUME NEW d \in Clients PROVE db \cup Range(captured[d]) \subseteq db \cup Range(captured'[d])
  BY <1>7, <1>8
<1>12. KeysUnique' /\ NoLostUpdate' /\ SnapshotsAreReplays'
  BY <1>1 DEF IndInv, KeysUnique, NoLostUpdate, SnapshotsAreReplays
<1>13. PhasesOK'
  <2>1. new # NoObject BY <1>4, ObjectNotNone
  <2>2. ASSUME NEW d \in Clients, phase'[d] \in {"loading", "applying"}
        PROVE  target'[d] \in Aggregates /\ objects'[d][target'[d]] # NoObject
    <3>1. d # c /\ objects'[d] = objects[d] BY <1>1, <2>2 DEF IndInv, TypeOK
    <3> QED BY <1>1, <2>2, <3>1 DEF IndInv, PhasesOK
  <2>3. ASSUME NEW d \in Clients, phase'[d] # "saving" PROVE written'[d] = 0
    BY <1>1, <2>3 DEF IndInv, PhasesOK
  <2>4. ASSUME NEW d \in Clients PROVE written'[d] <= BatchSize(d)'
    <3>1. CASE d = c
      <4>1. written'[c] = 0 BY <1>1 DEF IndInv, PhasesOK
      <4>2. Len(captured'[c]) \in Nat /\ Len(staged'[c]) \in Nat BY DEF TypeOK
      <4>3. 0 <= Len(captured'[c]) + Len(staged'[c])
        <5>1. \A x, y \in Nat : 0 <= x + y OBVIOUS
        <5> QED BY <4>2, <5>1
      <4>4. written'[c] <= BatchSize(c)' BY <4>1, <4>3 DEF BatchSize
      <4> QED BY <3>1, <4>4
    <3>2. CASE d # c
      <4>1. /\ written'[d] = written[d] /\ captured'[d] = captured[d]
            /\ staged'[d] = staged[d]
        BY <1>1, <1>7, <3>2
      <4> QED BY <4>1 DEF IndInv, PhasesOK, BatchSize
    <3> QED BY <3>1, <3>2
  <2> QED BY <2>2, <2>3, <2>4 DEF PhasesOK
<1>14. ObjectsAreReplays'
  <2> SUFFICES ASSUME NEW d \in Clients, NEW b \in Aggregates, objects'[d][b] # NoObject
               PROVE  /\ Len(objects'[d][b].state) = objects'[d][b].seq
                      /\ IsReplay(db \cup Range(captured'[d]), b, objects'[d][b].state)
    BY <1>1 DEF ObjectsAreReplays
  <2>1. CASE d = c /\ b = a BY <1>1, <1>10, <2>1 DEF IndInv, TypeOK
  <2>2. CASE ~(d = c /\ b = a)
    <3>1. objects'[d][b] = objects[d][b] BY <1>1, <2>2 DEF IndInv, TypeOK
    <3>2. /\ Len(objects[d][b].state) = objects[d][b].seq
          /\ IsReplay(db \cup Range(captured[d]), b, objects[d][b].state)
      BY <3>1 DEF IndInv, ObjectsAreReplays
    <3> QED BY <1>11, <3>1, <3>2, ReplayMonotone
  <2> QED BY <2>1, <2>2
<1>15. CapturedAreReplays'
  <2> SUFFICES ASSUME NEW d \in Clients, NEW i \in 1 .. Len(captured'[d])
               PROVE  /\ Len(captured'[d][i].base) = captured'[d][i].seq - 1
                      /\ IsReplay(db \cup Range(captured'[d]), captured'[d][i].agg,
                                  captured'[d][i].base)
    BY <1>1 DEF CapturedAreReplays
  <2>1. CASE d = c /\ i = n + 1
    <3>1. captured'[d][i] = e BY <1>6, <1>7, <2>1
    <3> QED BY <1>2, <1>3, <1>5, <1>9, <2>1, <3>1
  <2>2. CASE ~(d = c /\ i = n + 1)
    <3>1. i \in 1 .. Len(captured[d]) /\ captured'[d][i] = captured[d][i]
      BY <1>6, <1>7, <2>2
    <3>2. /\ Len(captured[d][i].base) = captured[d][i].seq - 1
          /\ IsReplay(db \cup Range(captured[d]), captured[d][i].agg, captured[d][i].base)
      BY <3>1 DEF IndInv, CapturedAreReplays
    <3> QED BY <1>11, <3>1, <3>2, ReplayMonotone
  <2> QED BY <2>1, <2>2
<1>16. StagedMatch'
  <2>1. StagedFrom(captured[c], staged[c]) BY DEF IndInv, StagedMatch
  <2>2. Matches(e, s) /\ s.state = Append(e.base, e.val) BY <1>5 DEF Matches
  <2>3. StagedFrom(captured'[c], staged'[c])
    BY <1>4, <1>6, <1>7, <2>1, <2>2, StagedAppend
  <2> QED BY <1>7, <2>3 DEF IndInv, StagedMatch
<1>17. FetchedContinues'
  <2> SUFFICES ASSUME NEW d \in Clients, phase'[d] = "applying"
               PROVE  /\ fetched'[d] \subseteq {x \in db' : x.table = "events" /\ x.agg = target'[d]}
                      /\ Continue(fetched'[d], objects'[d][target'[d]].seq)
    BY DEF FetchedContinues
  <2>1. d # c /\ objects'[d] = objects[d] BY <1>1 DEF IndInv, TypeOK
  <2> QED BY <1>1, <2>1 DEF IndInv, FetchedContinues
<1>18. PendingExclusive'
  <2>1. \A d \in Clients : written'[d] = written[d] BY <1>1
  <2>2. written[c] = 0 BY <1>1 DEF IndInv, PhasesOK
  <2>3. \A d \in Clients : \A i \in 1 .. written[d] : Row(d, i)' = Row(d, i)
    <3> SUFFICES ASSUME NEW d \in Clients, NEW i \in 1 .. written[d] PROVE Row(d, i)' = Row(d, i)
      OBVIOUS
    <3>1. d # c BY <2>2
    <3>2. captured'[d] = captured[d] /\ staged'[d] = staged[d] BY <1>7, <3>1
    <3> QED BY <3>2 DEF Row
  <2>4. db' = db BY <1>1
  <2> QED BY <2>1, <2>3, <2>4 DEF IndInv, PendingExclusive
<1> QED
  BY <1>12, <1>13, <1>14, <1>15, <1>16, <1>17, <1>18 DEF IndInv

-----------------------------------------------------------------------------
(* SaveState                                                                *)

\* Which rows WriteState inserts first, and which then.
LEMMA RowCases ==
  ASSUME TypeOK, NEW c \in Clients, NEW i \in 1 .. BatchSize(c)
  PROVE  \/ /\ i \in 1 .. Len(captured[c]) /\ Row(c, i) = captured[c][i]
            /\ Row(c, i) \in EventRow /\ Row(c, i).table = "events"
         \/ /\ i > Len(captured[c])
            /\ i - Len(captured[c]) \in 1 .. Len(staged[c])
            /\ Row(c, i) = staged[c][i - Len(captured[c])]
            /\ Row(c, i) \in SnapshotRow /\ Row(c, i).table = "snapshots"
<1> DEFINE m == Len(captured[c])
           n == Len(staged[c])
<1>1. captured[c] \in Seq(EventRow) /\ staged[c] \in Seq(SnapshotRow) /\ m \in Nat /\ n \in Nat
  BY DEF TypeOK
<1>2. CASE i <= m
  <2>1. i \in 1 .. m BY <1>1, <1>2
  <2>2. captured[c][i] \in EventRow BY <1>1, <2>1
  <2> QED BY <1>2, <2>1, <2>2 DEF Row, EventRow
<1>3. CASE ~(i <= m)
  <2>1. i \in 1 .. (m + n) BY DEF BatchSize
  <2> HIDE DEF m, n
  <2>2. i - m \in 1 .. n /\ i > m BY <1>1, <1>3, <2>1
  <2>3. staged[c][i - m] \in SnapshotRow BY <1>1, <2>2 DEF n
  <2>4. Row(c, i) = staged[c][i - m] BY <1>3 DEF Row, m
  <2> QED BY <2>2, <2>3, <2>4 DEF SnapshotRow, m, n
<1> QED BY <1>2, <1>3

\* An INSERT that neither fails nor waits takes a key nobody else has, committed
\* or not.
LEMMA InsertRowInv ==
  ASSUME IndInv, TypeOK', NEW c \in Clients, InsertRow(c)
  PROVE  IndInv'
<1> DEFINE w == written[c]
<1>1. /\ phase[c] = "saving" /\ w < BatchSize(c) /\ w \in Nat
      /\ ~Taken(c)
      /\ \A d \in Clients : ~WaitsFor(c, d)
      /\ written' = [written EXCEPT ![c] = w + 1]
      /\ UNCHANGED <<phase, objects, target, fetched, captured, staged, db>>
  BY DEF InsertRow, IndInv, TypeOK
<1>2. BatchSize(c) \in Nat
  <2>1. Len(captured[c]) \in Nat /\ Len(staged[c]) \in Nat BY DEF IndInv, TypeOK
  <2>2. \A x, y \in Nat : x + y \in Nat OBVIOUS
  <2> QED BY <2>1, <2>2 DEF BatchSize
<1>3. PhasesOK'
  <2>1. ASSUME NEW d \in Clients PROVE written'[d] <= BatchSize(d)
    <3>1. written'[d] = IF d = c THEN w + 1 ELSE written[d] BY <1>1 DEF IndInv, TypeOK
    <3>2. w + 1 <= BatchSize(c) BY <1>1, <1>2
    <3> QED BY <3>1, <3>2 DEF IndInv, PhasesOK
  <2>2. ASSUME NEW d \in Clients, phase[d] # "saving" PROVE written'[d] = 0
    BY <1>1, <2>2 DEF IndInv, PhasesOK, TypeOK
  <2> QED BY <1>1, <2>1, <2>2 DEF IndInv, PhasesOK, BatchSize
<1>4. PendingExclusive'
  <2> DEFINE new == NextRow(c)
  <2>1. /\ \A d \in Clients : d # c => written'[d] = written[d]
        /\ written'[c] = w + 1
        /\ \A d \in Clients, i \in Int : Row(d, i)' = Row(d, i)
    BY <1>1 DEF IndInv, TypeOK, Row
  <2>2. new = Row(c, w + 1) BY DEF NextRow
  <2> HIDE DEF new
  <2>3. \A r \in db : ~SameKey(new, r) /\ ~SameKey(r, new)
    BY <1>1 DEF Taken, SameKey, new
  <2>4. \A i \in 1 .. w : ~SameKey(new, Row(c, i)) /\ ~SameKey(Row(c, i), new)
    BY <1>1 DEF Taken, SameKey, Inserted, new
  <2>5. \A d \in Clients : d # c =>
          \A i \in 1 .. written[d] : ~SameKey(new, Row(d, i)) /\ ~SameKey(Row(d, i), new)
    BY <1>1 DEF WaitsFor, SameKey, Inserted, new
  <2>6. \A i \in 1 .. (w + 1) : i \in 1 .. w \/ i = w + 1 BY <1>1
  <2>7. \A d \in Clients : \A i \in 1 .. written'[d] :
          i \in Int /\ (i \in 1 .. written[d] \/ (d = c /\ Row(d, i) = new))
    BY <2>1, <2>2, <2>6
  <2>8. \A d \in Clients : \A i \in 1 .. written'[d] : \A r \in db : ~SameKey(Row(d, i), r)
    BY <2>3, <2>7 DEF IndInv, PendingExclusive
  <2>9. ASSUME NEW d \in Clients, NEW i \in 1 .. written'[d], NEW j \in 1 .. written'[d], i # j
        PROVE  ~SameKey(Row(d, i), Row(d, j))
    <3>1. CASE i \in 1 .. written[d] /\ j \in 1 .. written[d]
      BY <2>9, <3>1 DEF IndInv, PendingExclusive
    <3>2. CASE i \notin 1 .. written[d]
      <4>1. d = c /\ i = w + 1 /\ Row(d, i) = new BY <2>1, <2>2, <2>6, <2>7, <3>2
      <4>2. j \in 1 .. w BY <2>1, <2>6, <2>9, <4>1
      <4> QED BY <2>4, <4>1, <4>2
    <3>3. CASE j \notin 1 .. written[d]
      <4>1. d = c /\ j = w + 1 /\ Row(d, j) = new BY <2>1, <2>2, <2>6, <2>7, <3>3
      <4>2. i \in 1 .. w BY <2>1, <2>6, <2>9, <4>1
      <4> QED BY <2>4, <4>1, <4>2
    <3> QED BY <3>1, <3>2, <3>3
  <2>10. ASSUME NEW d \in Clients, NEW f \in Clients, d # f,
                NEW i \in 1 .. written'[d], NEW j \in 1 .. written'[f]
         PROVE  ~SameKey(Row(d, i), Row(f, j))
    <3>1. CASE d # c /\ f # c BY <2>1, <2>10, <3>1 DEF IndInv, PendingExclusive
    <3>2. CASE d = c
      <4>1. f # c /\ j \in 1 .. written[f] BY <2>1, <2>10, <3>2
      <4>2. CASE i \in 1 .. w BY <2>10, <3>2, <4>1, <4>2 DEF IndInv, PendingExclusive
      <4>3. CASE i \notin 1 .. w BY <2>5, <2>7, <3>2, <4>1, <4>3
      <4> QED BY <4>2, <4>3
    <3>3. CASE f = c
      <4>1. d # c /\ i \in 1 .. written[d] BY <2>1, <2>10, <3>3
      <4>2. CASE j \in 1 .. w BY <2>10, <3>3, <4>1, <4>2 DEF IndInv, PendingExclusive
      <4>3. CASE j \notin 1 .. w BY <2>5, <2>7, <3>3, <4>1, <4>3
      <4> QED BY <4>2, <4>3
    <3> QED BY <3>1, <3>2, <3>3
  <2>11. /\ \A d \in Clients : \A i \in 1 .. written'[d] : Row(d, i)' = Row(d, i)
         /\ db' = db
    BY <1>1, <2>1, <2>7
  <2> QED BY <2>8, <2>9, <2>10, <2>11 DEF PendingExclusive
<1>5. KeysUnique' /\ NoLostUpdate' /\ SnapshotsAreReplays'
  BY <1>1 DEF IndInv, KeysUnique, NoLostUpdate, SnapshotsAreReplays
<1>6. ObjectsAreReplays' /\ CapturedAreReplays'
  BY <1>1 DEF IndInv, ObjectsAreReplays, CapturedAreReplays
<1>7. StagedMatch' /\ FetchedContinues'
  BY <1>1 DEF IndInv, StagedMatch, FetchedContinues
<1> QED BY <1>3, <1>4, <1>5, <1>6, <1>7 DEF IndInv

\* The end of a context: its memory is gone, and the tables have at most grown.
LEMMA DiscardInv ==
  ASSUME IndInv, TypeOK', NEW c \in Clients, Discard(c), db \subseteq db',
         KeysUnique', NoLostUpdate', SnapshotsAreReplays',
         \A d \in Clients : d # c =>
           \A i \in 1 .. written[d] : \A r \in db' : ~SameKey(Row(d, i), r)
  PROVE  IndInv'
<1>1. /\ phase'[c] = "idle" /\ written'[c] = 0
      /\ objects'[c] = [a \in Aggregates |-> NoObject]
      /\ captured'[c] = <<>> /\ staged'[c] = <<>>
  BY DEF Discard, IndInv, TypeOK
<1>2. \A d \in Clients : d # c =>
        /\ phase'[d] = phase[d] /\ objects'[d] = objects[d] /\ target'[d] = target[d]
        /\ fetched'[d] = fetched[d] /\ captured'[d] = captured[d]
        /\ staged'[d] = staged[d] /\ written'[d] = written[d]
  BY DEF Discard, IndInv, TypeOK
<1>3. PhasesOK'
  <2> SUFFICES ASSUME NEW d \in Clients
               PROVE  /\ phase'[d] \in {"loading", "applying"} =>
                           target'[d] \in Aggregates /\ objects'[d][target'[d]] # NoObject
                      /\ phase'[d] # "saving" => written'[d] = 0
                      /\ written'[d] <= Len(captured'[d]) + Len(staged'[d])
    BY DEF PhasesOK, BatchSize
  <2>1. CASE d = c
    <3>1. Len(captured'[c]) = 0 /\ Len(staged'[c]) = 0 BY <1>1
    <3>2. written'[c] <= Len(captured'[c]) + Len(staged'[c]) BY <1>1, <3>1
    <3>3. phase'[c] = "idle" BY <1>1
    <3> QED BY <1>1, <2>1, <3>2, <3>3
  <2>2. CASE d # c
    <3>1. written'[d] <= Len(captured'[d]) + Len(staged'[d])
      BY <1>2, <2>2 DEF IndInv, PhasesOK, BatchSize
    <3> QED BY <1>2, <2>2, <3>1 DEF IndInv, PhasesOK
  <2> QED BY <2>1, <2>2
<1>4. ObjectsAreReplays'
  <2> SUFFICES ASSUME NEW d \in Clients, NEW b \in Aggregates, objects'[d][b] # NoObject
               PROVE  /\ Len(objects'[d][b].state) = objects'[d][b].seq
                      /\ IsReplay(db' \cup Range(captured'[d]), b, objects'[d][b].state)
    BY DEF ObjectsAreReplays
  <2>1. d # c BY <1>1
  <2>2. /\ Len(objects[d][b].state) = objects[d][b].seq
        /\ IsReplay(db \cup Range(captured[d]), b, objects[d][b].state)
    BY <1>2, <2>1 DEF IndInv, ObjectsAreReplays
  <2>3. db \cup Range(captured[d]) \subseteq db' \cup Range(captured'[d])
    BY <1>2, <2>1
  <2> QED BY <1>2, <2>1, <2>2, <2>3, ReplayMonotone
<1>5. CapturedAreReplays'
  <2> SUFFICES ASSUME NEW d \in Clients, NEW i \in 1 .. Len(captured'[d])
               PROVE  /\ Len(captured'[d][i].base) = captured'[d][i].seq - 1
                      /\ IsReplay(db' \cup Range(captured'[d]), captured'[d][i].agg,
                                  captured'[d][i].base)
    BY DEF CapturedAreReplays
  <2>1. d # c BY <1>1
  <2>2. /\ Len(captured[d][i].base) = captured[d][i].seq - 1
        /\ IsReplay(db \cup Range(captured[d]), captured[d][i].agg, captured[d][i].base)
    BY <1>2, <2>1 DEF IndInv, CapturedAreReplays
  <2>3. db \cup Range(captured[d]) \subseteq db' \cup Range(captured'[d])
    BY <1>2, <2>1
  <2> QED BY <1>2, <2>1, <2>2, <2>3, ReplayMonotone
<1>6. StagedMatch'
  <2>1. StagedFrom(captured'[c], staged'[c]) BY <1>1 DEF StagedFrom
  <2> QED BY <1>2, <2>1 DEF IndInv, StagedMatch
<1>7. FetchedContinues'
  <2> SUFFICES ASSUME NEW d \in Clients, phase'[d] = "applying"
               PROVE  /\ fetched'[d] \subseteq {x \in db' : x.table = "events" /\ x.agg = target'[d]}
                      /\ Continue(fetched'[d], objects'[d][target'[d]].seq)
    BY DEF FetchedContinues
  <2>1. d # c BY <1>1
  <2> QED BY <1>2, <2>1 DEF IndInv, FetchedContinues
<1>8. PendingExclusive'
  <2>1. 1 .. written'[c] = {} BY <1>1
  <2>2. ASSUME NEW d \in Clients, d # c, NEW i \in 1 .. written[d]
        PROVE  Row(d, i)' = Row(d, i)
    BY <1>2, <2>2 DEF Row
  <2>3. ASSUME NEW d \in Clients, NEW i \in 1 .. written'[d]
        PROVE  d # c /\ i \in 1 .. written[d] /\ Row(d, i)' = Row(d, i)
    <3>1. d # c BY <2>1
    <3>2. i \in 1 .. written[d] BY <1>2, <3>1
    <3> QED BY <2>2, <3>1, <3>2
  <2>4. ASSUME NEW d \in Clients, NEW i \in 1 .. written'[d], NEW r \in db'
        PROVE  ~SameKey(Row(d, i)', r)
    BY <2>3
  <2>5. ASSUME NEW d \in Clients, NEW i \in 1 .. written'[d], NEW j \in 1 .. written'[d], i # j
        PROVE  ~SameKey(Row(d, i)', Row(d, j)')
    <3>1. /\ Row(d, i)' = Row(d, i) /\ Row(d, j)' = Row(d, j)
          /\ i \in 1 .. written[d] /\ j \in 1 .. written[d]
      BY <2>3
    <3> QED BY <2>5, <3>1 DEF IndInv, PendingExclusive
  <2>6. ASSUME NEW d \in Clients, NEW f \in Clients, d # f,
               NEW i \in 1 .. written'[d], NEW j \in 1 .. written'[f]
        PROVE  ~SameKey(Row(d, i)', Row(f, j)')
    <3>1. /\ Row(d, i)' = Row(d, i) /\ Row(f, j)' = Row(f, j)
          /\ i \in 1 .. written[d] /\ j \in 1 .. written[f]
      BY <2>3
    <3> QED BY <2>6, <3>1 DEF IndInv, PendingExclusive
  <2> QED BY <2>4, <2>5, <2>6 DEF PendingExclusive
<1> QED BY <1>3, <1>4, <1>5, <1>6, <1>7, <1>8 DEF IndInv

\* A rollback leaves the tables and the other contexts as they were.
LEMMA RollbackInv ==
  ASSUME IndInv, TypeOK', NEW c \in Clients, Discard(c), UNCHANGED db
  PROVE  IndInv'
<1>1. KeysUnique' /\ NoLostUpdate' /\ SnapshotsAreReplays'
  BY DEF IndInv, KeysUnique, NoLostUpdate, SnapshotsAreReplays
<1>2. \A d \in Clients : d # c =>
        \A i \in 1 .. written[d] : \A r \in db' : ~SameKey(Row(d, i), r)
  BY DEF IndInv, PendingExclusive
<1> QED BY <1>1, <1>2, DiscardInv

\* A commit keeps the invariant: its rows have keys of their own, and every base
\* and snapshot in them is a replay of the tables as they are now.
LEMMA CommitInv ==
  ASSUME IndInv, TypeOK', NEW c \in Clients, Commit(c)
  PROVE  IndInv'
<1> DEFINE w == written[c]
<1>1. Discard(c) /\ db' = db \cup Inserted(c) /\ w = BatchSize(c) /\ TypeOK
  BY DEF Commit, IndInv
<1>2. \A r \in Inserted(c) : \E i \in 1 .. w : r = Row(c, i) BY DEF Inserted
<1>3. Range(captured[c]) \subseteq Inserted(c)
  <2> SUFFICES ASSUME NEW i \in 1 .. Len(captured[c]) PROVE captured[c][i] \in Inserted(c)
    <3>1. captured[c] \in Seq(EventRow) BY <1>1 DEF TypeOK
    <3> QED BY <3>1 DEF Range
  <2>1. Len(captured[c]) \in Nat /\ Len(staged[c]) \in Nat BY <1>1 DEF TypeOK
  <2>2. w = Len(captured[c]) + Len(staged[c]) BY <1>1 DEF BatchSize
  <2> HIDE DEF w
  <2>3. i \in 1 .. w
    <3>1. \A x, y \in Nat : \A k \in 1 .. x : k \in 1 .. (x + y) OBVIOUS
    <3> QED BY <2>1, <2>2, <3>1
  <2>4. Row(c, i) = captured[c][i] BY DEF Row
  <2> USE DEF w
  <2> QED BY <2>3, <2>4 DEF Inserted
<1>4. db \cup Range(captured[c]) \subseteq db' /\ db \subseteq db' BY <1>1, <1>3
<1>5. KeysUnique'
  <2> SUFFICES ASSUME NEW r \in db', NEW s \in db', SameKey(r, s) PROVE r = s
    BY DEF KeysUnique
  <2>1. SameKey(s, r) BY DEF SameKey
  <2>2. CASE r \in db /\ s \in db BY <2>2 DEF IndInv, KeysUnique
  <2>3. CASE r \in db /\ s \in Inserted(c)
    BY <1>2, <2>1, <2>3 DEF IndInv, PendingExclusive
  <2>4. CASE r \in Inserted(c) /\ s \in db
    BY <1>2, <2>4 DEF IndInv, PendingExclusive
  <2>5. CASE r \in Inserted(c) /\ s \in Inserted(c)
    BY <1>2, <2>5 DEF IndInv, PendingExclusive
  <2> QED BY <1>1, <2>2, <2>3, <2>4, <2>5
<1>6. NoLostUpdate'
  <2> SUFFICES ASSUME NEW r \in db', r.table = "events"
               PROVE  Len(r.base) = r.seq - 1 /\ IsReplay(db', r.agg, r.base)
    BY DEF NoLostUpdate
  <2>1. CASE r \in db
    <3>1. Len(r.base) = r.seq - 1 /\ IsReplay(db, r.agg, r.base)
      BY <2>1 DEF IndInv, NoLostUpdate
    <3> QED BY <1>4, <3>1, ReplayMonotone
  <2>2. CASE r \in Inserted(c)
    <3>1. PICK i \in 1 .. BatchSize(c) : r = Row(c, i) BY <1>1, <1>2, <2>2
    <3>2. i \in 1 .. Len(captured[c]) /\ r = captured[c][i]
      BY <1>1, <3>1, RowCases
    <3>3. Len(r.base) = r.seq - 1 /\ IsReplay(db \cup Range(captured[c]), r.agg, r.base)
      BY <3>2 DEF IndInv, CapturedAreReplays
    <3> QED BY <1>4, <3>3, ReplayMonotone
  <2> QED BY <1>1, <2>1, <2>2
<1>7. SnapshotsAreReplays'
  <2> SUFFICES ASSUME NEW r \in db', r.table = "snapshots"
               PROVE  Len(r.state) = r.seq /\ IsReplay(db', r.agg, r.state)
    BY DEF SnapshotsAreReplays
  <2>1. CASE r \in db
    <3>1. Len(r.state) = r.seq /\ IsReplay(db, r.agg, r.state)
      BY <2>1 DEF IndInv, SnapshotsAreReplays
    <3> QED BY <1>4, <3>1, ReplayMonotone
  <2>2. CASE r \in Inserted(c)
    <3>1. PICK k \in 1 .. BatchSize(c) : r = Row(c, k) BY <1>1, <1>2, <2>2
    <3>2. PICK j \in 1 .. Len(staged[c]) : r = staged[c][j] BY <1>1, <3>1, RowCases
    <3>3. PICK i \in 1 .. Len(captured[c]) :
            /\ Matches(captured[c][i], r)
            /\ r.state = Append(captured[c][i].base, captured[c][i].val)
      BY <3>2 DEF IndInv, StagedMatch, StagedFrom
    <3> DEFINE e == captured[c][i]
    <3>4. e \in EventRow /\ e \in Range(captured[c])
      BY <1>1 DEF TypeOK, Range
    <3>5. e.base \in State /\ e.val \in Vals /\ e.seq \in Nat /\ e.table = "events"
      BY <3>4 DEF EventRow
    <3>6. Len(e.base) = e.seq - 1 /\ IsReplay(db \cup Range(captured[c]), e.agg, e.base)
      BY DEF IndInv, CapturedAreReplays
    <3>7. e.agg = r.agg /\ e.seq = r.seq BY <3>3 DEF Matches
    <3>8. r.state = Append(e.base, e.val) BY <3>3
    <3> HIDE DEF e
    <3>9. IsReplay(db', r.agg, e.base) BY <1>4, <3>6, <3>7, ReplayMonotone
    <3>10. Len(e.base) + 1 = e.seq BY <3>5, <3>6
    <3>11. Holds(db', r.agg, Len(e.base) + 1, e.val)
      BY <1>4, <3>4, <3>5, <3>7, <3>10 DEF Holds
    <3>12. IsReplay(db', r.agg, Append(e.base, e.val))
      BY <3>5, <3>9, <3>11, ReplayAppend
    <3>13. Len(Append(e.base, e.val)) = Len(e.base) + 1 BY <3>5 DEF State
    <3> QED BY <3>7, <3>8, <3>10, <3>12, <3>13
  <2> QED BY <1>1, <2>1, <2>2
<1>8. \A d \in Clients : d # c =>
        \A i \in 1 .. written[d] : \A r \in db' : ~SameKey(Row(d, i), r)
  <2> SUFFICES ASSUME NEW d \in Clients, d # c, NEW i \in 1 .. written[d], NEW r \in db'
               PROVE  ~SameKey(Row(d, i), r)
    OBVIOUS
  <2>1. CASE r \in db BY <2>1 DEF IndInv, PendingExclusive
  <2>2. CASE r \in Inserted(c) BY <1>2, <2>2 DEF IndInv, PendingExclusive
  <2> QED BY <1>1, <2>1, <2>2
<1> QED BY <1>1, <1>4, <1>5, <1>6, <1>7, <1>8, DiscardInv

-----------------------------------------------------------------------------
(* The invariant and its consequences                                       *)

\* Every step preserves the invariant.
LEMMA StepInv ==
  ASSUME IndInv, [Next]_vars
  PROVE  IndInv'
<1>1. TypeOK' BY TypeInvariance DEF IndInv
<1>2. CASE UNCHANGED vars
  <2>1. PhasesOK' BY <1>2 DEF IndInv, PhasesOK, BatchSize, vars, local
  <2> QED BY <1>1, <1>2, <2>1, QuietStep DEF vars, local
<1>3. ASSUME NEW c \in Clients, Begin(c) PROVE IndInv'
  <2>1. PhasesOK' BY <1>3 DEF Begin, IndInv, PhasesOK, BatchSize, TypeOK
  <2>2. \A d \in Clients : phase'[d] = "applying" => phase[d] = "applying"
    BY <1>3 DEF Begin, IndInv, TypeOK
  <2> QED BY <1>1, <1>3, <2>1, <2>2, QuietStep DEF Begin
<1>4. ASSUME NEW c \in Clients, NEW a \in Aggregates, CreateAggregate(c, a) PROVE IndInv'
  BY <1>1, <1>4, CreateAggregateInv
<1>5. ASSUME NEW c \in Clients, NEW a \in Aggregates, LoadSnapshot(c, a) PROVE IndInv'
  BY <1>1, <1>5, LoadSnapshotInv
<1>6. ASSUME NEW c \in Clients, LoadEvents(c) PROVE IndInv'
  BY <1>1, <1>6, LoadEventsInv
<1>7. ASSUME NEW c \in Clients, ApplyFetched(c) PROVE IndInv'
  BY <1>1, <1>7, ApplyFetchedInv
<1>8. ASSUME NEW c \in Clients, EndLoad(c) PROVE IndInv'
  <2>1. PhasesOK' BY <1>8 DEF EndLoad, IndInv, PhasesOK, BatchSize, TypeOK
  <2>2. \A d \in Clients : phase'[d] = "applying" =>
          phase[d] = "applying" /\ target'[d] = target[d] /\ fetched'[d] = fetched[d]
    BY <1>8 DEF EndLoad, IndInv, TypeOK
  <2> QED BY <1>1, <1>8, <2>1, <2>2, QuietStep DEF EndLoad
<1>9. ASSUME NEW c \in Clients, NEW a \in Aggregates, NEW v \in Vals, ApplyEvent(c, a, v)
      PROVE  IndInv'
  BY <1>1, <1>9, ApplyEventInv
<1>10. ASSUME NEW c \in Clients, Return(c) PROVE IndInv'
  <2>1. PhasesOK' BY <1>10 DEF Return, IndInv, PhasesOK, BatchSize, TypeOK
  <2>2. \A d \in Clients : phase'[d] = "applying" => phase[d] = "applying"
    BY <1>10 DEF Return, IndInv, TypeOK
  <2> QED BY <1>1, <1>10, <2>1, <2>2, QuietStep DEF Return
<1>11. ASSUME NEW c \in Clients, InsertRow(c) PROVE IndInv'
  BY <1>1, <1>11, InsertRowInv
<1>12. ASSUME NEW c \in Clients, InsertFails(c) \/ DeadlockVictim(c) \/ Abort(c)
       PROVE  IndInv'
  <2>1. Discard(c) /\ UNCHANGED db BY <1>12 DEF InsertFails, DeadlockVictim, Abort
  <2> QED BY <1>1, <2>1, RollbackInv
<1>13. ASSUME NEW c \in Clients, Commit(c) PROVE IndInv'
  BY <1>1, <1>13, CommitInv
<1> QED
  BY <1>2, <1>3, <1>4, <1>5, <1>6, <1>7, <1>8, <1>9, <1>10, <1>11, <1>12, <1>13 DEF Next

\* Every reachable state of the write path satisfies the inductive invariant.
THEOREM Invariance == Spec => []IndInv
<1>1. IndInv /\ [Next]_vars => IndInv' BY StepInv
<1> QED BY <1>1, InitInv, PTL DEF Spec

\* The variables have their types (base/context.go, the fields of
\* EventStoreContextType, and the columns of the three tables).
THEOREM TypeCorrect == Spec => []TypeOK
<1>1. IndInv => TypeOK BY DEF IndInv
<1> QED BY <1>1, Invariance, PTL

\* Optimistic concurrency (WriteState under UNIQUE(aggregate_id, sequence)):
\* no event is appended on top of another state than the one that the events
\* before it give.
THEOREM NoUpdateIsLost == Spec => []NoLostUpdate
<1>1. IndInv => NoLostUpdate BY DEF IndInv
<1> QED BY <1>1, Invariance, PTL

\* A stored snapshot is the replay of the events up to its sequence
\* (ApplyEventTo stages it from the object it has just changed).
THEOREM SnapshotsReplay == Spec => []SnapshotsAreReplays
<1>1. IndInv => SnapshotsAreReplays BY DEF IndInv
<1> QED BY <1>1, Invariance, PTL

\* A callback never works on a state that mixes two histories (loadState reads
\* the snapshot and the events in two statements).
THEOREM ObjectsReplay == Spec => []ObjectsAreReplays
<1>1. IndInv => ObjectsAreReplays BY DEF IndInv
<1> QED BY <1>1, Invariance, PTL

\* A snapshot row with the key of a committed or pending one would need an
\* event with a taken key, and that event's INSERT came first.
LEMMA NoSnapshotCollision == IndInv => SnapshotInsertsNeverCollide
<1> SUFFICES ASSUME IndInv, NEW c \in Clients,
                    Len(captured[c]) <= written[c], written[c] < BatchSize(c)
             PROVE  ~Taken(c) /\ \A d \in Clients : ~WaitsFor(c, d)
  BY DEF SnapshotInsertsNeverCollide
<1> DEFINE m == Len(captured[c])
           w == written[c]
           s == NextRow(c)
<1>1. /\ TypeOK /\ m \in Nat /\ w \in Nat /\ BatchSize(c) \in Nat
      /\ captured[c] \in Seq(EventRow)
  <2>1. \A x, y \in Nat : x + y \in Nat OBVIOUS
  <2> QED BY <2>1 DEF IndInv, TypeOK, BatchSize
<1>2. w + 1 \in 1 .. BatchSize(c) /\ w + 1 > m BY <1>1
<1>3. /\ w + 1 - m \in 1 .. Len(staged[c]) /\ s = staged[c][w + 1 - m]
      /\ s \in SnapshotRow /\ s.table = "snapshots"
  <2>1. ~(w + 1 \in 1 .. m) BY <1>1, <1>2
  <2> QED BY <1>1, <1>2, <2>1, RowCases DEF NextRow
<1>4. PICK i \in 1 .. m : Matches(captured[c][i], s)
  BY <1>3 DEF IndInv, StagedMatch, StagedFrom
<1>5. \A d \in Clients : \A k \in 1 .. Len(captured[d]) :
        /\ captured[d][k] \in EventRow /\ captured[d][k].table = "events"
        /\ Row(d, k) = captured[d][k]
  <2> SUFFICES ASSUME NEW d \in Clients, NEW k \in 1 .. Len(captured[d])
               PROVE  /\ captured[d][k] \in EventRow /\ captured[d][k].table = "events"
                      /\ Row(d, k) = captured[d][k]
    OBVIOUS
  <2>1. captured[d] \in Seq(EventRow) BY <1>1 DEF TypeOK
  <2>2. captured[d][k] \in EventRow BY <2>1
  <2> QED BY <2>2 DEF EventRow, Row
<1>6. i \in 1 .. w BY <1>1
<1>7. \A k \in 1 .. m : k \in 1 .. w BY <1>1
<1> HIDE DEF s
<1>8. ASSUME NEW r \in db, SameKey(r, s) PROVE FALSE
  <2>1. r.table = "snapshots" /\ r.agg = s.agg /\ r.seq = s.seq BY <1>3, <1>8 DEF SameKey
  <2>2. Len(r.state) = r.seq /\ IsReplay(db, r.agg, r.state)
    BY <2>1 DEF IndInv, SnapshotsAreReplays
  <2>3. captured[c][i].agg = s.agg /\ captured[c][i].seq = s.seq BY <1>4 DEF Matches
  <2>4. captured[c][i].base \in State /\ captured[c][i].seq \in Nat BY <1>5 DEF EventRow
  <2>5. Len(captured[c][i].base) = captured[c][i].seq - 1
    BY DEF IndInv, CapturedAreReplays
  <2>6. s.seq \in 1 .. Len(r.state)
    <3>1. Len(captured[c][i].base) \in Nat BY <2>4 DEF State
    <3> QED BY <2>1, <2>2, <2>3, <2>4, <2>5, <3>1
  <2>7. PICK e \in db : e.table = "events" /\ e.agg = s.agg /\ e.seq = s.seq
    BY <2>1, <2>2, <2>6 DEF IsReplay, Holds
  <2>8. SameKey(Row(c, i), e) BY <1>5, <2>3, <2>7 DEF SameKey
  <2> QED BY <1>6, <2>7, <2>8 DEF IndInv, PendingExclusive
<1>9. ASSUME NEW d \in Clients, NEW r \in Inserted(d), SameKey(r, s) PROVE d = c
  <2> SUFFICES ASSUME d # c PROVE FALSE OBVIOUS
  <2>1. PICK k \in 1 .. written[d] : r = Row(d, k) BY DEF Inserted
  <2>2. k \in 1 .. BatchSize(d) /\ Len(captured[d]) \in Nat /\ written[d] \in Nat
    <3>1. /\ written[d] <= Len(captured[d]) + Len(staged[d]) /\ written[d] \in Nat
          /\ Len(captured[d]) \in Nat /\ Len(staged[d]) \in Nat
      BY <1>1 DEF TypeOK, IndInv, PhasesOK, BatchSize
    <3>2. \A x, y, z \in Nat : \A n \in 1 .. z : z <= x + y => n \in 1 .. (x + y) OBVIOUS
    <3> QED BY <3>1, <3>2 DEF BatchSize
  <2>3. /\ k > Len(captured[d]) /\ k - Len(captured[d]) \in 1 .. Len(staged[d])
        /\ r = staged[d][k - Len(captured[d])]
    BY <1>1, <1>3, <1>9, <2>1, <2>2, RowCases DEF SameKey
  <2>4. PICK j \in 1 .. Len(captured[d]) : Matches(captured[d][j], r)
    BY <2>3 DEF IndInv, StagedMatch, StagedFrom
  <2>5. j \in 1 .. written[d] BY <2>2, <2>3
  <2>6. SameKey(Row(c, i), Row(d, j))
    BY <1>4, <1>5, <1>9, <2>4 DEF SameKey, Matches
  <2> QED BY <1>6, <2>5, <2>6 DEF IndInv, PendingExclusive
<1>10. ASSUME NEW r \in Inserted(c), SameKey(r, s) PROVE FALSE
  <2>1. PICK k \in 1 .. w : r = Row(c, k) BY DEF Inserted
  <2>2. k \in 1 .. BatchSize(c) BY <1>1
  <2>3. k - m \in 1 .. Len(staged[c]) /\ r = staged[c][k - m]
    BY <1>1, <1>3, <1>10, <2>1, <2>2, RowCases DEF SameKey
  <2>4. k - m # w + 1 - m BY <1>1, <2>1
  <2>5. SameKey(staged[c][w + 1 - m], staged[c][k - m]) BY <1>3, <1>10, <2>3 DEF SameKey
  <2>6. PICK p \in 1 .. m, q \in 1 .. m :
          p # q /\ Matches(captured[c][p], s) /\ Matches(captured[c][q], s)
    BY <1>3, <2>3, <2>4, <2>5 DEF IndInv, StagedMatch, StagedFrom
  <2>7. SameKey(Row(c, p), Row(c, q)) BY <1>5, <2>6 DEF SameKey, Matches
  <2> QED BY <1>7, <2>6, <2>7 DEF IndInv, PendingExclusive
<1>11. ~Taken(c) BY <1>8, <1>10 DEF Taken, s
<1>12. \A d \in Clients : ~WaitsFor(c, d) BY <1>9 DEF WaitsFor, s
<1> QED BY <1>11, <1>12

\* UNIQUE(aggregate_id, sequence) on table snapshots never fails a context.
THEOREM SnapshotsNeverCollide == Spec => []SnapshotInsertsNeverCollide
BY NoSnapshotCollision, Invariance, PTL

-----------------------------------------------------------------------------
(* One context at a time inserts events of a stream.                        *)

\* A captured event was applied to a replay of what is committed or was captured
\* before it: CapturedAreReplays with the order of the batch.
PrefixReplays ==
  \A c \in Clients : \A i \in 1 .. Len(captured[c]) :
    IsReplay(db \cup {captured[c][j] : j \in 1 .. i - 1}, captured[c][i].agg, captured[c][i].base)

\* What a step does to a batch.
LEMMA BatchSteps ==
  ASSUME TypeOK, [Next]_vars, NEW c \in Clients
  PROVE  /\ db \subseteq db'
         /\ \/ captured'[c] = captured[c] \/ captured'[c] = <<>>
            \/ \E a \in Aggregates, v \in Vals : ApplyEvent(c, a, v)
<1>1. ASSUME NEW d \in Clients, Discard(d)
      PROVE  captured'[c] = captured[c] \/ captured'[c] = <<>>
  BY <1>1 DEF Discard, TypeOK
<1>2. ASSUME NEW d \in Clients, NEW a \in Aggregates, NEW v \in Vals, ApplyEvent(d, a, v)
      PROVE  /\ db \subseteq db'
             /\ captured'[c] = captured[c] \/ d = c
  BY <1>2 DEF ApplyEvent, TypeOK
<1>3. ASSUME NEW d \in Clients, InsertFails(d) \/ DeadlockVictim(d) \/ Abort(d) \/ Commit(d)
      PROVE  db \subseteq db' /\ Discard(d)
  BY <1>3 DEF InsertFails, DeadlockVictim, Abort, Commit
<1>4. ASSUME NEW d \in Clients,
             \/ Begin(d) \/ LoadEvents(d) \/ ApplyFetched(d) \/ EndLoad(d) \/ Return(d)
             \/ InsertRow(d) \/ \E a \in Aggregates : CreateAggregate(d, a) \/ LoadSnapshot(d, a)
      PROVE  db \subseteq db' /\ captured' = captured
  BY <1>4 DEF Begin, LoadEvents, ApplyFetched, EndLoad, Return, InsertRow, CreateAggregate,
              LoadSnapshot
<1>5. CASE UNCHANGED vars BY <1>5 DEF vars, local
<1> QED BY <1>1, <1>2, <1>3, <1>4, <1>5 DEF Next

\* Every step: the object to which an event is applied is a replay of what is
\* committed and of the whole batch so far.
LEMMA NextPrefix == IndInv /\ PrefixReplays /\ [Next]_vars => PrefixReplays'
<1> SUFFICES ASSUME IndInv, PrefixReplays, [Next]_vars,
                    NEW c \in Clients, NEW i \in 1 .. Len(captured'[c])
             PROVE  IsReplay(db' \cup {captured'[c][j] : j \in 1 .. i - 1},
                             captured'[c][i].agg, captured'[c][i].base)
  BY DEF PrefixReplays
<1>1. TypeOK /\ captured[c] \in Seq(EventRow) BY DEF IndInv, TypeOK
<1>2. db \subseteq db' BY <1>1, BatchSteps
<1>3. ASSUME captured'[c] = captured[c] PROVE
        IsReplay(db' \cup {captured'[c][j] : j \in 1 .. i - 1},
                 captured'[c][i].agg, captured'[c][i].base)
  <2> DEFINE before == {captured[c][j] : j \in 1 .. i - 1}
  <2>1. IsReplay(db \cup before, captured[c][i].agg, captured[c][i].base)
    BY <1>3 DEF PrefixReplays
  <2>2. db \cup before \subseteq db' \cup before BY <1>2
  <2> HIDE DEF before
  <2>3. IsReplay(db' \cup before, captured[c][i].agg, captured[c][i].base)
    BY <2>1, <2>2, ReplayMonotone
  <2> QED BY <1>3, <2>3 DEF before
<1>4. ASSUME captured'[c] = <<>> PROVE FALSE BY <1>4
<1>5. ASSUME NEW a \in Aggregates, NEW v \in Vals, ApplyEvent(c, a, v)
      PROVE  IsReplay(db' \cup {captured'[c][j] : j \in 1 .. i - 1},
                      captured'[c][i].agg, captured'[c][i].base)
  <2> DEFINE o == objects[c][a]
             e == EventFor(a, o, v)
             n == Len(captured[c])
  <2>1. captured' = [captured EXCEPT ![c] = Append(captured[c], e)] /\ o # NoObject /\ db' = db
    BY <1>5 DEF ApplyEvent
  <2>2. e.agg = a /\ e.base = o.state BY DEF EventFor
  <2>3. IsReplay(db \cup Range(captured[c]), a, o.state)
    BY <2>1 DEF IndInv, ObjectsAreReplays
  <2> HIDE DEF e, o
  <2>4. captured'[c] = Append(captured[c], e) BY <1>1, <2>1 DEF TypeOK
  <2>5. /\ n \in Nat /\ \A j \in 1 .. n : captured'[c][j] = captured[c][j]
        /\ captured'[c][n + 1] = e /\ Len(captured'[c]) = n + 1
    BY <1>1, <2>4
  <2>6. CASE i = n + 1
    <3>1. Range(captured[c]) = {captured'[c][j] : j \in 1 .. i - 1}
      BY <1>1, <2>5, <2>6 DEF Range
    <3> QED BY <2>1, <2>2, <2>3, <2>5, <2>6, <3>1
  <2>7. CASE i # n + 1
    <3>1. i \in 1 .. n /\ 1 .. i - 1 \subseteq 1 .. n BY <2>5, <2>7
    <3>2. {captured'[c][j] : j \in 1 .. i - 1} = {captured[c][j] : j \in 1 .. i - 1}
      BY <2>5, <3>1
    <3>3. IsReplay(db \cup {captured[c][j] : j \in 1 .. i - 1}, captured[c][i].agg, captured[c][i].base)
      BY <3>1 DEF PrefixReplays
    <3> QED BY <2>1, <2>5, <3>1, <3>2, <3>3
  <2> QED BY <2>6, <2>7
<1> QED BY <1>1, <1>3, <1>4, <1>5, BatchSteps

\* An inserted event is captured, and no committed row has its key.
LEMMA InsertedEvent ==
  ASSUME IndInv, NEW c \in Clients, NEW i \in 1 .. Len(captured[c]), i <= written[c]
  PROVE  /\ captured[c][i] \in EventRow /\ captured[c][i].table = "events"
         /\ captured[c][i].seq \in Nat /\ Row(c, i) = captured[c][i] /\ i \in 1 .. written[c]
         /\ \A r \in db : ~SameKey(captured[c][i], r)
<1>1. captured[c] \in Seq(EventRow) /\ written[c] \in Nat BY DEF IndInv, TypeOK
<1>2. Len(captured[c]) \in Nat /\ captured[c][i] \in EventRow /\ i \in 1 .. written[c] BY <1>1
<1>3. captured[c][i].table = "events" /\ captured[c][i].seq \in Nat BY <1>2 DEF EventRow
<1>4. Row(c, i) = captured[c][i] BY DEF Row
<1> QED BY <1>2, <1>3, <1>4 DEF IndInv, PendingExclusive

\* Each number up to that of a captured event is in the table or captured with it.
LEMMA NumbersBelow ==
  ASSUME IndInv, PrefixReplays, NEW c \in Clients, NEW i \in 1 .. Len(captured[c]),
         NEW n \in Nat, n >= 1, n <= captured[c][i].seq
  PROVE  \/ \E r \in db : r.table = "events" /\ r.agg = captured[c][i].agg /\ r.seq = n
         \/ \E k \in 1 .. Len(captured[c]) :
              k <= i /\ captured[c][k].agg = captured[c][i].agg /\ captured[c][k].seq = n
<1> DEFINE e == captured[c][i]
<1>1. /\ captured[c] \in Seq(EventRow) /\ e \in EventRow /\ e.seq \in Nat
      /\ e.table = "events" /\ i \in Nat /\ Len(captured[c]) \in Nat
  <2>1. captured[c] \in Seq(EventRow) BY DEF IndInv, TypeOK
  <2>2. e \in EventRow BY <2>1
  <2> QED BY <2>1, <2>2 DEF EventRow
<1>2. CASE n = e.seq BY <1>1, <1>2
<1>3. CASE n # e.seq
  <2>1. Len(e.base) = e.seq - 1 BY DEF IndInv, CapturedAreReplays
  <2>2. n \in 1 .. Len(e.base) BY <1>1, <1>3, <2>1
  <2>3. Holds(db \cup {captured[c][j] : j \in 1 .. i - 1}, e.agg, n, e.base[n])
    BY <2>2 DEF PrefixReplays, IsReplay
  <2>4. PICK r \in db \cup {captured[c][j] : j \in 1 .. i - 1} :
          r.table = "events" /\ r.agg = e.agg /\ r.seq = n
    BY <2>3 DEF Holds
  <2>5. CASE r \in db BY <2>4, <2>5
  <2>6. CASE r \in {captured[c][j] : j \in 1 .. i - 1}
    <3>1. PICK k \in 1 .. i - 1 : r = captured[c][k] BY <2>6
    <3>2. k \in 1 .. Len(captured[c]) /\ k <= i BY <1>1
    <3> QED BY <2>4, <3>1, <3>2
  <2> QED BY <2>4, <2>5, <2>6
<1> QED BY <1>2, <1>3

\* An inserted event has a higher sequence than what is committed of its stream: else
\* its own would be in the table.
LEMMA AboveCommitted ==
  ASSUME IndInv, NEW c \in Clients, NEW i \in 1 .. Len(captured[c]), i <= written[c],
         NEW x \in db, x.table = "events", x.agg = captured[c][i].agg
  PROVE  x.seq < captured[c][i].seq
<1> DEFINE e == captured[c][i]
<1>1. e \in EventRow /\ e.table = "events" /\ e.seq \in Nat /\ \A r \in db : ~SameKey(e, r)
  BY InsertedEvent
<1>2. e.seq >= 1
  <2>1. Len(e.base) = e.seq - 1 BY DEF IndInv, CapturedAreReplays
  <2>2. \A f \in EventRow : Len(f.base) \in Nat BY DEF EventRow, State
  <2> QED BY <1>1, <2>1, <2>2
<1>3. x.seq \in Nat /\ x.seq # e.seq
  <2>1. x \in EventRow \cup SnapshotRow BY DEF IndInv, TypeOK
  <2> QED BY <1>1, <2>1 DEF EventRow, SnapshotRow, SameKey
<1>4. ASSUME x.seq > e.seq PROVE FALSE
  <2>1. Len(x.base) = x.seq - 1 /\ IsReplay(db, x.agg, x.base) BY DEF IndInv, NoLostUpdate
  <2>2. e.seq \in 1 .. Len(x.base) BY <1>1, <1>2, <1>3, <1>4, <2>1
  <2>3. Holds(db, x.agg, e.seq, x.base[e.seq]) BY <2>1, <2>2 DEF IsReplay
  <2>4. PICK y \in db : y.table = "events" /\ y.agg = x.agg /\ y.seq = e.seq
    BY <2>3 DEF Holds
  <2> QED BY <1>1, <2>4 DEF SameKey
<1> QED BY <1>1, <1>3, <1>4

\* Two contexts that insert events of one stream have a number in common, which the
\* UNIQUE constraint does not let them have.
LEMMA OneWriter ==
  ASSUME IndInv, PrefixReplays, NEW c \in Clients, NEW d \in Clients, c # d,
         NEW i \in 1 .. Len(captured[c]), i <= written[c],
         NEW j \in 1 .. Len(captured[d]), j <= written[d]
  PROVE  captured[c][i].agg # captured[d][j].agg
<1> SUFFICES ASSUME captured[c][i].agg = captured[d][j].agg PROVE FALSE OBVIOUS
<1>1. ASSUME NEW x \in Clients, NEW y \in Clients, x # y,
             NEW p \in 1 .. Len(captured[x]), p <= written[x],
             NEW q \in 1 .. Len(captured[y]), q <= written[y],
             captured[x][p].agg = captured[y][q].agg,
             captured[x][p].seq <= captured[y][q].seq
      PROVE  FALSE
  <2> DEFINE e == captured[x][p]
  <2>1. /\ e.table = "events" /\ e.seq \in Nat /\ Row(x, p) = e /\ p \in 1 .. written[x]
        /\ \A r \in db : ~SameKey(e, r)
    BY <1>1, InsertedEvent
  <2>2. Len(e.base) = e.seq - 1 /\ e.base \in Seq(Vals)
    <3>1. e \in EventRow BY <1>1, InsertedEvent
    <3>2. Len(e.base) = e.seq - 1 BY <1>1 DEF IndInv, CapturedAreReplays
    <3>3. \A f \in EventRow : f.base \in Seq(Vals) BY DEF EventRow, State
    <3> QED BY <3>1, <3>2, <3>3
  <2>3. e.seq >= 1 BY <2>1, <2>2
  <2>4. \/ \E r \in db : r.table = "events" /\ r.agg = captured[y][q].agg /\ r.seq = e.seq
        \/ \E k \in 1 .. Len(captured[y]) :
             k <= q /\ captured[y][k].agg = captured[y][q].agg /\ captured[y][k].seq = e.seq
    <3> DEFINE n == e.seq
    <3>1. n \in Nat /\ n >= 1 /\ n <= captured[y][q].seq BY <1>1, <2>1, <2>3
    <3> HIDE DEF n
    <3>2. \/ \E r \in db : r.table = "events" /\ r.agg = captured[y][q].agg /\ r.seq = n
          \/ \E k \in 1 .. Len(captured[y]) :
               k <= q /\ captured[y][k].agg = captured[y][q].agg /\ captured[y][k].seq = n
      BY <1>1, <3>1, NumbersBelow
    <3> QED BY <3>2 DEF n
  <2>5. ASSUME NEW r \in db, r.table = "events" /\ r.agg = captured[y][q].agg /\ r.seq = e.seq
        PROVE  FALSE
    BY <1>1, <2>1, <2>5 DEF SameKey
  <2>6. ASSUME NEW k \in 1 .. Len(captured[y]), k <= q,
               captured[y][k].agg = captured[y][q].agg /\ captured[y][k].seq = e.seq
        PROVE  FALSE
    <3>1. k <= written[y]
      <4>1. captured[y] \in Seq(EventRow) /\ written[y] \in Nat BY DEF IndInv, TypeOK
      <4> QED BY <1>1, <2>6, <4>1
    <3>2. captured[y][k].table = "events" /\ Row(y, k) = captured[y][k] /\ k \in 1 .. written[y]
      BY <3>1, InsertedEvent
    <3>3. ~SameKey(Row(x, p), Row(y, k)) BY <1>1, <2>1, <3>2 DEF IndInv, PendingExclusive
    <3> QED BY <1>1, <2>1, <2>6, <3>2, <3>3 DEF SameKey
  <2> QED BY <2>4, <2>5, <2>6
<1>2. captured[c][i].seq \in Nat /\ captured[d][j].seq \in Nat BY InsertedEvent
<1>3. captured[c][i].seq <= captured[d][j].seq \/ captured[d][j].seq <= captured[c][i].seq
  BY <1>2
<1> QED BY <1>1, <1>3

-----------------------------------------------------------------------------
(* The refinement of CompareAndAppend.                                      *)

\* Some positions, if there are any, have a first and a last one.
LEMMA FirstAndLast ==
  ASSUME NEW n \in Nat, NEW S \in SUBSET (1 .. n), S # {}
  PROVE  (\E m \in S : \A i \in S : m <= i) /\ (\E m \in S : \A i \in S : i <= m)
<1>1. ASSUME NEW T \in SUBSET Nat, T # {} PROVE \E m \in T : \A i \in T : m <= i
  <2>1. PICK m \in T : \A i \in T : ~(<<i, m>> \in OpToRel(<, Nat))
    BY <1>1, NatLessThanWellFounded, WFMin
  <2>2. ASSUME NEW i \in T PROVE m <= i
    <3>1. ~(i < m) BY <2>1 DEF OpToRel
    <3> QED BY <3>1
  <2> QED BY <2>2
<1>2. S \in SUBSET Nat OBVIOUS
<1>3. \E m \in S : \A i \in S : i <= m
  <2> DEFINE T == {n - i : i \in S}
  <2>1. T \in SUBSET Nat /\ T # {}
    <3>1. \A i \in S : n - i \in Nat OBVIOUS
    <3> QED BY <3>1
  <2>2. PICK x \in T : \A y \in T : x <= y BY <1>1, <2>1
  <2>3. PICK m \in S : x = n - m OBVIOUS
  <2>4. ASSUME NEW i \in S PROVE i <= m
    <3>1. x <= n - i BY <2>2
    <3> QED BY <2>3, <3>1
  <2> QED BY <2>4
<1> QED BY <1>1, <1>2, <1>3

\* What a context captured for an aggregate is in its batch, between the first
\* and the last of it.
LEMMA CapturedForIs ==
  ASSUME TypeOK, NEW c \in Clients, NEW a \in Aggregates, CapturedFor(c, a) # {}
  PROVE  \E f, l \in 1 .. Len(captured[c]) :
           /\ FirstFor(c, a) = captured[c][f] /\ captured[c][f].agg = a
           /\ LastFor(c, a) = captured[c][l] /\ captured[c][l].agg = a
           /\ \A i \in 1 .. Len(captured[c]) : captured[c][i].agg = a => f <= i /\ i <= l
<1> DEFINE P == CapturedFor(c, a)
           f == CHOOSE i \in P : \A j \in P : i <= j
           l == CHOOSE i \in P : \A j \in P : j <= i
<1>1. captured[c] \in Seq(EventRow) /\ Len(captured[c]) \in Nat /\ DOMAIN captured[c] = 1 .. Len(captured[c])
  BY DEF TypeOK
<1>2. P \in SUBSET (1 .. Len(captured[c])) BY <1>1 DEF CapturedFor
<1>3. f \in P /\ \A j \in P : f <= j BY <1>1, <1>2, FirstAndLast
<1>4. l \in P /\ \A j \in P : j <= l BY <1>1, <1>2, FirstAndLast
<1>5. FirstFor(c, a) = captured[c][f] /\ LastFor(c, a) = captured[c][l] BY DEF FirstFor, LastFor
<1>6. \A i \in 1 .. Len(captured[c]) : i \in P <=> captured[c][i].agg = a
  BY <1>1 DEF CapturedFor
<1> HIDE DEF P, f, l
<1> QED BY <1>2, <1>3, <1>4, <1>5, <1>6

\* What contexts expect and prepare are payloads.
LEMMA PreparedTypes ==
  ASSUME TypeOK, NEW c \in Clients, NEW a \in Aggregates
  PROVE  BaseOf(c, a) \in Seq(Vals) /\ PendingOf(c, a) \in Seq(Vals)
<1>1. CASE CapturedFor(c, a) = {} BY <1>1 DEF BaseOf, PendingOf
<1>2. CASE CapturedFor(c, a) # {}
  <2>1. FirstFor(c, a) \in EventRow /\ LastFor(c, a) \in EventRow
    <3>1. \A i \in 1 .. Len(captured[c]) : captured[c][i] \in EventRow BY DEF TypeOK
    <3>2. PICK f, l \in 1 .. Len(captured[c]) :
            FirstFor(c, a) = captured[c][f] /\ LastFor(c, a) = captured[c][l]
      BY <1>2, CapturedForIs
    <3> QED BY <3>1, <3>2
  <2>2. \A e \in EventRow : e.base \in Seq(Vals) /\ e.val \in Vals BY DEF EventRow, State
  <2> DEFINE s == Append(LastFor(c, a).base, LastFor(c, a).val)
  <2>3. s \in Seq(Vals) BY <2>1, <2>2
  <2>4. BaseOf(c, a) \in Seq(Vals) BY <1>2, <2>1, <2>2 DEF BaseOf
  <2>5. PendingOf(c, a) = SubSeq(s, Len(BaseOf(c, a)) + 1, Len(s)) BY <1>2 DEF PendingOf
  <2> HIDE DEF s
  <2>6. \A b \in Seq(Vals) : SubSeq(s, Len(b) + 1, Len(s)) \in Seq(Vals)
    <3>1. ASSUME NEW b \in Seq(Vals) PROVE SubSeq(s, Len(b) + 1, Len(s)) \in Seq(Vals)
      <4>1. Len(b) \in Nat /\ Len(s) \in Nat BY <2>3
      <4>2. \A i \in Len(b) + 1 .. Len(s) : s[i] \in Vals BY <2>3, <4>1
      <4> QED BY <2>3, <4>1, <4>2, SubSeqProperties
    <3> QED BY <3>1
  <2> QED BY <2>4, <2>5, <2>6
<1> QED BY <1>1, <1>2

PreparedOK ==
  \A c \in Clients, a \in Aggregates : BaseOf(c, a) \in Seq(Vals) /\ PendingOf(c, a) \in Seq(Vals)

\* They are after a step, too.
LEMMA PreparedNext == TypeOK' => PreparedOK'
<1>1. TypeOK => PreparedOK BY PreparedTypes DEF PreparedOK
<1> QED BY <1>1, PTL

\* Rows whose numbers are exactly those of the elements of s, and that hold these.
Fill(own, s) ==
  /\ \A i \in 1 .. Len(s) : \E r \in own : r.seq = i /\ r.val = s[i]
  /\ \A r \in own : r.seq \in Nat /\ r.seq >= 1 /\ r.seq <= Len(s)
  /\ \A r, t \in own : r.seq = t.seq => r = t

\* They give s, when read in their order.
LEMMA InOrderIs == ASSUME NEW own, NEW s \in Seq(Vals), Fill(own, s) PROVE InOrder(own) = s
<1>1. Len(s) \in Nat /\ DOMAIN s = 1 .. Len(s) OBVIOUS
<1>2. ASSUME NEW i \in 1 .. Len(s)
      PROVE  i \in {r.seq : r \in own} /\ (CHOOSE r \in own : r.seq = i).val = s[i]
  <2>1. PICK r \in own : r.seq = i /\ r.val = s[i] BY DEF Fill
  <2>2. (CHOOSE t \in own : t.seq = i) = r BY <2>1 DEF Fill
  <2> QED BY <2>1, <2>2
<1>3. {r.seq : r \in own} = 1 .. Len(s)
  <2>1. \A r \in own : r.seq \in 1 .. Len(s) BY <1>1 DEF Fill
  <2> QED BY <1>2, <2>1
<1>4. s = [i \in 1 .. Len(s) |-> s[i]] BY <1>1
<1> QED BY <1>2, <1>3, <1>4 DEF InOrder

\* When all rows of the batch are inserted, its events are.
LEMMA AllInserted ==
  ASSUME IndInv, NEW c \in Clients, written[c] = BatchSize(c)
  PROVE  /\ Len(captured[c]) <= written[c]
         /\ \A i \in 1 .. Len(captured[c]) : i <= written[c]
<1>1. Len(captured[c]) \in Nat /\ Len(staged[c]) \in Nat BY DEF IndInv, TypeOK
<1>2. \A n, m \in Nat : n <= n + m /\ \A i \in 1 .. n : i <= n + m OBVIOUS
<1> QED BY <1>1, <1>2 DEF BatchSize

\* An inserted row of table events is a captured event.
LEMMA InsertedIs ==
  ASSUME IndInv, NEW c \in Clients, written[c] = BatchSize(c),
         NEW i \in 1 .. written[c], Row(c, i).table = "events"
  PROVE  \E k \in 1 .. Len(captured[c]) : k <= written[c] /\ Row(c, i) = captured[c][k]
<1> DEFINE n == Len(captured[c])
           m == Len(staged[c])
<1>1. n \in Nat /\ m \in Nat /\ \A j \in 1 .. m : staged[c][j] \in SnapshotRow
  BY DEF IndInv, TypeOK
<1>2. Row(c, i) = IF i <= n THEN captured[c][i] ELSE staged[c][i - n] BY DEF Row
<1>3. i \in 1 .. n + m /\ n <= written[c]
  <2>1. \A x, y \in Nat : x <= x + y OBVIOUS
  <2>2. written[c] = n + m BY DEF BatchSize
  <2> HIDE DEF n, m
  <2> QED BY <1>1, <2>1, <2>2
<1> HIDE DEF n, m
<1>4. CASE i <= n
  <2>1. i \in 1 .. n /\ i <= written[c] BY <1>1, <1>3, <1>4
  <2> QED BY <1>2, <1>4, <2>1 DEF n
<1>5. CASE ~(i <= n)
  <2>1. i - n \in 1 .. m BY <1>1, <1>3, <1>5
  <2>2. Row(c, i) \in SnapshotRow BY <1>1, <1>2, <1>5, <2>1
  <2> QED BY <2>2 DEF SnapshotRow
<1> QED BY <1>4, <1>5

\* Events are numbered from 1, the committed ones and the captured ones.
LEMMA CommittedEvent ==
  ASSUME IndInv, NEW r \in db, r.table = "events"
  PROVE  r.seq \in Nat /\ r.seq >= 1
<1>1. r \in EventRow BY DEF IndInv, TypeOK, SnapshotRow
<1>2. Len(r.base) \in Nat /\ r.seq \in Nat BY <1>1 DEF EventRow, State
<1>3. Len(r.base) = r.seq - 1 BY DEF IndInv, NoLostUpdate
<1> QED BY <1>2, <1>3

\* The same of a captured event, whose base the object's sequence counts.
LEMMA NumberedFromOne ==
  ASSUME IndInv, NEW c \in Clients, NEW i \in 1 .. Len(captured[c])
  PROVE  captured[c][i].seq \in Nat /\ captured[c][i].seq >= 1
<1>1. captured[c][i] \in EventRow BY DEF IndInv, TypeOK
<1>2. Len(captured[c][i].base) \in Nat /\ captured[c][i].seq \in Nat
  BY <1>1 DEF EventRow, State
<1>3. Len(captured[c][i].base) = captured[c][i].seq - 1 BY DEF IndInv, CapturedAreReplays
<1> QED BY <1>2, <1>3

\* The events that one batch inserts into a stream are in the order of their numbers.
LEMMA InBatchOrder ==
  ASSUME IndInv, PrefixReplays, NEW c \in Clients, NEW i \in 1 .. Len(captured[c]),
         NEW j \in 1 .. Len(captured[c]), i < j, j <= written[c],
         captured[c][i].agg = captured[c][j].agg
  PROVE  captured[c][i].seq < captured[c][j].seq
<1> DEFINE d == captured[c][i]
           e == captured[c][j]
<1>1. i <= written[c] /\ Len(captured[c]) \in Nat BY DEF IndInv, TypeOK
<1>2. /\ d.seq \in Nat /\ e.seq \in Nat /\ d.table = "events" /\ e.table = "events"
      /\ Row(c, i) = d /\ Row(c, j) = e /\ i \in 1 .. written[c] /\ j \in 1 .. written[c]
      /\ \A r \in db : ~SameKey(e, r)
  BY <1>1, InsertedEvent
<1>3. \A k \in 1 .. written[c] : k # j => ~SameKey(Row(c, k), e)
  BY <1>2 DEF IndInv, PendingExclusive
<1>4. d.seq # e.seq BY <1>2, <1>3 DEF SameKey
<1>5. ASSUME e.seq < d.seq PROVE FALSE
  <2> DEFINE n == e.seq
  <2>1. n \in Nat /\ n >= 1 /\ n <= d.seq BY <1>2, <1>5, NumberedFromOne
  <2> HIDE DEF n
  <2>2. \/ \E r \in db : r.table = "events" /\ r.agg = d.agg /\ r.seq = n
        \/ \E k \in 1 .. Len(captured[c]) :
             k <= i /\ captured[c][k].agg = d.agg /\ captured[c][k].seq = n
    BY <1>1, <2>1, NumbersBelow
  <2>3. ASSUME NEW r \in db, r.table = "events" /\ r.agg = d.agg /\ r.seq = n PROVE FALSE
    BY <1>2, <2>3 DEF SameKey, n
  <2>4. ASSUME NEW k \in 1 .. Len(captured[c]), k <= i,
               captured[c][k].agg = d.agg /\ captured[c][k].seq = n
        PROVE  FALSE
    <3>1. k <= written[c] /\ k # j
      <4>1. written[c] \in Nat /\ i \in Nat /\ j \in Nat /\ k \in Nat BY DEF IndInv, TypeOK
      <4> QED BY <1>1, <2>4, <4>1
    <3>2. captured[c][k].table = "events" /\ Row(c, k) = captured[c][k] /\ k \in 1 .. written[c]
      BY <3>1, InsertedEvent
    <3> QED BY <1>2, <1>3, <2>4, <3>1, <3>2 DEF SameKey, n
  <2> QED BY <2>2, <2>3, <2>4
<1> QED BY <1>2, <1>4, <1>5

\* The base of the first event that a context inserts into a stream is the stream.
LEMMA BaseIsStream ==
  ASSUME IndInv, PrefixReplays, NEW c \in Clients, written[c] = BatchSize(c),
         NEW a \in Aggregates, CapturedFor(c, a) # {}
  PROVE  BaseOf(c, a) = StreamOf(a) /\ IsReplay(db, a, BaseOf(c, a))
<1>1. PICK f, l \in 1 .. Len(captured[c]) :
        /\ FirstFor(c, a) = captured[c][f] /\ captured[c][f].agg = a
        /\ \A i \in 1 .. Len(captured[c]) : captured[c][i].agg = a => f <= i
  BY CapturedForIs DEF IndInv
<1> DEFINE e == captured[c][f]
           own == EventsOf(a)
<1>2. Len(captured[c]) <= written[c] /\ f <= written[c] BY AllInserted
<1>3. e \in EventRow /\ e.seq \in Nat /\ Len(e.base) = e.seq - 1 /\ e.base \in Seq(Vals)
  <2>1. e \in EventRow /\ e.seq \in Nat BY <1>2, InsertedEvent
  <2>2. Len(e.base) = e.seq - 1 BY DEF IndInv, CapturedAreReplays
  <2> QED BY <2>1, <2>2 DEF EventRow, State
<1>4. IsReplay(db, a, e.base)
  <2> DEFINE before == {captured[c][j] : j \in 1 .. f - 1}
  <2>1. IsReplay(db \cup before, a, e.base) BY <1>1 DEF PrefixReplays
  <2>2. \A r \in before : r.agg # a
    <3>1. ASSUME NEW j \in 1 .. f - 1 PROVE captured[c][j].agg # a
      <4>1. Len(captured[c]) \in Nat BY DEF IndInv, TypeOK
      <4>2. j \in 1 .. Len(captured[c]) /\ ~(f <= j) BY <4>1
      <4> QED BY <1>1, <4>2
    <3> QED BY <3>1
  <2> HIDE DEF before
  <2> QED BY <2>1, <2>2 DEF IsReplay, Holds
<1>5. \A r \in own : r.seq \in Nat /\ r.seq >= 1 /\ r.seq <= Len(e.base)
  <2> SUFFICES ASSUME NEW r \in own PROVE r.seq \in Nat /\ r.seq >= 1 /\ r.seq <= Len(e.base)
    OBVIOUS
  <2>1. r \in db /\ r.table = "events" /\ r.agg = a BY DEF EventsOf
  <2>2. r.seq < e.seq BY <1>1, <1>2, <2>1, AboveCommitted
  <2>3. r.seq \in Nat /\ r.seq >= 1 BY <2>1, CommittedEvent
  <2> QED BY <1>3, <2>2, <2>3
<1>6. \A r, t \in own : r.seq = t.seq => r = t BY DEF EventsOf, IndInv, KeysUnique, SameKey
<1>7. Fill(own, e.base)
  <2>1. \A i \in 1 .. Len(e.base) : \E r \in own : r.seq = i /\ r.val = e.base[i]
    BY <1>4 DEF IsReplay, Holds, EventsOf
  <2> QED BY <1>5, <1>6, <2>1 DEF Fill
<1> HIDE DEF e, own
<1>8. InOrder(own) = e.base BY <1>3, <1>7, InOrderIs
<1>9. BaseOf(c, a) = e.base BY <1>1 DEF BaseOf, e
<1> QED BY <1>4, <1>8, <1>9 DEF StreamOf, own

\* The state that the last of these events makes is the stream after the commit.
LEMMA LastIsStream ==
  ASSUME IndInv, PrefixReplays, KeysUnique', NEW c \in Clients, Commit(c),
         NEW a \in Aggregates, CapturedFor(c, a) # {},
         NEW s, s = Append(LastFor(c, a).base, LastFor(c, a).val)
  PROVE  StreamOf(a)' = s /\ s \in Seq(Vals) /\ IsReplay(db', a, s)
<1>1. PICK f, l \in 1 .. Len(captured[c]) :
        /\ LastFor(c, a) = captured[c][l] /\ captured[c][l].agg = a
        /\ \A i \in 1 .. Len(captured[c]) : captured[c][i].agg = a => i <= l
  BY CapturedForIs DEF IndInv
<1> DEFINE e == captured[c][l]
           own == EventsOf(a)'
<1>2. written[c] = BatchSize(c) /\ db' = db \cup Inserted(c) BY DEF Commit
<1>3. Len(captured[c]) <= written[c] /\ l <= written[c] BY <1>2, AllInserted
<1>4. /\ e \in EventRow /\ e.seq \in Nat /\ e.table = "events"
      /\ Len(e.base) = e.seq - 1 /\ e.base \in Seq(Vals) /\ e.val \in Vals
  <2>1. e \in EventRow /\ e.seq \in Nat /\ e.table = "events" BY <1>3, InsertedEvent
  <2>2. Len(e.base) = e.seq - 1 BY DEF IndInv, CapturedAreReplays
  <2> QED BY <2>1, <2>2 DEF EventRow, State
<1>5. s = Append(e.base, e.val) /\ s \in Seq(Vals) /\ Len(s) = e.seq BY <1>1, <1>4
<1>6. Range(captured[c]) \subseteq db'
  <2>1. \A i \in 1 .. Len(captured[c]) : i <= written[c] => captured[c][i] \in Inserted(c)
    BY InsertedEvent DEF Inserted
  <2>2. captured[c] \in Seq(EventRow) /\ written[c] \in Nat BY DEF IndInv, TypeOK
  <2>3. \A i \in 1 .. Len(captured[c]) : i <= written[c] BY <1>3, <2>2
  <2>4. DOMAIN captured[c] = 1 .. Len(captured[c]) BY <2>2
  <2> QED BY <1>2, <2>1, <2>3, <2>4 DEF Range
<1>7. IsReplay(db', a, s)
  <2>1. IsReplay(db \cup Range(captured[c]), a, e.base) BY <1>1 DEF IndInv, CapturedAreReplays
  <2>2. IsReplay(db', a, e.base)
    <3>1. db \cup Range(captured[c]) \subseteq db' BY <1>2, <1>6
    <3> QED BY <2>1, <3>1, ReplayMonotone
  <2>3. e \in db'
    <3>1. l \in DOMAIN captured[c] BY DEF IndInv, TypeOK
    <3> QED BY <1>6, <3>1 DEF Range
  <2>4. Holds(db', a, Len(e.base) + 1, e.val)
    <3>1. e.seq = Len(e.base) + 1 BY <1>4
    <3> QED BY <1>1, <1>4, <2>3, <3>1 DEF Holds
  <2> HIDE DEF e
  <2> QED BY <1>4, <1>5, <2>2, <2>4, ReplayAppend DEF State
<1>8. \A r \in own : r.seq \in Nat /\ r.seq >= 1 /\ r.seq <= Len(s)
  <2> SUFFICES ASSUME NEW r \in own PROVE r.seq \in Nat /\ r.seq >= 1 /\ r.seq <= e.seq
    BY <1>5
  <2>1. r \in db' /\ r.table = "events" /\ r.agg = a BY DEF EventsOf
  <2>2. CASE r \in db
    <3>1. r.seq < e.seq BY <1>1, <1>3, <2>1, <2>2, AboveCommitted
    <3>2. r.seq \in Nat /\ r.seq >= 1 BY <2>1, <2>2, CommittedEvent
    <3> QED BY <1>4, <3>1, <3>2
  <2>3. CASE r \notin db
    <3>1. PICK k \in 1 .. Len(captured[c]) : k <= written[c] /\ r = captured[c][k]
      <4>1. PICK i \in 1 .. written[c] : r = Row(c, i) BY <1>2, <2>1, <2>3 DEF Inserted
      <4> QED BY <1>2, <2>1, <4>1, InsertedIs
    <3>2. k <= l BY <1>1, <2>1, <3>1
    <3>3. r.seq <= e.seq
      <4>1. CASE k = l BY <1>4, <3>1, <4>1
      <4>2. CASE k # l
        <5>1. k < l BY <3>2, <4>2
        <5> QED BY <1>1, <1>3, <1>4, <2>1, <3>1, <5>1, InBatchOrder, InsertedEvent
      <4> QED BY <4>1, <4>2
    <3> QED BY <3>1, <3>3, InsertedEvent, NumberedFromOne
  <2> QED BY <2>2, <2>3
<1>9. \A r, t \in own : r.seq = t.seq => r = t BY DEF EventsOf, KeysUnique, SameKey
<1>10. Fill(own, s)
  <2>1. \A i \in 1 .. Len(s) : \E r \in own : r.seq = i /\ r.val = s[i]
    BY <1>7 DEF IsReplay, Holds, EventsOf
  <2> QED BY <1>8, <1>9, <2>1 DEF Fill
<1> HIDE DEF e, own
<1>11. InOrder(own) = s BY <1>5, <1>10, InOrderIs
<1>12. StreamOf(a)' = s BY <1>11 DEF StreamOf, own
<1> QED BY <1>5, <1>7, <1>12

\* A sequence is its prefix followed by the rest.
LEMMA PrefixAndRest ==
  ASSUME NEW b \in Seq(Vals), NEW s \in Seq(Vals), Len(b) <= Len(s),
         \A i \in 1 .. Len(b) : b[i] = s[i]
  PROVE  s = b \o SubSeq(s, Len(b) + 1, Len(s))
<1> DEFINE n == Len(b)
           m == Len(s)
           t == SubSeq(s, n + 1, m)
<1>1. n \in Nat /\ m \in Nat /\ n <= m OBVIOUS
<1>2. \A i \in n + 1 .. m : s[i] \in Vals BY <1>1
<1>3. t \in Seq(Vals) /\ Len(t) = m - n /\ \A i \in 1 .. m - n : t[i] = s[n + i]
  <2>1. /\ t \in Seq(Vals) /\ Len(t) = IF n + 1 <= m THEN m - (n + 1) + 1 ELSE 0
        /\ \A i \in 1 .. m - (n + 1) + 1 : t[i] = s[n + 1 + i - 1]
    BY <1>1, <1>2, SubSeqProperties
  <2> HIDE DEF t, n, m
  <2> QED BY <1>1, <2>1
<1> HIDE DEF t
<1>4. /\ b \o t \in Seq(Vals) /\ Len(b \o t) = n + Len(t)
      /\ \A i \in 1 .. n + Len(t) : (b \o t)[i] = IF i <= n THEN b[i] ELSE t[i - n]
  BY <1>3, ConcatProperties
<1>5. \A i \in 1 .. m : (b \o t)[i] = s[i]
  <2> SUFFICES ASSUME NEW i \in 1 .. m PROVE (b \o t)[i] = s[i] OBVIOUS
  <2>1. CASE i <= n BY <1>1, <1>3, <1>4, <2>1
  <2>2. CASE ~(i <= n)
    <3>1. i - n \in 1 .. m - n /\ n + (i - n) = i BY <1>1, <2>2
    <3> QED BY <1>1, <1>3, <1>4, <2>2, <3>1
  <2> QED BY <2>1, <2>2
<1>6. Len(b \o t) = m BY <1>1, <1>3, <1>4
<1>7. s = b \o t BY <1>4, <1>5, <1>6, SeqEqual
<1> QED BY <1>7 DEF t

\* A commit appends to each stream what the context prepared for it; a stream for
\* which it prepared something is still what it loaded.
LEMMA CommitAppends ==
  ASSUME IndInv, PrefixReplays, KeysUnique', NEW c \in Clients, Commit(c),
         NEW a \in Aggregates, StreamOf(a) \in Seq(Vals)
  PROVE  /\ PendingOf(c, a) # <<>> => BaseOf(c, a) = StreamOf(a)
         /\ StreamOf(a)' = StreamOf(a) \o PendingOf(c, a)
         /\ StreamOf(a)' \in Seq(Vals)
<1>1. written[c] = BatchSize(c) /\ db' = db \cup Inserted(c) BY DEF Commit
<1>2. CASE CapturedFor(c, a) = {}
  <2>1. ASSUME NEW r \in db', r.table = "events", r.agg = a PROVE r \in db
    <3>1. SUFFICES ASSUME r \in Inserted(c) PROVE FALSE BY <1>1
    <3>2. PICK i \in 1 .. written[c] : r = Row(c, i) BY <3>1 DEF Inserted
    <3>3. PICK k \in 1 .. Len(captured[c]) : r = captured[c][k]
      BY <1>1, <2>1, <3>2, InsertedIs
    <3>4. k \in DOMAIN captured[c] BY DEF IndInv, TypeOK
    <3> QED BY <1>2, <2>1, <3>3, <3>4 DEF CapturedFor
  <2>2. EventsOf(a)' = EventsOf(a) BY <1>1, <2>1 DEF EventsOf
  <2>3. StreamOf(a)' = StreamOf(a) BY <2>2 DEF StreamOf
  <2>4. PendingOf(c, a) = <<>> BY <1>2 DEF PendingOf
  <2> QED BY <2>3, <2>4, ConcatEmptySeq
<1>3. CASE CapturedFor(c, a) # {}
  <2> DEFINE s == Append(LastFor(c, a).base, LastFor(c, a).val)
             b == BaseOf(c, a)
  <2>1. b = StreamOf(a) /\ IsReplay(db, a, b) BY <1>1, <1>3, BaseIsStream
  <2>2. PendingOf(c, a) = SubSeq(s, Len(b) + 1, Len(s)) BY <1>3 DEF PendingOf
  <2>3. b \in Seq(Vals) BY <2>1
  <2>4. StreamOf(a)' = s /\ s \in Seq(Vals) /\ IsReplay(db', a, s) BY <1>3, LastIsStream
  <2> HIDE DEF s, b
  <2>5. Len(b) <= Len(s)
    <3>1. DOMAIN StreamOf(a) \subseteq DOMAIN StreamOf(a)'
      <4>1. EventsOf(a) \subseteq EventsOf(a)' BY <1>1 DEF EventsOf
      <4>2. DOMAIN StreamOf(a) = {r.seq : r \in EventsOf(a)} BY DEF StreamOf, InOrder
      <4>3. DOMAIN StreamOf(a)' = {r.seq : r \in EventsOf(a)'} BY DEF StreamOf, InOrder
      <4> QED BY <4>1, <4>2, <4>3
    <3>2. DOMAIN b = 1 .. Len(b) /\ DOMAIN s = 1 .. Len(s) BY <2>3, <2>4
    <3>3. Len(b) \in Nat /\ Len(s) \in Nat BY <2>3, <2>4
    <3>4. 1 .. Len(b) \subseteq 1 .. Len(s) BY <2>1, <2>4, <3>1, <3>2
    <3>5. \A n, m \in Nat : 1 .. n \subseteq 1 .. m => n <= m
      <4> SUFFICES ASSUME NEW n \in Nat, NEW m \in Nat, 1 .. n \subseteq 1 .. m PROVE n <= m
        OBVIOUS
      <4>1. CASE n = 0 BY <4>1
      <4>2. CASE n # 0
        <5>1. n \in 1 .. n BY <4>2
        <5>2. n \in 1 .. m BY <5>1
        <5> QED BY <5>2
      <4> QED BY <4>1, <4>2
    <3> QED BY <3>3, <3>4, <3>5
  <2>6. ASSUME NEW i \in 1 .. Len(b) PROVE b[i] = s[i]
    <3>1. i \in 1 .. Len(s) BY <2>3, <2>4, <2>5
    <3>2. PICK r \in db : r.table = "events" /\ r.agg = a /\ r.seq = i /\ r.val = b[i]
      BY <2>1 DEF IsReplay, Holds
    <3>3. PICK t \in db' : t.table = "events" /\ t.agg = a /\ t.seq = i /\ t.val = s[i]
      BY <2>4, <3>1 DEF IsReplay, Holds
    <3>4. r \in db' /\ SameKey(r, t) BY <1>1, <3>2, <3>3 DEF SameKey
    <3>5. r = t BY <3>4 DEF KeysUnique
    <3> QED BY <3>2, <3>3, <3>5
  <2>7. s = b \o SubSeq(s, Len(b) + 1, Len(s)) BY <2>3, <2>4, <2>5, <2>6, PrefixAndRest
  <2>8. BaseOf(c, a) = StreamOf(a) BY <2>1 DEF b
  <2> QED BY <2>1, <2>2, <2>4, <2>7, <2>8
<1> QED BY <1>2, <1>3

\* What is read of the tables is a stream: a sequence, and not rows with gaps.
StreamsAreSequences == \A a \in Aggregates : StreamOf(a) \in Seq(Vals)

\* What a context expects and prepares is a matter of its batch.
LEMMA BatchDecides ==
  ASSUME NEW c \in Clients, NEW a \in Aggregates
  PROVE  /\ captured'[c] = captured[c] =>
              BaseOf(c, a)' = BaseOf(c, a) /\ PendingOf(c, a)' = PendingOf(c, a)
         /\ captured'[c] = <<>> => BaseOf(c, a)' = <<>> /\ PendingOf(c, a)' = <<>>
<1>1. CASE captured'[c] = captured[c]
  <2>1. CapturedFor(c, a)' = CapturedFor(c, a) BY <1>1 DEF CapturedFor
  <2>2. FirstFor(c, a)' = FirstFor(c, a) /\ LastFor(c, a)' = LastFor(c, a)
    BY <1>1, <2>1 DEF FirstFor, LastFor
  <2>3. BaseOf(c, a)' = BaseOf(c, a) BY <2>1, <2>2 DEF BaseOf
  <2>4. PendingOf(c, a)' = PendingOf(c, a) BY <2>1, <2>2, <2>3 DEF PendingOf
  <2>5. captured'[c] = <<>> => CapturedFor(c, a) = {} BY <1>1 DEF CapturedFor
  <2> QED BY <2>3, <2>4, <2>5 DEF BaseOf, PendingOf
<1>2. CASE captured'[c] = <<>>
  <2>1. CapturedFor(c, a)' = {} BY <1>2 DEF CapturedFor
  <2>2. BaseOf(c, a)' = <<>> /\ PendingOf(c, a)' = <<>> BY <2>1 DEF BaseOf, PendingOf
  <2>3. captured'[c] = captured[c] => BaseOf(c, a) = <<>> /\ PendingOf(c, a) = <<>>
    <3>1. captured'[c] = captured[c] => CapturedFor(c, a) = {} BY <1>2 DEF CapturedFor
    <3> QED BY <3>1 DEF BaseOf, PendingOf
  <2> QED BY <2>2, <2>3
<1> QED BY <1>1, <1>2

\* Only a commit changes the tables, and a step changes one batch.
LEMMA BatchCases ==
  ASSUME TypeOK, [Next]_vars
  PROVE  \/ \E c \in Clients : Commit(c)
         \/ db' = db /\ captured' = captured
         \/ db' = db /\ \E c \in Clients : \A d \in Clients \ {c} : captured'[d] = captured[d]
<1>1. ASSUME NEW c \in Clients, Discard(c)
      PROVE  \A d \in Clients \ {c} : captured'[d] = captured[d]
  BY <1>1 DEF Discard, TypeOK
<1>2. ASSUME NEW c \in Clients, InsertFails(c) \/ DeadlockVictim(c) \/ Abort(c)
      PROVE  db' = db /\ Discard(c)
  BY <1>2 DEF InsertFails, DeadlockVictim, Abort
<1>3. ASSUME NEW c \in Clients, NEW a \in Aggregates, NEW v \in Vals, ApplyEvent(c, a, v)
      PROVE  db' = db /\ \A d \in Clients \ {c} : captured'[d] = captured[d]
  BY <1>3 DEF ApplyEvent, TypeOK
<1>4. ASSUME NEW c \in Clients,
             \/ Begin(c) \/ LoadEvents(c) \/ ApplyFetched(c) \/ EndLoad(c) \/ Return(c)
             \/ InsertRow(c) \/ \E a \in Aggregates : CreateAggregate(c, a) \/ LoadSnapshot(c, a)
      PROVE  db' = db /\ captured' = captured
  BY <1>4 DEF Begin, LoadEvents, ApplyFetched, EndLoad, Return, InsertRow, CreateAggregate,
              LoadSnapshot
<1>5. CASE UNCHANGED vars BY <1>5 DEF vars, local
<1> QED BY <1>1, <1>2, <1>3, <1>4, <1>5 DEF Next

\* The streams of unchanged tables.
LEMMA SameStreams == db' = db => Streams' = Streams /\ StreamsAreSequences' = StreamsAreSequences
<1> SUFFICES ASSUME db' = db PROVE Streams' = Streams /\ StreamsAreSequences' = StreamsAreSequences
  OBVIOUS
<1>1. \A a \in Aggregates : StreamOf(a)' = StreamOf(a) BY DEF StreamOf, EventsOf
<1> QED BY <1>1 DEF Streams, StreamsAreSequences

\* Streams are sequences, before and after a step.
LEMMA NextStreams ==
  IndInv /\ IndInv' /\ PrefixReplays /\ StreamsAreSequences /\ [Next]_vars => StreamsAreSequences'
<1> SUFFICES ASSUME IndInv, IndInv', PrefixReplays, StreamsAreSequences, [Next]_vars
             PROVE  StreamsAreSequences'
  OBVIOUS
<1>1. TypeOK /\ KeysUnique' BY DEF IndInv
<1>2. CASE db' = db BY <1>2, SameStreams
<1>3. ASSUME NEW c \in Clients, Commit(c) PROVE StreamsAreSequences'
  <2>1. ASSUME NEW a \in Aggregates PROVE StreamOf(a)' \in Seq(Vals)
    BY <1>1, <1>3, CommitAppends DEF StreamsAreSequences
  <2> QED BY <2>1 DEF StreamsAreSequences
<1> QED BY <1>1, <1>2, <1>3, BatchCases

\* No rows, no events: empty streams, and nothing prepared.
LEMMA InitAppends == Init => StreamsAreSequences /\ PrefixReplays /\ Abstract!Init
<1> SUFFICES ASSUME Init PROVE StreamsAreSequences /\ PrefixReplays /\ Abstract!Init OBVIOUS
<1>1. ASSUME NEW a \in Aggregates PROVE StreamOf(a) = <<>>
  <2>1. EventsOf(a) = {} BY DEF Init, EventsOf
  <2>2. Fill({}, <<>>) BY DEF Fill
  <2>3. <<>> \in Seq(Vals) OBVIOUS
  <2>4. InOrder({}) = <<>> BY <2>2, <2>3, InOrderIs
  <2> QED BY <2>1, <2>4 DEF StreamOf
<1>2. ASSUME NEW c \in Clients, NEW a \in Aggregates
      PROVE  BaseOf(c, a) = <<>> /\ PendingOf(c, a) = <<>>
  <2>1. CapturedFor(c, a) = {} BY DEF Init, CapturedFor
  <2> QED BY <2>1 DEF BaseOf, PendingOf
<1>3. Streams = Abstract!Nothing BY <1>1 DEF Streams, Abstract!Nothing
<1>4. Expected = [c \in Clients |-> Abstract!Nothing]
  <2>1. \A c \in Clients : [a \in Aggregates |-> BaseOf(c, a)] = [a \in Aggregates |-> <<>>]
    BY <1>2
  <2> QED BY <2>1 DEF Expected, Abstract!Nothing
<1>5. Prepared = [c \in Clients |-> Abstract!Nothing]
  <2>1. \A c \in Clients : [a \in Aggregates |-> PendingOf(c, a)] = [a \in Aggregates |-> <<>>]
    BY <1>2
  <2> QED BY <2>1 DEF Prepared, Abstract!Nothing
<1>6. PrefixReplays BY DEF Init, PrefixReplays
<1>7. StreamsAreSequences
  <2>1. <<>> \in Seq(Vals) OBVIOUS
  <2> QED BY <1>1, <2>1 DEF StreamsAreSequences
<1> QED BY <1>3, <1>4, <1>5, <1>6, <1>7 DEF Abstract!Init

\* Every step before the commit is private to the context that makes it.
LEMMA OthersPrepare ==
  ASSUME TypeOK, TypeOK', db' = db, NEW c \in Clients,
         \A d \in Clients \ {c} : captured'[d] = captured[d]
  PROVE  Abstract!Prepare(c)
<1>1. Streams' = Streams BY SameStreams
<1>2. \A d \in Clients \ {c} : Expected'[d] = Expected[d] /\ Prepared'[d] = Prepared[d]
  <2> SUFFICES ASSUME NEW d \in Clients \ {c}
               PROVE  Expected'[d] = Expected[d] /\ Prepared'[d] = Prepared[d]
    OBVIOUS
  <2>1. \A a \in Aggregates : BaseOf(d, a)' = BaseOf(d, a) /\ PendingOf(d, a)' = PendingOf(d, a)
    BY BatchDecides
  <2> QED BY <2>1 DEF Expected, Prepared
<1>3. Expected'[c] \in [Aggregates -> Seq(Vals)] /\ Prepared'[c] \in [Aggregates -> Seq(Vals)]
  <2>1. ASSUME NEW a \in Aggregates
        PROVE  BaseOf(c, a)' \in Seq(Vals) /\ PendingOf(c, a)' \in Seq(Vals)
    BY PreparedNext DEF PreparedOK
  <2> QED BY <2>1 DEF Expected, Prepared
<1> QED BY <1>1, <1>2, <1>3 DEF Abstract!Prepare

\* A commit appends all that a context prepared, to all of its streams.
LEMMA CommitAppendsAll ==
  ASSUME IndInv, IndInv', PrefixReplays, StreamsAreSequences, NEW c \in Clients, Commit(c)
  PROVE  Abstract!AppendAll(c)
<1>1. ASSUME NEW a \in Aggregates
      PROVE  /\ PendingOf(c, a) # <<>> => BaseOf(c, a) = StreamOf(a)
             /\ StreamOf(a)' = StreamOf(a) \o PendingOf(c, a)
  BY CommitAppends DEF IndInv, StreamsAreSequences
<1>2. \A a \in Aggregates : Prepared[c][a] # <<>> => Expected[c][a] = Streams[a]
  BY <1>1 DEF Prepared, Expected, Streams
<1>3. Streams' = [a \in Aggregates |-> Streams[a] \o Prepared[c][a]]
  BY <1>1 DEF Prepared, Streams
<1>4. captured' = [captured EXCEPT ![c] = <<>>] /\ captured \in [Clients -> Seq(EventRow)]
  BY DEF Commit, Discard, IndInv, TypeOK
<1>5. \A d \in Clients, a \in Aggregates :
        /\ BaseOf(d, a)' = IF d = c THEN <<>> ELSE BaseOf(d, a)
        /\ PendingOf(d, a)' = IF d = c THEN <<>> ELSE PendingOf(d, a)
  <2> SUFFICES ASSUME NEW d \in Clients, NEW a \in Aggregates
               PROVE  /\ BaseOf(d, a)' = IF d = c THEN <<>> ELSE BaseOf(d, a)
                      /\ PendingOf(d, a)' = IF d = c THEN <<>> ELSE PendingOf(d, a)
    OBVIOUS
  <2>1. CASE d = c
    <3>1. captured'[d] = <<>> BY <1>4, <2>1
    <3> QED BY <2>1, <3>1, BatchDecides
  <2>2. CASE d # c
    <3>1. captured'[d] = captured[d] BY <1>4, <2>2
    <3> QED BY <2>2, <3>1, BatchDecides
  <2> QED BY <2>1, <2>2
<1>6. Expected' = [Expected EXCEPT ![c] = Abstract!Nothing]
  BY <1>5 DEF Expected, Abstract!Nothing
<1>7. Prepared' = [Prepared EXCEPT ![c] = Abstract!Nothing]
  BY <1>5 DEF Prepared, Abstract!Nothing
<1> QED BY <1>2, <1>3, <1>6, <1>7 DEF Abstract!AppendAll

\* Contexts compare and append: whatever the interleaving of statements, a context
\* that commits finds every stream it appends to exactly as it loaded it, appends all
\* its events to all of these streams in one step, and no other step of any context
\* changes a stream (WithContext, SaveState, WriteState, the UNIQUE constraint).
THEOREM ContextsCompareAndAppend == Spec => ImplementsCompareAndAppend
<1> DEFINE AllInv == IndInv /\ PrefixReplays /\ StreamsAreSequences
<1>1. Init => AllInv /\ Abstract!Init BY InitInv, InitAppends
<1>2. AllInv /\ [Next]_vars => AllInv' BY StepInv, NextPrefix, NextStreams
<1>3. AllInv /\ AllInv' /\ [Next]_vars => [Abstract!Next]_(Abstract!cvars)
  <2> SUFFICES ASSUME AllInv, AllInv', [Next]_vars PROVE [Abstract!Next]_(Abstract!cvars)
    OBVIOUS
  <2>1. TypeOK /\ TypeOK' BY DEF IndInv
  <2>2. ASSUME NEW c \in Clients, Commit(c) PROVE Abstract!Next
    BY <2>2, CommitAppendsAll DEF Abstract!Next
  <2>3. ASSUME db' = db, captured' = captured PROVE UNCHANGED Abstract!cvars
    <3>1. Streams' = Streams BY <2>3, SameStreams
    <3>2. \A c \in Clients, a \in Aggregates :
            BaseOf(c, a)' = BaseOf(c, a) /\ PendingOf(c, a)' = PendingOf(c, a)
      BY <2>3, BatchDecides
    <3>3. Expected' = Expected /\ Prepared' = Prepared BY <3>2 DEF Expected, Prepared
    <3> QED BY <3>1, <3>3 DEF Abstract!cvars
  <2>4. ASSUME db' = db, NEW c \in Clients,
               \A d \in Clients \ {c} : captured'[d] = captured[d]
        PROVE  Abstract!Next
    BY <2>1, <2>4, OthersPrepare DEF Abstract!Next
  <2> QED BY <2>1, <2>2, <2>3, <2>4, BatchCases
<1> QED BY <1>1, <1>2, <1>3, PTL DEF Spec, ImplementsCompareAndAppend, Abstract!Spec

-----------------------------------------------------------------------------
(* The invariant of ids.                                                    *)

\* A context has an id for each event it has inserted, and perhaps one more for the
\* INSERT that has begun.
EventsIn(c) == IF written[c] <= Len(captured[c]) THEN written[c] ELSE Len(captured[c])
IdsOK ==
  /\ lastEventId \in Nat /\ taken \in [Clients -> Seq(Nat)]
  /\ \A c \in Clients :
       \/ Len(taken[c]) = EventsIn(c)
       \/ /\ phase[c] = "saving" /\ Len(taken[c]) = written[c] + 1
          /\ Len(taken[c]) <= Len(captured[c])
  /\ \A c \in Clients : \A i \in DOMAIN taken[c] : taken[c][i] \in 1 .. lastEventId
  /\ \A r \in log : r.id \in 1 .. lastEventId

\* No id is used twice.
IdsUnique ==
  /\ \A c, d \in Clients : \A i \in DOMAIN taken[c], j \in DOMAIN taken[d] :
       taken[c][i] = taken[d][j] => c = d /\ i = j
  /\ \A c \in Clients : \A i \in DOMAIN taken[c] : \A r \in log : r.id # taken[c][i]
  /\ \A r, s \in log : r.id = s.id => r = s

\* Only committed events are shown.
LoggedInv ==
  /\ \A r \in log :
       \E e \in db : e.table = "events" /\ e.agg = r.agg /\ e.seq = r.seq /\ e.val = r.val
  /\ \A r \in log : r.seq \in Nat /\ r.agg \in Aggregates /\ r.val \in Vals

\* The INSERT of this event will fail: its key is in the table.
Doomed(c, i) == i > written[c] /\ \E x \in db : SameKey(x, captured[c][i])

\* An event has a higher id than what is shown of its stream, or will not get into it.
NewerIds ==
  \A c \in Clients : \A i \in DOMAIN taken[c] : \A r \in log :
    r.agg = captured[c][i].agg => r.id < taken[c][i] \/ Doomed(c, i)

IdsInv == IdsOK /\ IdsUnique /\ LoggedInv /\ NewerIds

\* The steps of EventStoreLog are those of EventStore.
LEMMA LogSteps == [LogNext]_logVars => [Next]_vars
BY DEF LogNext, Next, DrawId, CommitShows, logVars

\* Steps that neither insert nor end a context.
Quiet ==
  /\ UNCHANGED <<lastEventId, taken, log, db, written>>
  /\ \A c \in Clients : phase[c] = "saving" => captured'[c] = captured[c] /\ phase'[c] = "saving"

Inserts(c) == HasBegun(c) /\ InsertRow(c) /\ UNCHANGED idVars
Ends(c) == (InsertFails(c) \/ DeadlockVictim(c) \/ Abort(c)) /\ GiveUp(c)

\* What a step does to ids.
LEMMA IdSteps ==
  ASSUME IndInv, [LogNext]_logVars
  PROVE  Quiet \/ \E c \in Clients : DrawId(c) \/ Inserts(c) \/ CommitShows(c) \/ Ends(c)
<1>1. ASSUME NEW c \in Clients, NEW a \in Aggregates, NEW v \in Vals, ApplyEvent(c, a, v),
             UNCHANGED idVars
      PROVE  Quiet
  <2>1. phase[c] # "saving" /\ phase' = phase BY <1>1 DEF ApplyEvent
  <2>2. \A d \in Clients : d # c => captured'[d] = captured[d]
    BY <1>1 DEF ApplyEvent, IndInv, TypeOK
  <2>3. UNCHANGED <<db, written>> BY <1>1 DEF ApplyEvent
  <2> QED BY <1>1, <2>1, <2>2, <2>3 DEF Quiet, idVars
<1>2. ASSUME NEW c \in Clients, UNCHANGED idVars,
             \/ Begin(c) \/ LoadEvents(c) \/ ApplyFetched(c) \/ EndLoad(c) \/ Return(c)
             \/ \E a \in Aggregates : CreateAggregate(c, a) \/ LoadSnapshot(c, a)
      PROVE  Quiet
  <2>1. UNCHANGED <<db, written, captured>>
    BY <1>2 DEF Begin, LoadEvents, ApplyFetched, EndLoad, Return, CreateAggregate, LoadSnapshot
  <2>2. phase[c] # "saving" /\ \A d \in Clients : d # c => phase'[d] = phase[d]
    BY <1>2 DEF Begin, LoadEvents, ApplyFetched, EndLoad, Return, CreateAggregate, LoadSnapshot,
               IndInv, TypeOK
  <2> QED BY <1>2, <2>1, <2>2 DEF Quiet, idVars
<1>3. CASE UNCHANGED logVars BY <1>3 DEF Quiet, logVars, idVars, vars, local
<1> QED BY <1>1, <1>2, <1>3 DEF LogNext, Inserts, Ends

\* An id belongs to an event that is captured, and inserted or the next to be.
LEMMA TakenIs ==
  ASSUME IndInv, IdsInv, NEW c \in Clients, NEW i \in DOMAIN taken[c]
  PROVE  /\ i \in 1 .. Len(captured[c]) /\ (i <= written[c] \/ i = written[c] + 1)
         /\ phase[c] = "saving" /\ written[c] \in Nat
         /\ taken[c] \in Seq(Nat) /\ i \in Nat /\ taken[c][i] \in 1 .. lastEventId
         /\ captured[c][i] \in EventRow
<1>1. /\ captured[c] \in Seq(EventRow) /\ written[c] \in Nat /\ taken[c] \in Seq(Nat)
      /\ phase[c] # "saving" => written[c] = 0
      /\ \/ Len(taken[c]) = EventsIn(c)
         \/ /\ phase[c] = "saving" /\ Len(taken[c]) = written[c] + 1
            /\ Len(taken[c]) <= Len(captured[c])
  BY DEF IndInv, TypeOK, PhasesOK, IdsInv, IdsOK
<1>2. i \in 1 .. Len(taken[c]) /\ Len(captured[c]) \in Nat BY <1>1
<1>3. i \in 1 .. Len(captured[c]) /\ (i <= written[c] \/ i = written[c] + 1)
  BY <1>1, <1>2 DEF EventsIn
<1>4. phase[c] = "saving"
  <2>1. CASE written[c] # 0 BY <1>1, <2>1
  <2>2. CASE written[c] = 0 BY <1>1, <1>2, <2>2 DEF EventsIn
  <2> QED BY <2>1, <2>2
<1> QED BY <1>1, <1>2, <1>3, <1>4 DEF IdsInv, IdsOK

\* Steps that leave ids alone.
LEMMA QuietIds == ASSUME IndInv, TypeOK', IdsInv, Quiet PROVE IdsInv'
<1>1. UNCHANGED <<lastEventId, taken, log, db, written>> BY DEF Quiet
<1>2. \A c \in Clients : \A i \in DOMAIN taken[c] : captured'[c] = captured[c]
  BY TakenIs DEF Quiet
<1>3. IdsOK'
  <2>1. ASSUME NEW c \in Clients
        PROVE  \/ Len(taken[c]) = EventsIn(c)'
               \/ /\ phase'[c] = "saving" /\ Len(taken[c]) = written[c] + 1
                  /\ Len(taken[c]) <= Len(captured'[c])
    <3>1. Len(captured[c]) \in Nat /\ Len(captured'[c]) \in Nat BY DEF IndInv, TypeOK
    <3>2. written[c] \in Nat /\ (phase[c] # "saving" => written[c] = 0)
      BY DEF IndInv, TypeOK, PhasesOK
    <3>3. CASE phase[c] = "saving" BY <1>1, <3>3 DEF Quiet, IdsInv, IdsOK, EventsIn
    <3>4. CASE phase[c] # "saving" BY <1>1, <3>1, <3>2, <3>4 DEF IdsInv, IdsOK, EventsIn
    <3> QED BY <3>3, <3>4
  <2> QED BY <1>1, <2>1 DEF IdsInv, IdsOK
<1>4. IdsUnique' BY <1>1 DEF IdsInv, IdsUnique
<1>5. LoggedInv' BY <1>1 DEF IdsInv, LoggedInv
<1>6. NewerIds' BY <1>1, <1>2 DEF IdsInv, NewerIds, Doomed
<1> QED BY <1>3, <1>4, <1>5, <1>6 DEF IdsInv

\* INSERT of a row leaves all ids as they are.
LEMMA InsertLeaves ==
  ASSUME IndInv, NEW c \in Clients, Inserts(c)
  PROVE  /\ UNCHANGED <<captured, phase, log, db, lastEventId, taken>> /\ phase[c] = "saving"
         /\ written' = [written EXCEPT ![c] = written[c] + 1]
         /\ written'[c] = written[c] + 1 /\ \A d \in Clients : d # c => written'[d] = written[d]
<1>1. written \in [Clients -> Nat] BY DEF IndInv, TypeOK
<1> QED BY <1>1 DEF Inserts, InsertRow, idVars

\* An event that gets into the table was not doomed.
LEMMA InsertIds == ASSUME IndInv, IdsInv, NEW c \in Clients, Inserts(c) PROVE IdsInv'
<1>1. /\ UNCHANGED <<captured, phase, log, db, lastEventId, taken>> /\ phase[c] = "saving"
      /\ written'[c] = written[c] + 1 /\ \A d \in Clients : d # c => written'[d] = written[d]
      /\ written[c] \in Nat /\ captured[c] \in Seq(EventRow) /\ Len(captured[c]) \in Nat
  BY InsertLeaves DEF IndInv, TypeOK
<1>2. IdsOK'
  <2>1. ASSUME NEW d \in Clients
        PROVE  \/ Len(taken[d]) = EventsIn(d)'
               \/ /\ phase[d] = "saving" /\ Len(taken[d]) = written'[d] + 1
                  /\ Len(taken[d]) <= Len(captured[d])
    <3>1. CASE d # c BY <1>1, <3>1 DEF IdsInv, IdsOK, EventsIn
    <3>2. CASE d = c
      <4>1. \/ Len(taken[c]) = EventsIn(c)
            \/ Len(taken[c]) = written[c] + 1 /\ Len(taken[c]) <= Len(captured[c])
        BY DEF IdsInv, IdsOK
      <4>2. CASE written[c] < Len(captured[c])
        <5>1. Len(taken[c]) = written[c] + 1 BY <1>1, <4>1, <4>2 DEF Inserts, HasBegun, EventsIn
        <5> QED BY <1>1, <3>2, <4>2, <5>1 DEF EventsIn
      <4>3. CASE ~(written[c] < Len(captured[c]))
        <5>1. Len(taken[c]) = Len(captured[c]) BY <1>1, <4>1, <4>3 DEF EventsIn
        <5> QED BY <1>1, <3>2, <4>3, <5>1 DEF EventsIn
      <4> QED BY <4>2, <4>3
    <3> QED BY <3>1, <3>2
  <2> QED BY <1>1, <2>1 DEF IdsInv, IdsOK
<1>3. IdsUnique' /\ LoggedInv' BY <1>1 DEF IdsInv, IdsUnique, LoggedInv
<1>4. NewerIds'
  <2>1. ASSUME NEW d \in Clients, NEW i \in DOMAIN taken[d], NEW r \in log,
               r.agg = captured[d][i].agg, ~(r.id < taken[d][i])
        PROVE  Doomed(d, i)'
    <3>1. Doomed(d, i) BY <2>1 DEF IdsInv, NewerIds
    <3>2. CASE d # c BY <1>1, <3>1, <3>2 DEF Doomed
    <3>3. CASE d = c
      <4>1. i = written[c] + 1 /\ i \in 1 .. Len(captured[c])
        BY <1>1, <2>1, <3>1, <3>3, TakenIs DEF Doomed
      <4>2. NextRow(c) = captured[c][i] BY <1>1, <4>1 DEF NextRow, Row
      <4>3. Taken(c) BY <3>1, <3>3, <4>2 DEF Doomed, Taken
      <4> QED BY <4>3 DEF Inserts, InsertRow
    <3> QED BY <3>2, <3>3
  <2> QED BY <1>1, <2>1 DEF NewerIds
<1> QED BY <1>2, <1>3, <1>4 DEF IdsInv

\* The ids of one context after it took another one.
LEMMA AfterTaking ==
  ASSUME IdsInv, NEW c \in Clients,
         taken' = [taken EXCEPT ![c] = Append(taken[c], lastEventId + 1)]
  PROVE  /\ taken' \in [Clients -> Seq(Nat)] /\ Len(taken'[c]) = Len(taken[c]) + 1
         /\ \A d \in Clients : d # c => taken'[d] = taken[d]
         /\ taken'[c][Len(taken[c]) + 1] = lastEventId + 1
         /\ Len(taken[c]) + 1 \in DOMAIN taken'[c] /\ Len(taken[c]) + 1 \notin DOMAIN taken[c]
         /\ \A i \in DOMAIN taken[c] : i \in DOMAIN taken'[c] /\ taken'[c][i] = taken[c][i]
         /\ \A i \in DOMAIN taken'[c] : i = Len(taken[c]) + 1 \/ i \in DOMAIN taken[c]
<1>1. taken \in [Clients -> Seq(Nat)] /\ lastEventId \in Nat BY DEF IdsInv, IdsOK
<1>2. taken[c] \in Seq(Nat) /\ lastEventId + 1 \in Nat BY <1>1
<1>3. taken'[c] = Append(taken[c], lastEventId + 1) /\ \A d \in Clients : d # c => taken'[d] = taken[d]
  BY <1>1
<1>4. taken' \in [Clients -> Seq(Nat)] BY <1>1, <1>2
<1> QED BY <1>2, <1>3, <1>4

\* The new id is higher than all that were taken, so it is nobody else's.
LEMMA DrawIds ==
  ASSUME IndInv, IdsInv, NEW c \in Clients, DrawId(c)
  PROVE  IdsInv'
<1> DEFINE new == lastEventId + 1
           n == Len(taken[c]) + 1
<1>a. /\ UNCHANGED <<captured, written, phase, log, db>>
      /\ written \in [Clients -> Nat] /\ lastEventId \in Nat
  BY DEF DrawId, vars, local, IndInv, TypeOK, IdsInv, IdsOK
<1>b. written[c] \in Nat /\ Len(captured[c]) \in Nat BY DEF IndInv, TypeOK
<1>c. LoggedInv' BY <1>a DEF IdsInv, LoggedInv
<1>d. /\ phase[c] = "saving" /\ written[c] < Len(captured[c]) /\ Len(taken[c]) = written[c]
      /\ lastEventId' = new /\ taken' = [taken EXCEPT ![c] = Append(taken[c], new)]
  BY DEF DrawId
<1>1. /\ taken' \in [Clients -> Seq(Nat)] /\ Len(taken'[c]) = n
      /\ \A d \in Clients : d # c => taken'[d] = taken[d]
      /\ taken'[c][n] = new
      /\ \A i \in DOMAIN taken[c] : i \in DOMAIN taken'[c] /\ taken'[c][i] = taken[c][i]
      /\ \A i \in DOMAIN taken'[c] : i = n \/ i \in DOMAIN taken[c]
  BY <1>d, AfterTaking
<1> HIDE DEF n
<1>2. \A d \in Clients : \A i \in DOMAIN taken[d] : taken[d][i] \in 1 .. lastEventId
  BY DEF IdsInv, IdsOK
<1>3. \A r \in log : r.id \in 1 .. lastEventId BY DEF IdsInv, IdsOK
<1>4. ASSUME NEW d \in Clients, NEW i \in DOMAIN taken'[d]
      PROVE  \/ i \in DOMAIN taken[d] /\ taken'[d][i] = taken[d][i] /\ taken'[d][i] # new
                /\ taken'[d][i] \in 1 .. new
             \/ d = c /\ i = n /\ taken'[d][i] = new
  <2>1. CASE i \in DOMAIN taken[d] /\ taken'[d][i] = taken[d][i] BY <1>a, <1>2, <2>1
  <2>2. CASE d = c /\ i = n BY <1>1, <2>2
  <2> QED BY <1>1, <1>4, <2>1, <2>2
<1>5. IdsOK'
  <2>1. \A d \in Clients :
          \/ Len(taken'[d]) = EventsIn(d)
          \/ /\ phase[d] = "saving" /\ Len(taken'[d]) = written[d] + 1
             /\ Len(taken'[d]) <= Len(captured[d])
    <3>1. \A d \in Clients : d # c => taken'[d] = taken[d] BY <1>1
    <3>2. Len(taken'[c]) = written[c] + 1 /\ written[c] + 1 <= Len(captured[c])
      BY <1>b, <1>d, <1>1 DEF n
    <3> QED BY <1>d, <3>1, <3>2 DEF IdsInv, IdsOK
  <2>2. \A d \in Clients : \A i \in DOMAIN taken'[d] : taken'[d][i] \in 1 .. new BY <1>a, <1>4
  <2>3. \A r \in log : r.id \in 1 .. new BY <1>a, <1>3
  <2> QED BY <1>a, <1>d, <1>1, <2>1, <2>2, <2>3 DEF IdsOK, EventsIn
<1>6. IdsUnique'
  <2>1. ASSUME NEW d \in Clients, NEW e \in Clients, NEW i \in DOMAIN taken'[d],
               NEW j \in DOMAIN taken'[e], taken'[d][i] = taken'[e][j]
        PROVE  d = e /\ i = j
    <3>1. CASE taken'[d][i] = new
      <4>1. d = c /\ i = n BY <1>4, <3>1
      <4>2. e = c /\ j = n BY <1>4, <2>1, <3>1
      <4> QED BY <4>1, <4>2
    <3>2. CASE taken'[d][i] # new
      <4>1. i \in DOMAIN taken[d] /\ taken'[d][i] = taken[d][i] BY <1>4, <3>2
      <4>2. j \in DOMAIN taken[e] /\ taken'[e][j] = taken[e][j] BY <1>4, <2>1, <3>2
      <4>3. taken[d][i] = taken[e][j] BY <2>1, <4>1, <4>2
      <4> QED BY <4>1, <4>2, <4>3 DEF IdsInv, IdsUnique
    <3> QED BY <3>1, <3>2
  <2>2. ASSUME NEW d \in Clients, NEW i \in DOMAIN taken'[d], NEW r \in log
        PROVE  r.id # taken'[d][i]
    <3>1. r.id # new BY <1>a, <1>3
    <3> QED BY <1>4, <3>1 DEF IdsInv, IdsUnique
  <2> QED BY <1>a, <2>1, <2>2 DEF IdsInv, IdsUnique
<1>7. NewerIds'
  <2>1. ASSUME NEW d \in Clients, NEW i \in DOMAIN taken'[d], NEW r \in log,
               r.agg = captured[d][i].agg
        PROVE  r.id < taken'[d][i] \/ Doomed(d, i)
    <3>1. CASE taken'[d][i] = new BY <1>a, <1>3, <3>1
    <3>2. CASE i \in DOMAIN taken[d] /\ taken'[d][i] = taken[d][i]
      BY <2>1, <3>2 DEF IdsInv, NewerIds
    <3> QED BY <1>4, <3>1, <3>2
  <2> QED BY <1>a, <2>1 DEF NewerIds, Doomed
<1> QED BY <1>c, <1>5, <1>6, <1>7 DEF IdsInv

\* What Discard leaves of batches and ids.
LEMMA AfterEnd ==
  ASSUME IndInv, IdsInv, NEW c \in Clients, Discard(c), taken' = [taken EXCEPT ![c] = <<>>]
  PROVE  /\ taken' \in [Clients -> Seq(Nat)]
         /\ taken'[c] = <<>> /\ captured'[c] = <<>> /\ written'[c] = 0
         /\ \A d \in Clients : d # c =>
              /\ taken'[d] = taken[d] /\ captured'[d] = captured[d]
              /\ written'[d] = written[d] /\ phase'[d] = phase[d]
<1>1. taken \in [Clients -> Seq(Nat)] BY DEF IdsInv, IdsOK
<1>2. /\ captured \in [Clients -> Seq(EventRow)] /\ written \in [Clients -> Nat]
      /\ captured' = [captured EXCEPT ![c] = <<>>] /\ written' = [written EXCEPT ![c] = 0]
  BY DEF Discard, IndInv, TypeOK
<1>3. \A d \in Clients : d # c => phase'[d] = phase[d] BY DEF Discard, IndInv, TypeOK
<1> QED BY <1>1, <1>2, <1>3

\* So each context still has as many ids as events.
LEMMA CountAfterEnd ==
  ASSUME IndInv, IdsInv, NEW c \in Clients, Discard(c), taken' = [taken EXCEPT ![c] = <<>>],
         NEW d \in Clients
  PROVE  \/ Len(taken'[d]) = EventsIn(d)'
         \/ /\ phase'[d] = "saving" /\ Len(taken'[d]) = written'[d] + 1
            /\ Len(taken'[d]) <= Len(captured'[d])
<1>1. CASE d = c
  <2>1. taken'[c] = <<>> /\ captured'[c] = <<>> /\ written'[c] = 0 BY AfterEnd
  <2>2. Len(taken'[c]) = 0 /\ Len(captured'[c]) = 0 BY <2>1
  <2> QED BY <1>1, <2>1, <2>2 DEF EventsIn
<1>2. CASE d # c
  <2>1. /\ taken'[d] = taken[d] /\ captured'[d] = captured[d]
        /\ written'[d] = written[d] /\ phase'[d] = phase[d]
    BY <1>2, AfterEnd
  <2> QED BY <2>1 DEF IdsInv, IdsOK, EventsIn
<1> QED BY <1>1, <1>2

\* A context that fails gives up its ids.
LEMMA EndIds ==
  ASSUME IndInv, IdsInv, NEW c \in Clients, Ends(c)
  PROVE  IdsInv'
<1>1. /\ Discard(c) /\ UNCHANGED <<db, lastEventId, log>> /\ taken' = [taken EXCEPT ![c] = <<>>]
  BY DEF Ends, InsertFails, DeadlockVictim, Abort, GiveUp
<1>2. /\ taken' \in [Clients -> Seq(Nat)]
      /\ taken'[c] = <<>> /\ captured'[c] = <<>> /\ written'[c] = 0
      /\ \A d \in Clients : d # c =>
           taken'[d] = taken[d] /\ captured'[d] = captured[d] /\ written'[d] = written[d]
  BY <1>1, AfterEnd
<1>3. \A d \in Clients : \A i \in DOMAIN taken'[d] : d # c BY <1>2
<1>4. IdsOK'
  <2>1. \A d \in Clients :
          \/ Len(taken'[d]) = EventsIn(d)'
          \/ /\ phase'[d] = "saving" /\ Len(taken'[d]) = written'[d] + 1
             /\ Len(taken'[d]) <= Len(captured'[d])
    BY <1>1, CountAfterEnd
  <2> QED BY <1>1, <1>2, <1>3, <2>1 DEF IdsInv, IdsOK
<1>5. IdsUnique' BY <1>1, <1>2, <1>3 DEF IdsInv, IdsUnique
<1>6. LoggedInv' BY <1>1 DEF IdsInv, LoggedInv
<1>7. NewerIds' BY <1>1, <1>2, <1>3 DEF IdsInv, NewerIds, Doomed
<1> QED BY <1>4, <1>5, <1>6, <1>7 DEF IdsInv

\* A row that a commit shows has the id its INSERT took, and its event.
LEMMA ShownIs ==
  ASSUME IndInv, IdsInv, NEW c \in Clients, CommitShows(c), NEW r \in log', r \notin log
  PROVE  \E i \in DOMAIN taken[c] :
           /\ r = LoggedRow(c, i) /\ r.id = taken[c][i] /\ r.agg = captured[c][i].agg
           /\ r.seq = captured[c][i].seq /\ r.val = captured[c][i].val
BY DEF CommitShows, LoggedRow

\* A context that commits has inserted all its events.
LEMMA CommitsInserted ==
  ASSUME IndInv, IdsInv, NEW c \in Clients, CommitShows(c), NEW i \in DOMAIN taken[c]
  PROVE  i \in 1 .. Len(captured[c]) /\ i <= written[c]
<1>1. i \in 1 .. Len(captured[c]) BY TakenIs
<1>2. written[c] = Len(captured[c]) + Len(staged[c]) BY DEF CommitShows, Commit, BatchSize
<1>3. Len(captured[c]) \in Nat /\ Len(staged[c]) \in Nat BY DEF IndInv, TypeOK
<1>4. \A x, y \in Nat : \A k \in 1 .. x : k <= x + y OBVIOUS
<1> QED BY <1>1, <1>2, <1>3, <1>4

\* Where another context has inserted events of the stream, that of a context's next
\* INSERT is among them or among those that were there before.
LEMMA OthersDoomIt ==
  ASSUME IndInv, PrefixReplays, NEW c \in Clients, NEW d \in Clients, c # d,
         NEW i \in 1 .. Len(captured[c]), i = written[c] + 1,
         NEW j \in 1 .. Len(captured[d]), j <= written[d],
         captured[c][i].agg = captured[d][j].agg
  PROVE  \E x \in db \cup Inserted(d) : SameKey(x, captured[c][i])
<1> DEFINE e == captured[c][i]
           f == captured[d][j]
<1>1. e \in EventRow /\ e.table = "events" /\ e.seq \in Nat
  <2>1. captured[c] \in Seq(EventRow) BY DEF IndInv, TypeOK
  <2>2. e \in EventRow BY <2>1
  <2> QED BY <2>2 DEF EventRow
<1>2. e.seq >= 1
  <2>1. Len(e.base) = e.seq - 1 BY DEF IndInv, CapturedAreReplays
  <2>2. \A g \in EventRow : Len(g.base) \in Nat BY DEF EventRow, State
  <2> QED BY <1>1, <2>1, <2>2
<1>3. f.table = "events" /\ f.seq \in Nat /\ Row(d, j) = f /\ j \in 1 .. written[d]
      /\ \A r \in db : ~SameKey(f, r)
  BY InsertedEvent
<1>4. f.seq >= 1
  <2>1. Len(f.base) = f.seq - 1 BY DEF IndInv, CapturedAreReplays
  <2>2. f \in EventRow BY InsertedEvent
  <2>3. \A g \in EventRow : Len(g.base) \in Nat BY DEF EventRow, State
  <2> QED BY <1>3, <2>1, <2>2, <2>3
<1>5. written[c] \in Nat /\ written[d] \in Nat BY DEF IndInv, TypeOK
<1>6. CASE f.seq < e.seq
  <2> DEFINE n == f.seq
  <2>1. n \in Nat /\ n >= 1 /\ n <= e.seq BY <1>1, <1>3, <1>4, <1>6
  <2>2. \/ \E r \in db : r.table = "events" /\ r.agg = e.agg /\ r.seq = n
        \/ \E k \in 1 .. Len(captured[c]) :
             k <= i /\ captured[c][k].agg = e.agg /\ captured[c][k].seq = n
    <3> HIDE DEF n
    <3> QED BY <2>1, NumbersBelow
  <2>3. ASSUME NEW r \in db, r.table = "events" /\ r.agg = e.agg /\ r.seq = n PROVE FALSE
    BY <1>3, <2>3 DEF SameKey
  <2>4. ASSUME NEW k \in 1 .. Len(captured[c]), k <= i, captured[c][k].agg = e.agg,
               captured[c][k].seq = n
        PROVE  FALSE
    <3>1. k # i BY <1>1, <1>3, <1>6, <2>4
    <3>2. k <= written[c] BY <1>5, <2>4, <3>1
    <3> QED BY <2>4, <3>2, OneWriter
  <2> QED BY <2>2, <2>3, <2>4
<1>7. CASE ~(f.seq < e.seq)
  <2> DEFINE n == e.seq
  <2>1. n \in Nat /\ n >= 1 /\ n <= f.seq BY <1>1, <1>2, <1>3, <1>7
  <2>2. \/ \E r \in db : r.table = "events" /\ r.agg = f.agg /\ r.seq = n
        \/ \E k \in 1 .. Len(captured[d]) :
             k <= j /\ captured[d][k].agg = f.agg /\ captured[d][k].seq = n
    <3> HIDE DEF n
    <3> QED BY <2>1, NumbersBelow
  <2>3. CASE \E r \in db : r.table = "events" /\ r.agg = f.agg /\ r.seq = n
    BY <1>1, <2>3 DEF SameKey
  <2>4. ASSUME NEW k \in 1 .. Len(captured[d]), k <= j, captured[d][k].agg = f.agg,
               captured[d][k].seq = n
        PROVE  \E x \in db \cup Inserted(d) : SameKey(x, e)
    <3>1. k <= written[d] BY <1>5, <2>4
    <3>2. captured[d][k].table = "events" /\ Row(d, k) = captured[d][k] /\ k \in 1 .. written[d]
      BY <3>1, InsertedEvent
    <3>3. captured[d][k] \in Inserted(d) BY <3>2 DEF Inserted
    <3> QED BY <1>1, <2>4, <3>2, <3>3 DEF SameKey
  <2> QED BY <2>2, <2>3, <2>4
<1> QED BY <1>6, <1>7

\* COMMIT shows all events of a context with their ids.
LEMMA CommitIds ==
  ASSUME IndInv, PrefixReplays, IdsInv, NEW c \in Clients, CommitShows(c)
  PROVE  IdsInv'
<1>1. /\ Discard(c) /\ UNCHANGED lastEventId /\ taken' = [taken EXCEPT ![c] = <<>>]
      /\ log \subseteq log' /\ db' = db \cup Inserted(c)
  BY DEF CommitShows, Commit
<1>2. /\ taken' \in [Clients -> Seq(Nat)]
      /\ taken'[c] = <<>> /\ captured'[c] = <<>> /\ written'[c] = 0
      /\ \A d \in Clients : d # c =>
           taken'[d] = taken[d] /\ captured'[d] = captured[d] /\ written'[d] = written[d]
  BY <1>1, AfterEnd
<1>3. \A d \in Clients : \A i \in DOMAIN taken'[d] : d # c /\ i \in DOMAIN taken[d] BY <1>2
<1>4. IdsOK'
  <2>1. \A r \in log' : r.id \in 1 .. lastEventId
    <3> SUFFICES ASSUME NEW r \in log' PROVE r.id \in 1 .. lastEventId OBVIOUS
    <3>1. CASE r \in log BY <3>1 DEF IdsInv, IdsOK
    <3>2. CASE r \notin log BY <3>2, ShownIs DEF IdsInv, IdsOK
    <3> QED BY <3>1, <3>2
  <2>2. \A d \in Clients :
          \/ Len(taken'[d]) = EventsIn(d)'
          \/ /\ phase'[d] = "saving" /\ Len(taken'[d]) = written'[d] + 1
             /\ Len(taken'[d]) <= Len(captured'[d])
    BY <1>1, CountAfterEnd
  <2> QED BY <1>1, <1>2, <1>3, <2>1, <2>2 DEF IdsInv, IdsOK
<1>5. IdsUnique'
  <2>1. ASSUME NEW d \in Clients, NEW i \in DOMAIN taken'[d], NEW r \in log'
        PROVE  r.id # taken'[d][i]
    <3>1. d # c /\ i \in DOMAIN taken[d] /\ taken'[d][i] = taken[d][i] BY <1>2, <1>3
    <3>2. CASE r \in log BY <3>1, <3>2 DEF IdsInv, IdsUnique
    <3>3. CASE r \notin log
      <4>1. PICK j \in DOMAIN taken[c] : r.id = taken[c][j] BY <3>3, ShownIs
      <4> QED BY <3>1, <4>1 DEF IdsInv, IdsUnique
    <3> QED BY <3>2, <3>3
  <2>2. ASSUME NEW r \in log', NEW s \in log', r.id = s.id PROVE r = s
    <3>1. CASE r \in log /\ s \in log BY <2>2, <3>1 DEF IdsInv, IdsUnique
    <3>2. ASSUME NEW x \in log, NEW y \in log', y \notin log PROVE x.id # y.id
      <4>1. PICK j \in DOMAIN taken[c] : y.id = taken[c][j] BY <3>2, ShownIs
      <4> QED BY <3>2, <4>1 DEF IdsInv, IdsUnique
    <3>3. CASE r \notin log /\ s \notin log
      <4>1. PICK i \in DOMAIN taken[c] : r = LoggedRow(c, i) /\ r.id = taken[c][i] BY <3>3, ShownIs
      <4>2. PICK j \in DOMAIN taken[c] : s = LoggedRow(c, j) /\ s.id = taken[c][j] BY <3>3, ShownIs
      <4>3. i = j BY <2>2, <4>1, <4>2 DEF IdsInv, IdsUnique
      <4> QED BY <4>1, <4>2, <4>3
    <3> QED BY <2>2, <3>1, <3>2, <3>3
  <2>3. ASSUME NEW d \in Clients, NEW e \in Clients, NEW i \in DOMAIN taken'[d],
               NEW j \in DOMAIN taken'[e], taken'[d][i] = taken'[e][j]
        PROVE  d = e /\ i = j
    <3>1. /\ i \in DOMAIN taken[d] /\ taken'[d] = taken[d]
          /\ j \in DOMAIN taken[e] /\ taken'[e] = taken[e]
      BY <1>2, <1>3
    <3>2. taken[d][i] = taken[e][j] BY <2>3, <3>1
    <3> QED BY <3>1, <3>2 DEF IdsInv, IdsUnique
  <2> QED BY <2>1, <2>2, <2>3 DEF IdsUnique
<1>6. LoggedInv'
  <2>1. ASSUME NEW r \in log'
        PROVE  /\ \E e \in db' : /\ e.table = "events" /\ e.agg = r.agg
                                /\ e.seq = r.seq /\ e.val = r.val
               /\ r.seq \in Nat /\ r.agg \in Aggregates /\ r.val \in Vals
    <3>1. CASE r \in log BY <1>1, <3>1 DEF IdsInv, LoggedInv
    <3>2. CASE r \notin log
      <4>1. PICK i \in DOMAIN taken[c] :
              r.agg = captured[c][i].agg /\ r.seq = captured[c][i].seq /\ r.val = captured[c][i].val
        BY <3>2, ShownIs
      <4> DEFINE e == captured[c][i]
      <4>2. i \in 1 .. Len(captured[c]) /\ i <= written[c] BY CommitsInserted
      <4>3. e \in EventRow /\ e.table = "events" /\ Row(c, i) = e /\ i \in 1 .. written[c]
        BY <4>2, InsertedEvent
      <4>4. e \in db' BY <1>1, <4>3 DEF Inserted
      <4>5. e.seq \in Nat /\ e.agg \in Aggregates /\ e.val \in Vals BY <4>3 DEF EventRow
      <4> QED BY <4>1, <4>3, <4>4, <4>5
    <3> QED BY <3>1, <3>2
  <2> QED BY <2>1 DEF LoggedInv
<1>7. NewerIds'
  <2>1. ASSUME NEW d \in Clients, NEW i \in DOMAIN taken'[d], NEW r \in log',
               r.agg = captured'[d][i].agg
        PROVE  r.id < taken'[d][i] \/ Doomed(d, i)'
    <3>1. d # c /\ i \in DOMAIN taken[d] /\ taken'[d][i] = taken[d][i]
          /\ captured'[d] = captured[d] /\ written'[d] = written[d]
      BY <1>2, <1>3
    <3>2. CASE r \in log
      <4>1. r.id < taken[d][i] \/ Doomed(d, i) BY <2>1, <3>1, <3>2 DEF IdsInv, NewerIds
      <4> QED BY <1>1, <3>1, <4>1 DEF Doomed
    <3>3. CASE r \notin log
      <4>1. PICK j \in DOMAIN taken[c] : r.agg = captured[c][j].agg BY <3>3, ShownIs
      <4>2. j \in 1 .. Len(captured[c]) /\ j <= written[c] BY CommitsInserted
      <4>3. /\ i \in 1 .. Len(captured[d]) /\ (i <= written[d] \/ i = written[d] + 1)
            /\ i \in Nat /\ written[d] \in Nat
        BY <3>1, TakenIs
      <4>4. captured[d][i].agg = captured[c][j].agg BY <2>1, <3>1, <4>1
      <4>5. i = written[d] + 1 BY <3>1, <4>2, <4>3, <4>4, OneWriter
      <4>6. PICK x \in db \cup Inserted(c) : SameKey(x, captured[d][i])
        BY <3>1, <4>2, <4>3, <4>4, <4>5, OthersDoomIt
      <4> QED BY <1>1, <3>1, <4>3, <4>5, <4>6 DEF Doomed
    <3> QED BY <3>2, <3>3
  <2> QED BY <2>1 DEF NewerIds
<1> QED BY <1>4, <1>5, <1>6, <1>7 DEF IdsInv

\* The initial state, and every step.
LEMMA InitIds == LogInit => IdsInv /\ PrefixReplays
<1> SUFFICES ASSUME LogInit PROVE IdsInv /\ PrefixReplays OBVIOUS
<1>1. /\ lastEventId = 0 /\ taken = [c \in Clients |-> <<>>] /\ log = {}
      /\ written = [c \in Clients |-> 0] /\ captured = [c \in Clients |-> <<>>]
  BY DEF LogInit, Init
<1>2. IdsOK BY <1>1 DEF IdsOK, EventsIn
<1>3. IdsUnique /\ LoggedInv /\ NewerIds BY <1>1 DEF IdsUnique, LoggedInv, NewerIds
<1> QED BY <1>1, <1>2, <1>3 DEF IdsInv, PrefixReplays

\* The ids stay unique and in the order of each stream, step by step.
LEMMA NextIds == IndInv /\ PrefixReplays /\ IdsInv /\ [LogNext]_logVars => IdsInv'
<1> SUFFICES ASSUME IndInv, PrefixReplays, IdsInv, [LogNext]_logVars PROVE IdsInv' OBVIOUS
<1>1. TypeOK' BY LogSteps, StepInv DEF IndInv
<1> QED BY <1>1, IdSteps, QuietIds, DrawIds, InsertIds, CommitIds, EndIds

-----------------------------------------------------------------------------
(* Streams grow in the order of their ids.                                  *)

\* An inserted event has a higher sequence than what is shown of its stream.
LEMMA NewerSequence ==
  ASSUME IndInv, IdsInv, NEW c \in Clients, NEW i \in 1 .. Len(captured[c]), i <= written[c],
         NEW r \in log, r.agg = captured[c][i].agg
  PROVE  r.seq < captured[c][i].seq
<1>1. PICK x \in db : x.table = "events" /\ x.agg = r.agg /\ x.seq = r.seq
  BY DEF IdsInv, LoggedInv
<1> QED BY <1>1, AboveCommitted

\* A subscription that has passed an event of a stream finds all later ones of the
\* stream under higher ids (subscriptions.go reads id > last; types.go "global,
\* monotonically increasing id").
THEOREM StreamsInIdOrder == LogSpec => StreamsGrowInIdOrder
<1> DEFINE Grows == \A new \in log' \ log : \A old \in log :
                      new.agg = old.agg => new.id > old.id /\ new.seq > old.seq
<1>1. LogInit => IndInv BY InitInv DEF LogInit
<1>2. IndInv /\ [LogNext]_logVars => IndInv' BY LogSteps, StepInv
<1>3. IndInv /\ PrefixReplays /\ [LogNext]_logVars => PrefixReplays' BY LogSteps, NextPrefix
<1>4. IndInv /\ IdsInv /\ [LogNext]_logVars => [Grows]_logVars
  <2> SUFFICES ASSUME IndInv, IdsInv, [LogNext]_logVars,
                      NEW new \in log' \ log, NEW old \in log, new.agg = old.agg
               PROVE  new.id > old.id /\ new.seq > old.seq
    OBVIOUS
  <2>1. PICK c \in Clients : CommitShows(c)
    BY IdSteps DEF Quiet, DrawId, Inserts, idVars, Ends, GiveUp
  <2>2. PICK i \in DOMAIN taken[c] : /\ new.id = taken[c][i] /\ new.agg = captured[c][i].agg
                                    /\ new.seq = captured[c][i].seq
    BY <2>1, ShownIs
  <2>a. i \in 1 .. Len(captured[c]) /\ i <= written[c] BY <2>1, CommitsInserted
  <2>3. old.id < taken[c][i]
    <3>1. ~Doomed(c, i)
      <4>1. i \in Nat /\ written[c] \in Nat BY <2>a DEF IndInv, TypeOK
      <4> QED BY <2>a, <4>1 DEF Doomed
    <3> QED BY <2>2, <3>1 DEF IdsInv, NewerIds
  <2>4. old.seq < captured[c][i].seq BY <2>2, <2>a, NewerSequence
  <2>5. /\ old.id \in Nat /\ taken[c][i] \in Nat /\ old.seq \in Nat
        /\ captured[c][i].seq \in Nat
    <3>1. taken[c][i] \in 1 .. lastEventId /\ captured[c][i] \in EventRow BY TakenIs
    <3>2. lastEventId \in Nat /\ old.id \in 1 .. lastEventId /\ old.seq \in Nat
      BY DEF IdsInv, IdsOK, LoggedInv
    <3> QED BY <3>1, <3>2 DEF EventRow
  <2> QED BY <2>2, <2>3, <2>4, <2>5
<1> QED BY <1>1, <1>2, <1>3, <1>4, InitIds, NextIds, PTL DEF LogSpec, StreamsGrowInIdOrder

-----------------------------------------------------------------------------
(* The bound on ids: those that open contexts may still take.               *)

Room == {p \in Clients \X (1 .. MaxBatch) : phase[p[1]] # "idle" /\ Len(taken[p[1]]) < p[2]}

RoomInv ==
  /\ \A c \in Clients : Len(captured[c]) <= MaxBatch
  /\ lastEventId + Cardinality(Room) <= MaxEventId

\* Pairs of clients and numbers are as many as the bound allows for.
LEMMA RoomIsFinite ==
  ASSUME NEW S \in SUBSET (Clients \X (1 .. MaxBatch))
  PROVE  /\ IsFiniteSet(S) /\ Cardinality(S) \in Nat
         /\ Cardinality(S) <= Cardinality(Clients) * MaxBatch
<1>1. IsFiniteSet(Clients) /\ MaxBatch \in Nat
  BY EventStoreLogAssumption, EventStoreAssumption DEF EventStoreLogAssumption, EventStoreAssumption
<1>2. IsFiniteSet(1 .. MaxBatch) /\ Cardinality(1 .. MaxBatch) = MaxBatch
  <2>1. IsFiniteSet(1 .. MaxBatch) /\ Cardinality(1 .. MaxBatch) =
          IF 1 > MaxBatch THEN 0 ELSE MaxBatch - 1 + 1
    BY <1>1, FS_Interval
  <2> QED BY <1>1, <2>1
<1>3. /\ IsFiniteSet(Clients \X (1 .. MaxBatch))
      /\ Cardinality(Clients \X (1 .. MaxBatch)) = Cardinality(Clients) * Cardinality(1 .. MaxBatch)
  BY <1>1, <1>2, FS_Product
<1>4. IsFiniteSet(S) /\ Cardinality(S) <= Cardinality(Clients \X (1 .. MaxBatch))
  BY <1>3, FS_Subset
<1>5. Cardinality(S) \in Nat BY <1>4, FS_CardinalityType
<1> QED BY <1>2, <1>3, <1>4, <1>5

\* Steps that open no context and take no id.
LEMMA RoomShrinks ==
  ASSUME IdsInv, RoomInv, Room' \subseteq Room, lastEventId' = lastEventId
  PROVE  lastEventId' + Cardinality(Room') <= MaxEventId
<1>1. Room \in SUBSET (Clients \X (1 .. MaxBatch)) BY DEF Room
<1>2. IsFiniteSet(Room) /\ Cardinality(Room) \in Nat BY <1>1, RoomIsFinite
<1>3. Room' \in SUBSET (Clients \X (1 .. MaxBatch)) BY <1>1
<1>4. Cardinality(Room') \in Nat BY <1>3, RoomIsFinite
<1>5. Cardinality(Room') <= Cardinality(Room) BY <1>2, FS_Subset
<1>6. lastEventId \in Nat /\ MaxEventId \in Nat /\ lastEventId + Cardinality(Room) <= MaxEventId
  BY EventStoreLogAssumption DEF EventStoreLogAssumption, IdsInv, IdsOK, RoomInv
<1> QED BY <1>2, <1>4, <1>5, <1>6

\* Every step: a context begins only when there is room for a whole batch of every
\* client, and an INSERT uses one place of its own.
LEMMA NextRoom == IndInv /\ IdsInv /\ RoomInv /\ [LogNext]_logVars => RoomInv'
<1> SUFFICES ASSUME IndInv, IdsInv, RoomInv, [LogNext]_logVars PROVE RoomInv' OBVIOUS
<1>0. /\ MaxBatch \in Nat /\ MaxEventId \in Nat /\ lastEventId \in Nat
      /\ taken \in [Clients -> Seq(Nat)] /\ TypeOK /\ TypeOK'
      /\ \A c \in Clients : Len(captured[c]) <= MaxBatch
  <2>1. TypeOK /\ TypeOK' BY LogSteps, StepInv DEF IndInv
  <2> QED BY <2>1, EventStoreLogAssumption, EventStoreAssumption
          DEF EventStoreLogAssumption, EventStoreAssumption, IdsInv, IdsOK, RoomInv
<1>1. \A c \in Clients : Len(captured'[c]) <= MaxBatch
  <2> SUFFICES ASSUME NEW c \in Clients PROVE Len(captured'[c]) <= MaxBatch OBVIOUS
  <2>1. CASE captured'[c] = captured[c] BY <1>0, <2>1
  <2>2. CASE captured'[c] = <<>> BY <1>0, <2>2
  <2>3. ASSUME NEW a \in Aggregates, NEW v \in Vals, ApplyEvent(c, a, v)
        PROVE  Len(captured'[c]) <= MaxBatch
    <3> DEFINE e == EventFor(a, objects[c][a], v)
    <3>1. /\ captured' = [captured EXCEPT ![c] = Append(captured[c], e)]
          /\ Len(captured[c]) < MaxBatch
      BY <2>3 DEF ApplyEvent
    <3> HIDE DEF e
    <3>2. captured'[c] = Append(captured[c], e) /\ captured[c] \in Seq(EventRow)
      BY <1>0, <3>1 DEF TypeOK
    <3> QED BY <1>0, <3>1, <3>2
  <2> QED BY <1>0, <2>1, <2>2, <2>3, LogSteps, BatchSteps
<1>2. ASSUME NEW c \in Clients, MayBegin, Begin(c), UNCHANGED idVars
      PROVE  lastEventId' + Cardinality(Room') <= MaxEventId
  <2>1. Room' \in SUBSET (Clients \X (1 .. MaxBatch)) BY DEF Room
  <2>2. Cardinality(Room') \in Nat /\ Cardinality(Room') <= Cardinality(Clients) * MaxBatch
    BY <2>1, RoomIsFinite
  <2>3. lastEventId' = lastEventId BY <1>2 DEF idVars
  <2>4. lastEventId + Cardinality(Clients) * MaxBatch <= MaxEventId BY <1>2 DEF MayBegin
  <2>5. Cardinality(Clients) * MaxBatch \in Nat
    <3>1. Cardinality(Clients) \in Nat
      BY EventStoreLogAssumption, FS_CardinalityType DEF EventStoreLogAssumption
    <3> QED BY <1>0, <3>1
  <2> QED BY <1>0, <2>2, <2>3, <2>4, <2>5
<1>3. ASSUME UNCHANGED <<lastEventId, taken>>, \A c \in Clients : phase[c] = "idle" => phase'[c] = "idle"
      PROVE  lastEventId' + Cardinality(Room') <= MaxEventId
  <2>1. Room' \subseteq Room BY <1>3 DEF Room
  <2> QED BY <1>3, <2>1, RoomShrinks
<1>4. ASSUME NEW c \in Clients, Discard(c), lastEventId' = lastEventId,
             taken' = [taken EXCEPT ![c] = <<>>]
      PROVE  lastEventId' + Cardinality(Room') <= MaxEventId
  <2>1. phase'[c] = "idle" /\ \A d \in Clients : d # c => phase'[d] = phase[d] /\ taken'[d] = taken[d]
    BY <1>0, <1>4 DEF Discard, TypeOK
  <2>2. Room' \subseteq Room BY <2>1 DEF Room
  <2> QED BY <1>4, <2>2, RoomShrinks
<1>i. ASSUME NEW c \in Clients, Inserts(c)
      PROVE  lastEventId' + Cardinality(Room') <= MaxEventId
  BY <1>3, <1>i, LogSteps, InsertLeaves
<1>5. ASSUME NEW c \in Clients, DrawId(c)
      PROVE  lastEventId' + Cardinality(Room') <= MaxEventId
  <2>1. UNCHANGED phase /\ phase[c] = "saving" BY <1>5 DEF DrawId, vars, local
  <2>2. /\ written[c] < Len(captured[c]) /\ Len(taken[c]) = written[c]
        /\ lastEventId' = lastEventId + 1
        /\ taken' = [taken EXCEPT ![c] = Append(taken[c], lastEventId + 1)]
    BY <1>5 DEF DrawId
  <2> DEFINE n == Len(taken[c]) + 1
  <2>3. n \in 1 .. MaxBatch
    <3>1. Len(captured[c]) \in Nat /\ Len(taken[c]) \in Nat BY <1>0 DEF TypeOK
    <3> QED BY <1>0, <2>2, <3>1
  <2>4. Len(taken'[c]) = n /\ \A d \in Clients : d # c => taken'[d] = taken[d]
    BY <2>2, AfterTaking
  <2>5. Room' \subseteq Room \ {<<c, n>>}
    <3>1. ASSUME NEW p \in Room' PROVE p \in Room /\ p # <<c, n>>
      <4>1. /\ p \in Clients \X (1 .. MaxBatch) /\ phase[p[1]] # "idle"
            /\ Len(taken'[p[1]]) < p[2] /\ p[1] \in Clients /\ p[2] \in Nat
        BY <1>0, <2>1 DEF Room
      <4>2. CASE p[1] = c
        <5>1. Len(taken[c]) \in Nat BY <1>0
        <5>2. n < p[2] /\ Len(taken[c]) < p[2] BY <2>4, <4>1, <4>2, <5>1
        <5>3. p # <<c, n>> BY <4>1, <5>1, <5>2
        <5> QED BY <4>1, <4>2, <5>2, <5>3 DEF Room
      <4>3. CASE p[1] # c
        <5>1. p # <<c, n>> BY <4>3
        <5> QED BY <2>4, <4>1, <4>3, <5>1 DEF Room
      <4> QED BY <4>2, <4>3
    <3> QED BY <3>1
  <2>6. <<c, n>> \in Room
    <3>1. Len(taken[c]) \in Nat /\ Len(taken[c]) < n BY <1>0
    <3> QED BY <2>1, <2>3, <3>1 DEF Room
  <2> HIDE DEF n
  <2>7. Room \in SUBSET (Clients \X (1 .. MaxBatch)) BY DEF Room
  <2>8. IsFiniteSet(Room) /\ Cardinality(Room) \in Nat BY <2>7, RoomIsFinite
  <2>9. /\ IsFiniteSet(Room \ {<<c, n>>})
        /\ Cardinality(Room \ {<<c, n>>}) = Cardinality(Room) - 1
    BY <2>6, <2>8, FS_RemoveElement
  <2>10. Cardinality(Room') <= Cardinality(Room \ {<<c, n>>}) BY <2>5, <2>9, FS_Subset
  <2>11. Cardinality(Room') \in Nat
    <3>1. Room' \in SUBSET (Clients \X (1 .. MaxBatch)) BY <2>5, <2>7
    <3> QED BY <3>1, RoomIsFinite
  <2>12. lastEventId + Cardinality(Room) <= MaxEventId BY DEF RoomInv
  <2> QED BY <1>0, <2>2, <2>8, <2>9, <2>10, <2>11, <2>12
<1>6. ASSUME NEW c \in Clients, UNCHANGED idVars,
             \/ LoadEvents(c) \/ ApplyFetched(c) \/ EndLoad(c) \/ Return(c)
             \/ \E a \in Aggregates : \/ CreateAggregate(c, a) \/ LoadSnapshot(c, a)
                                      \/ \E v \in Vals : ApplyEvent(c, a, v)
      PROVE  lastEventId' + Cardinality(Room') <= MaxEventId
  <2>1. phase[c] # "idle" /\ \A d \in Clients : d # c => phase'[d] = phase[d]
    BY <1>0, <1>6 DEF LoadEvents, ApplyFetched, EndLoad, Return, CreateAggregate, LoadSnapshot,
                     ApplyEvent, TypeOK
  <2> QED BY <1>3, <1>6, <2>1 DEF idVars
<1>7. ASSUME UNCHANGED logVars PROVE lastEventId' + Cardinality(Room') <= MaxEventId
  <2>1. UNCHANGED <<lastEventId, taken, phase>> BY <1>7 DEF logVars, vars, local, idVars
  <2> QED BY <1>3, <2>1
<1>8. ASSUME NEW c \in Clients, CommitShows(c) \/ Ends(c)
      PROVE  lastEventId' + Cardinality(Room') <= MaxEventId
  <2>1. Discard(c) /\ lastEventId' = lastEventId /\ taken' = [taken EXCEPT ![c] = <<>>]
    BY <1>8 DEF CommitShows, Commit, Ends, GiveUp, InsertFails, DeadlockVictim, Abort
  <2> QED BY <1>4, <2>1
<1>9. lastEventId' + Cardinality(Room') <= MaxEventId
  <2> DEFINE Bounded == lastEventId' + Cardinality(Room') <= MaxEventId
  <2> HIDE DEF Bounded
  <2>1. CASE LogNext
    <3> SUFFICES ASSUME NEW c \in Clients,
                        \/ MayBegin /\ Begin(c) /\ UNCHANGED idVars
                        \/ /\ \/ \E a \in Aggregates :
                                   \/ CreateAggregate(c, a) \/ LoadSnapshot(c, a)
                                   \/ \E v \in Vals : ApplyEvent(c, a, v)
                              \/ LoadEvents(c) \/ ApplyFetched(c) \/ EndLoad(c) \/ Return(c)
                           /\ UNCHANGED idVars
                        \/ DrawId(c) \/ Inserts(c) \/ CommitShows(c) \/ Ends(c)
                 PROVE  Bounded
      BY <2>1 DEF LogNext, Inserts, Ends, Bounded
    <3> QED BY <1>2, <1>5, <1>6, <1>8, <1>i DEF Bounded
  <2> QED BY <1>7, <2>1 DEF Bounded
<1> QED BY <1>1, <1>9 DEF RoomInv

-----------------------------------------------------------------------------
(* The refinement of EventLog.                                              *)

\* What RowWithId finds: a row that is shown, one that is inserted, or none.
RowsKnown ==
  /\ \A r \in log : RowWithId(r.id) = AsEvent(r.agg, r.val)
  /\ \A c \in Clients : \A n \in DOMAIN taken[c] :
       RowWithId(taken[c][n]) = AsEvent(captured[c][n].agg, captured[c][n].val)
  /\ \A i \in Nat : (\A r \in log : r.id # i) /\ (\A c \in Clients : i \notin Range(taken[c])) =>
       RowWithId(i) = NoObject

\* An id leads to one row, because none is used twice.
LEMMA RowsAre == IdsInv => RowsKnown
<1> SUFFICES ASSUME IdsInv PROVE RowsKnown OBVIOUS
<1>1. ASSUME NEW r \in log PROVE RowWithId(r.id) = AsEvent(r.agg, r.val)
  <2> DEFINE s == CHOOSE s \in log : s.id = r.id
  <2>1. s \in log /\ s.id = r.id OBVIOUS
  <2>2. RowWithId(r.id) = AsEvent(s.agg, s.val) BY DEF RowWithId
  <2> HIDE DEF s
  <2>3. s = r BY <2>1 DEF IdsInv, IdsUnique
  <2> QED BY <2>2, <2>3
<1>2. ASSUME NEW c \in Clients, NEW n \in DOMAIN taken[c]
      PROVE  RowWithId(taken[c][n]) = AsEvent(captured[c][n].agg, captured[c][n].val)
  <2> DEFINE i == taken[c][n]
             d == CHOOSE d \in Clients : i \in Range(taken[d])
             m == CHOOSE m \in DOMAIN taken[d] : taken[d][m] = i
  <2>1. ~ \E r \in log : r.id = i BY DEF IdsInv, IdsUnique
  <2>2. i \in Range(taken[c]) BY DEF Range
  <2>3. d \in Clients /\ i \in Range(taken[d]) BY <2>2
  <2>4. RowWithId(i) = AsEvent(captured[d][m].agg, captured[d][m].val)
    BY <2>1, <2>2 DEF RowWithId
  <2> HIDE DEF i, d
  <2>5. \E k \in DOMAIN taken[d] : taken[d][k] = i BY <2>3 DEF Range
  <2>6. m \in DOMAIN taken[d] /\ taken[d][m] = i BY <2>5
  <2> HIDE DEF m
  <2>7. d = c /\ m = n BY <2>3, <2>6 DEF IdsInv, IdsUnique, i
  <2> QED BY <2>4, <2>7 DEF i
<1>3. \A i \in Nat : (\A r \in log : r.id # i) /\ (\A c \in Clients : i \notin Range(taken[c])) =>
        RowWithId(i) = NoObject
  BY DEF RowWithId
<1> QED BY <1>1, <1>2, <1>3 DEF RowsKnown

\* The same of the next state.
LEMMA RowsAreNext == IdsInv' => RowsKnown'
BY RowsAre, PTL

\* A step neither takes the row with id i back nor writes it anew.
KeepsRow(i) ==
  /\ \A r \in log : r.id = i => r \in log'
  /\ \A c \in Clients : \A n \in DOMAIN taken[c] : taken[c][n] = i =>
       \/ \E s \in log' : s.id = i /\ s.agg = captured[c][n].agg /\ s.val = captured[c][n].val
       \/ n \in DOMAIN taken'[c] /\ taken'[c][n] = i /\ captured'[c] = captured[c]
  /\ \A s \in log' : s.id = i =>
       (\E r \in log : r.id = i) \/ (\E c \in Clients : i \in Range(taken[c]))
  /\ \A c \in Clients : i \in Range(taken'[c]) => i \in Range(taken[c])

\* Then it is the same row.
LEMMA RowKept ==
  ASSUME RowsKnown, RowsKnown', NEW i \in Nat, KeepsRow(i)
  PROVE  RowWithId(i)' = RowWithId(i)
<1>1. ASSUME NEW r \in log, r.id = i PROVE RowWithId(i)' = RowWithId(i)
  <2>1. RowWithId(i) = AsEvent(r.agg, r.val) BY <1>1 DEF RowsKnown
  <2>2. r \in log' BY <1>1 DEF KeepsRow
  <2>3. RowWithId(i)' = AsEvent(r.agg, r.val) BY <1>1, <2>2 DEF RowsKnown, AsEvent
  <2> QED BY <2>1, <2>3
<1>2. ASSUME NEW c \in Clients, NEW n \in DOMAIN taken[c], taken[c][n] = i
      PROVE  RowWithId(i)' = RowWithId(i)
  <2>1. RowWithId(i) = AsEvent(captured[c][n].agg, captured[c][n].val) BY <1>2 DEF RowsKnown
  <2>2. CASE \E s \in log' : s.id = i /\ s.agg = captured[c][n].agg /\ s.val = captured[c][n].val
    <3>1. PICK s \in log' : s.id = i /\ s.agg = captured[c][n].agg /\ s.val = captured[c][n].val
      BY <2>2
    <3>2. RowWithId(i)' = AsEvent(s.agg, s.val) BY <3>1 DEF RowsKnown, AsEvent
    <3> QED BY <2>1, <3>1, <3>2
  <2>3. CASE n \in DOMAIN taken'[c] /\ taken'[c][n] = i /\ captured'[c] = captured[c]
    <3>1. RowWithId(i)' = AsEvent(captured'[c][n].agg, captured'[c][n].val)
      BY <2>3 DEF RowsKnown, AsEvent
    <3> QED BY <2>1, <2>3, <3>1
  <2> QED BY <1>2, <2>2, <2>3 DEF KeepsRow
<1>3. ASSUME ~ \E r \in log : r.id = i, ~ \E c \in Clients : i \in Range(taken[c])
      PROVE  RowWithId(i)' = RowWithId(i)
  <2>1. RowWithId(i) = NoObject BY <1>3 DEF RowsKnown
  <2>2. (\A s \in log' : s.id # i) /\ (\A c \in Clients : i \notin Range(taken'[c]))
    BY <1>3 DEF KeepsRow
  <2>3. RowWithId(i)' = NoObject BY <2>2 DEF RowsKnown
  <2> QED BY <2>1, <2>3
<1> QED BY <1>1, <1>2, <1>3 DEF Range

\* What EventLog sees of a state.
Inflight == [c \in Clients |-> Range(taken[c])]
Visible == {r.id : r \in log}
Rows == [i \in 1 .. MaxEventId |-> RowWithId(i)]

\* Steps that EventLog does not see.
LEMMA QuietRefines ==
  ASSUME IndInv, IdsInv, RowsKnown, RowsKnown', Quiet
  PROVE  UNCHANGED <<lastEventId, Inflight, Visible, Rows>>
<1>1. UNCHANGED <<lastEventId, taken, log>> BY DEF Quiet
<1>2. \A c \in Clients : \A n \in DOMAIN taken[c] : captured'[c] = captured[c]
  BY TakenIs DEF Quiet
<1>3. ASSUME NEW i \in 1 .. MaxEventId PROVE RowWithId(i)' = RowWithId(i)
  <2>1. KeepsRow(i) BY <1>1, <1>2 DEF KeepsRow
  <2>2. i \in Nat OBVIOUS
  <2> QED BY <2>1, <2>2, RowKept
<1>4. Rows' = Rows BY <1>3 DEF Rows
<1> QED BY <1>1, <1>4 DEF Inflight, Visible

\* An INSERT of an event begins: EventLog's writers take an id and its row together.
LEMMA DrawRefines ==
  ASSUME IndInv, IdsInv, RoomInv, RowsKnown, RowsKnown', NEW c \in Clients, DrawId(c)
  PROVE  /\ lastEventId < MaxEventId /\ lastEventId' = lastEventId + 1
         /\ Inflight' = [Inflight EXCEPT ![c] = @ \cup {lastEventId + 1}]
         /\ \E a \in Aggregates, v \in Vals :
              Rows' = [Rows EXCEPT ![lastEventId + 1] = AsEvent(a, v)]
         /\ Visible' = Visible
<1> DEFINE new == lastEventId + 1
           n == Len(taken[c]) + 1
<1>1. UNCHANGED <<captured, log>> /\ lastEventId \in Nat
  BY DEF DrawId, vars, local, IdsInv, IdsOK
<1>2. /\ written[c] < Len(captured[c]) /\ Len(taken[c]) = written[c] /\ lastEventId' = new
      /\ taken' = [taken EXCEPT ![c] = Append(taken[c], new)]
  BY DEF DrawId
<1>3. /\ \A d \in Clients : d # c => taken'[d] = taken[d]
      /\ taken'[c][n] = new /\ n \in DOMAIN taken'[c]
      /\ \A i \in DOMAIN taken[c] : i \in DOMAIN taken'[c] /\ taken'[c][i] = taken[c][i]
      /\ \A i \in DOMAIN taken'[c] : i = n \/ i \in DOMAIN taken[c]
  BY <1>2, AfterTaking
<1> DEFINE e == captured[c][n]
<1>4. /\ n \in 1 .. Len(captured[c]) /\ Len(captured[c]) <= MaxBatch /\ e \in EventRow
      /\ n \in 1 .. MaxBatch
  <2>1. captured[c] \in Seq(EventRow) /\ written[c] \in Nat BY DEF IndInv, TypeOK
  <2>2. Len(captured[c]) <= MaxBatch /\ MaxBatch \in Nat
    BY EventStoreAssumption DEF EventStoreAssumption, RoomInv
  <2>3. n \in 1 .. Len(captured[c]) BY <1>2, <2>1
  <2>4. n \in 1 .. MaxBatch
    <3>1. Len(captured[c]) \in Nat BY <2>1
    <3> QED BY <2>2, <2>3, <3>1
  <2> QED BY <2>1, <2>2, <2>3, <2>4
<1>5. lastEventId < MaxEventId
  <2>1. Room \in SUBSET (Clients \X (1 .. MaxBatch)) BY DEF Room
  <2>2. IsFiniteSet(Room) /\ Cardinality(Room) \in Nat BY <2>1, RoomIsFinite
  <2>3. <<c, n>> \in Room
    <3>1. Len(taken[c]) \in Nat /\ Len(taken[c]) < n
      <4>1. taken[c] \in Seq(Nat) BY DEF IdsInv, IdsOK
      <4> QED BY <4>1
    <3>2. phase[c] = "saving" BY DEF DrawId
    <3> QED BY <1>4, <3>1, <3>2 DEF Room
  <2>4. Cardinality(Room) # 0 BY <2>2, <2>3, FS_EmptySet
  <2>5. lastEventId + Cardinality(Room) <= MaxEventId /\ MaxEventId \in Nat
    BY EventStoreLogAssumption DEF EventStoreLogAssumption, RoomInv
  <2> QED BY <1>1, <2>2, <2>4, <2>5
<1>6. /\ Range(taken'[c]) = Range(taken[c]) \cup {new}
      /\ \A d \in Clients : d # c => Range(taken'[d]) = Range(taken[d])
  BY <1>3 DEF Range
<1>7. Inflight' = [Inflight EXCEPT ![c] = @ \cup {new}] BY <1>6 DEF Inflight
<1>8. ASSUME NEW i \in 1 .. MaxEventId, i # new PROVE RowWithId(i)' = RowWithId(i)
  <2>1. KeepsRow(i)
    <3>1. \A d \in Clients : i \in Range(taken'[d]) => i \in Range(taken[d]) BY <1>6, <1>8
    <3>2. ASSUME NEW d \in Clients, NEW k \in DOMAIN taken[d], taken[d][k] = i
          PROVE  k \in DOMAIN taken'[d] /\ taken'[d][k] = i /\ captured'[d] = captured[d]
      BY <1>1, <1>3, <3>2
    <3>3. \A r \in log : r.id = i => r \in log' BY <1>1
    <3>4. \A s \in log' : s.id = i => \E r \in log : r.id = i BY <1>1
    <3> QED BY <3>1, <3>2, <3>3, <3>4 DEF KeepsRow
  <2>2. i \in Nat OBVIOUS
  <2> QED BY <2>1, <2>2, RowKept
<1>9. PICK k \in 1 .. MaxEventId : k = new
  <2>1. new \in 1 .. MaxEventId
    BY <1>1, <1>5, EventStoreLogAssumption DEF EventStoreLogAssumption
  <2> QED BY <2>1
<1>10. Rows' = [Rows EXCEPT ![k] = AsEvent(e.agg, e.val)]
  <2>1. k = taken'[c][n] /\ captured' = captured BY <1>1, <1>3, <1>9
  <2> HIDE DEF n, new
  <2>2. RowWithId(k)' = AsEvent(captured'[c][n].agg, captured'[c][n].val)
    BY <1>3, <2>1 DEF RowsKnown, AsEvent
  <2>3. RowWithId(k)' = AsEvent(e.agg, e.val) BY <2>1, <2>2
  <2>4. \A i \in 1 .. MaxEventId : i # k => RowWithId(i)' = RowWithId(i) BY <1>8, <1>9
  <2> HIDE DEF e
  <2> QED BY <1>9, <2>3, <2>4 DEF Rows
<1>11. e.agg \in Aggregates /\ e.val \in Vals BY <1>4 DEF EventRow
<1>12. Visible' = Visible BY <1>1 DEF Visible
<1> QED BY <1>2, <1>5, <1>7, <1>9, <1>10, <1>11, <1>12

\* INSERT of a row, whose id is drawn.
LEMMA InsertRefines ==
  ASSUME IndInv, IdsInv, RowsKnown, RowsKnown', NEW c \in Clients, Inserts(c)
  PROVE  UNCHANGED <<lastEventId, Inflight, Visible, Rows>>
<1>1. UNCHANGED <<captured, log, lastEventId, taken>> BY InsertLeaves
<1>2. ASSUME NEW i \in 1 .. MaxEventId PROVE RowWithId(i)' = RowWithId(i)
  <2>1. KeepsRow(i) BY <1>1 DEF KeepsRow
  <2>2. i \in Nat OBVIOUS
  <2> QED BY <2>1, <2>2, RowKept
<1>3. Rows' = Rows BY <1>2 DEF Rows
<1> QED BY <1>1, <1>3 DEF Inflight, Visible

\* COMMIT.
LEMMA CommitRefines ==
  ASSUME IndInv, IdsInv, RowsKnown, RowsKnown', NEW c \in Clients, CommitShows(c)
  PROVE  /\ UNCHANGED <<lastEventId, Rows>>
         /\ Visible' = Visible \cup Inflight[c] /\ Inflight' = [Inflight EXCEPT ![c] = {}]
<1>1. /\ Discard(c) /\ UNCHANGED lastEventId /\ taken' = [taken EXCEPT ![c] = <<>>]
      /\ log' = log \cup {LoggedRow(c, i) : i \in DOMAIN taken[c]}
  BY DEF CommitShows, Commit
<1>2. /\ taken'[c] = <<>>
      /\ \A d \in Clients : d # c => taken'[d] = taken[d] /\ captured'[d] = captured[d]
  BY <1>1, AfterEnd
<1>3. Range(taken'[c]) = {} BY <1>2 DEF Range
<1>4. Inflight' = [Inflight EXCEPT ![c] = {}] BY <1>2, <1>3 DEF Inflight
<1>5. Visible' = Visible \cup Inflight[c]
  <2>1. {LoggedRow(c, i).id : i \in DOMAIN taken[c]} = Range(taken[c]) BY DEF LoggedRow, Range
  <2> QED BY <1>1, <2>1 DEF Visible, Inflight
<1>6. ASSUME NEW i \in 1 .. MaxEventId PROVE RowWithId(i)' = RowWithId(i)
  <2>1. \A r \in log : r.id = i => r \in log' BY <1>1
  <2>2. ASSUME NEW d \in Clients, NEW n \in DOMAIN taken[d], taken[d][n] = i
        PROVE  \/ \E s \in log' : s.id = i /\ s.agg = captured[d][n].agg /\ s.val = captured[d][n].val
               \/ n \in DOMAIN taken'[d] /\ taken'[d][n] = i /\ captured'[d] = captured[d]
    <3>1. CASE d = c
      <4>1. LoggedRow(c, n) \in log' BY <1>1, <2>2, <3>1
      <4>2. /\ LoggedRow(c, n).id = i /\ LoggedRow(c, n).agg = captured[c][n].agg
            /\ LoggedRow(c, n).val = captured[c][n].val
        BY <2>2, <3>1 DEF LoggedRow
      <4> QED BY <3>1, <4>1, <4>2
    <3>2. CASE d # c BY <1>2, <2>2, <3>2
    <3> QED BY <3>1, <3>2
  <2>3. ASSUME NEW s \in log', s.id = i
        PROVE  (\E r \in log : r.id = i) \/ (\E d \in Clients : i \in Range(taken[d]))
    <3>1. CASE s \in log BY <2>3, <3>1
    <3>2. CASE s \notin log
      <4>1. \E n \in DOMAIN taken[c] : s.id = taken[c][n] BY <3>2, ShownIs
      <4> QED BY <2>3, <4>1 DEF Range
    <3> QED BY <3>1, <3>2
  <2>4. \A d \in Clients : i \in Range(taken'[d]) => i \in Range(taken[d]) BY <1>2, <1>3
  <2>5. KeepsRow(i) BY <2>1, <2>2, <2>3, <2>4 DEF KeepsRow
  <2>6. i \in Nat OBVIOUS
  <2> QED BY <2>5, <2>6, RowKept
<1>7. Rows' = Rows BY <1>6 DEF Rows
<1> QED BY <1>1, <1>4, <1>5, <1>7

\* ROLLBACK.
LEMMA EndRefines ==
  ASSUME IndInv, IdsInv, RowsKnown, RowsKnown', NEW c \in Clients, Ends(c)
  PROVE  /\ UNCHANGED <<lastEventId, Visible>>
         /\ Inflight' = [Inflight EXCEPT ![c] = {}]
         /\ Rows' = [i \in 1 .. MaxEventId |-> IF i \in Inflight[c] THEN NoObject ELSE Rows[i]]
<1>1. /\ Discard(c) /\ UNCHANGED <<lastEventId, log>> /\ taken' = [taken EXCEPT ![c] = <<>>]
  BY DEF Ends, InsertFails, DeadlockVictim, Abort, GiveUp
<1>2. /\ taken'[c] = <<>>
      /\ \A d \in Clients : d # c => taken'[d] = taken[d] /\ captured'[d] = captured[d]
  BY <1>1, AfterEnd
<1>3. Range(taken'[c]) = {} BY <1>2 DEF Range
<1>4. Inflight' = [Inflight EXCEPT ![c] = {}] BY <1>2, <1>3 DEF Inflight
<1>5. Inflight[c] = Range(taken[c]) BY DEF Inflight
<1>6. ASSUME NEW i \in 1 .. MaxEventId, i \notin Inflight[c] PROVE RowWithId(i)' = RowWithId(i)
  <2>1. ASSUME NEW d \in Clients, NEW n \in DOMAIN taken[d], taken[d][n] = i
        PROVE  n \in DOMAIN taken'[d] /\ taken'[d][n] = i /\ captured'[d] = captured[d]
    <3>1. d # c BY <1>5, <1>6, <2>1 DEF Range
    <3> QED BY <1>2, <2>1, <3>1
  <2>2. \A d \in Clients : i \in Range(taken'[d]) => i \in Range(taken[d]) BY <1>2, <1>3
  <2>3. KeepsRow(i) BY <1>1, <2>1, <2>2 DEF KeepsRow
  <2>4. i \in Nat OBVIOUS
  <2> QED BY <2>3, <2>4, RowKept
<1>7. ASSUME NEW i \in 1 .. MaxEventId, i \in Inflight[c] PROVE RowWithId(i)' = NoObject
  <2>1. PICK n \in DOMAIN taken[c] : taken[c][n] = i BY <1>5, <1>7 DEF Range
  <2>2. \A r \in log' : r.id # i BY <1>1, <2>1 DEF IdsInv, IdsUnique
  <2>3. ASSUME NEW d \in Clients PROVE i \notin Range(taken'[d])
    <3>1. CASE d = c BY <1>3, <3>1
    <3>2. CASE d # c
      <4>1. \A m \in DOMAIN taken[d] : taken[d][m] # i BY <2>1, <3>2 DEF IdsInv, IdsUnique
      <4> QED BY <1>2, <3>2, <4>1 DEF Range
    <3> QED BY <3>1, <3>2
  <2>4. i \in Nat OBVIOUS
  <2> QED BY <2>2, <2>3, <2>4 DEF RowsKnown
<1>8. Rows' = [i \in 1 .. MaxEventId |-> IF i \in Inflight[c] THEN NoObject ELSE Rows[i]]
  BY <1>6, <1>7 DEF Rows
<1>9. Visible' = Visible BY <1>1 DEF Visible
<1> QED BY <1>1, <1>4, <1>8, <1>9

\* No context is open and no id is taken.
LEMMA InitRoom == LogInit => RoomInv
<1> SUFFICES ASSUME LogInit PROVE RoomInv OBVIOUS
<1>1. Room = {} BY DEF LogInit, Init, Room
<1>2. Cardinality(Room) = 0 BY <1>1, FS_EmptySet
<1>3. \A c \in Clients : captured[c] = <<>> BY DEF LogInit, Init
<1>4. \A c \in Clients : Len(captured[c]) <= MaxBatch
  BY <1>3, EventStoreAssumption DEF EventStoreAssumption
<1>5. lastEventId = 0 /\ MaxEventId \in Nat
  BY EventStoreLogAssumption DEF LogInit, EventStoreLogAssumption
<1> QED BY <1>2, <1>4, <1>5 DEF RoomInv

\* The empty tables are an initial state of EventLog.
LEMMA InitRefines == ASSUME LogInit, RowsKnown PROVE Log!LogInit
<1>1. lastEventId = 0 /\ log = {} /\ \A c \in Clients : taken[c] = <<>> BY DEF LogInit
<1>2. \A c \in Clients : Range(taken[c]) = {} BY <1>1 DEF Range
<1>3. {r.id : r \in log} = {} BY <1>1
<1>4. \A i \in 1 .. MaxEventId : RowWithId(i) = NoObject
  <2>1. \A i \in 1 .. MaxEventId : i \in Nat OBVIOUS
  <2> QED BY <1>1, <1>2, <2>1 DEF RowsKnown
<1>5. [a \in Aggregates |-> NoObject] \in
        {keys \in [Log!LoggedAggregates -> {} \cup {NoObject}] : Log!KeysFit(keys)}
  BY DEF Log!LoggedAggregates, Log!KeysFit
<1> QED BY <1>1, <1>2, <1>3, <1>4, <1>5 DEF Log!LogInit, Log!EventIds

\* A step of the contexts is one of EventLog's writers or none.
LEMMA StepRefines ==
  ASSUME IndInv, IdsInv, RoomInv, RowsKnown, RowsKnown', [LogNext]_logVars
  PROVE  [Log!LogNext]_(Log!logVars)
<1> DEFINE Stutter == UNCHANGED <<lastEventId, Inflight, Visible, Rows>>
           Step == \E c \in Clients : Log!Insert(c) \/ Log!CommitEvents(c) \/ Log!RollbackEvents(c)
<1>1. Stutter => UNCHANGED Log!logVars
  BY DEF Log!logVars, Inflight, Visible, Rows
<1>2. Step => Log!LogNext BY DEF Log!LogNext
<1>3. CASE Quiet BY <1>1, <1>3, QuietRefines
<1>4. ASSUME NEW c \in Clients, DrawId(c) PROVE Step
  <2>1. /\ lastEventId < MaxEventId /\ lastEventId' = lastEventId + 1
        /\ Inflight' = [Inflight EXCEPT ![c] = @ \cup {lastEventId + 1}]
        /\ Visible' = Visible
    BY <1>4, DrawRefines
  <2>2. PICK a \in Aggregates, v \in Vals :
          Rows' = [Rows EXCEPT ![lastEventId + 1] = AsEvent(a, v)]
    BY <1>4, DrawRefines
  <2>3. AsEvent(a, v) \in WrittenEvents BY DEF WrittenEvents
  <2>4. \E e \in WrittenEvents : Rows' = [Rows EXCEPT ![lastEventId + 1] = e]
    <3> DEFINE e == AsEvent(a, v)
    <3>1. Rows' = [Rows EXCEPT ![lastEventId + 1] = e] BY <2>2
    <3> HIDE DEF e
    <3> QED BY <2>3, <3>1, Zenon DEF e
  <2>5. Log!Insert(c) BY <2>1, <2>4, Zenon DEF Log!Insert, Inflight, Visible, Rows
  <2> QED BY <2>5
<1>5. ASSUME NEW c \in Clients, CommitShows(c) PROVE Stutter \/ Step
  <2>1. /\ UNCHANGED <<lastEventId, Rows>>
        /\ Visible' = Visible \cup Inflight[c] /\ Inflight' = [Inflight EXCEPT ![c] = {}]
    BY <1>5, CommitRefines
  <2>2. CASE Inflight[c] = {}
    <3>1. Inflight' = Inflight BY <2>1, <2>2 DEF Inflight
    <3>2. Visible' = Visible BY <2>1, <2>2
    <3> QED BY <2>1, <3>1, <3>2
  <2>3. CASE Inflight[c] # {}
    <3>1. Log!CommitEvents(c) BY <2>1, <2>3 DEF Log!CommitEvents, Inflight, Visible, Rows
    <3> QED BY <3>1
  <2> QED BY <2>2, <2>3
<1>6. ASSUME NEW c \in Clients, Ends(c) PROVE Stutter \/ Step
  <2>1. /\ UNCHANGED <<lastEventId, Visible>> /\ Inflight' = [Inflight EXCEPT ![c] = {}]
        /\ Rows' = [i \in 1 .. MaxEventId |-> IF i \in Inflight[c] THEN NoObject ELSE Rows[i]]
    BY <1>6, EndRefines
  <2>2. CASE Inflight[c] = {} BY <2>1, <2>2 DEF Inflight, Rows
  <2>3. CASE Inflight[c] # {}
    <3>1. Log!RollbackEvents(c)
      BY <2>1, <2>3 DEF Log!RollbackEvents, Log!EventIds, Inflight, Visible, Rows
    <3> QED BY <3>1
  <2> QED BY <2>2, <2>3
<1>7. Stutter \/ Step BY <1>3, <1>4, <1>5, <1>6, QuietRefines, InsertRefines, IdSteps
<1> QED BY <1>1, <1>2, <1>7

\* Contexts write the log as EventLog says, of which the subscriptions' properties
\* are proved and checked: an id is taken when an INSERT begins, the rows of a
\* context appear together when it commits (WithContext), none is ever taken back,
\* and the row that an id leads to does not change.
THEOREM ContextsWriteTheLog == LogSpec => ImplementsEventLog
<1> DEFINE AllInv == IndInv /\ PrefixReplays /\ IdsInv /\ RoomInv /\ RowsKnown
<1>1. LogInit => AllInv
  BY InitInv, InitIds, InitRoom, RowsAre DEF LogInit
<1>2. AllInv /\ [LogNext]_logVars => AllInv'
  <2>1. IndInv /\ [LogNext]_logVars => IndInv' BY LogSteps, StepInv
  <2>2. IndInv /\ PrefixReplays /\ [LogNext]_logVars => PrefixReplays' BY LogSteps, NextPrefix
  <2> QED BY <2>1, <2>2, NextIds, NextRoom, RowsAreNext
<1>3. LogInit /\ AllInv => Log!LogInit BY InitRefines
<1>4. AllInv /\ AllInv' /\ [LogNext]_logVars => [Log!LogNext]_(Log!logVars) BY StepRefines
<1> QED BY <1>1, <1>2, <1>3, <1>4, PTL DEF LogSpec, ImplementsEventLog
=============================================================================
