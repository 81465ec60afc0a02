----------------------------- MODULE EventStore -----------------------------
(***************************************************************************)
(* The write path of evercore over an SQL engine: contexts                 *)
(* (EventStore.WithContext, InContext) that load aggregates, apply events  *)
(* to them in memory, and save everything they captured in one database    *)
(* transaction.  Code: base/eventstore.go, base/context.go and the events, *)
(* snapshots and aggregates parts of the two SQL engines.                  *)
(*                                                                         *)
(* An aggregate's state is the sequence of payloads applied to it: the     *)
(* most discriminating fold there is, so two histories are told apart      *)
(* whenever any aggregate's ApplyEventState could tell them apart.         *)
(*                                                                         *)
(* The database is external: UNIQUE(aggregate_id, sequence) on both        *)
(* tables, reads that see the rows committed when the statement runs, an   *)
(* INSERT that waits for an uncommitted row with its key.                  *)
(***************************************************************************)
EXTENDS Integers, Sequences, FiniteSets, Functions

CONSTANTS
  Clients,            \* goroutines (of any number of processes) running contexts
  Aggregates,         \* aggregate ids the database may hand out
  Vals,               \* event payloads
  SnapshotFrequency,  \* Aggregate.GetSnapshotFrequency(); 0 means never
  NoObject,           \* no Aggregate value held for this id
  NoAggregate,        \* no load in progress
  MaxSequence,        \* bound: length of a stream
  MaxBatch            \* bound: events captured by one context

ASSUME EventStoreAssumption ==
  /\ SnapshotFrequency \in Nat
  /\ MaxSequence \in Nat
  /\ MaxBatch \in Nat
  /\ NoAggregate \notin Aggregates
  /\ NoObject \notin [seq : Nat, state : Seq(Vals)]

VARIABLES
  phase,       \* where each client is in WithContext
  objects,     \* objects[c][a]: the Aggregate value c holds for id a
  target,      \* the aggregate c is loading
  fetched,     \* rows returned by GetEventsForAggregate, not applied yet
  captured,    \* EventStoreContextType.capturedEvents
  staged,      \* EventStoreContextType.snapshots
  written,     \* number of rows WriteState has inserted so far
  created,     \* aggregates inserted by the open transaction
  aggregates,  \* committed rows of table aggregates
  db           \* committed rows of tables events and snapshots

local == <<phase, objects, target, fetched, captured, staged, written, created>>
vars == <<local, aggregates, db>>

-----------------------------------------------------------------------------
(* Rows.  base is a history field: the state the writer's object had when   *)
(* the event was applied to it.  No action reads it.                        *)

State == Seq(Vals)
EventRow == [table : {"events"}, agg : Aggregates, seq : Nat, val : Vals, base : State]
SnapshotRow == [table : {"snapshots"}, agg : Aggregates, seq : Nat, state : State]
Object == [seq : Nat, state : State]

Fresh == [seq |-> 0, state |-> <<>>]

\* UNIQUE(aggregate_id, sequence), of table events and of table snapshots.
\* The mutant has one constraint for the rows of both.
SameKeyInAnyTable(r, s) == r.agg = s.agg /\ r.seq = s.seq
SameKey(r, s) == r.table = s.table /\ r.agg = s.agg /\ r.seq = s.seq

EventsOf(a) == {r \in db : r.table = "events" /\ r.agg = a}
SnapshotsOf(a) == {r \in db : r.table = "snapshots" /\ r.agg = a}

\* GetEventsForAggregate.  The mutant is off by one.
EventsFrom(a, n) == {r \in EventsOf(a) : r.seq >= n}
EventsAfter(a, n) == {r \in EventsOf(a) : r.seq > n}

\* What ApplyEventTo makes of object o of id a and payload v.  The mutants number
\* the event before the increment, and take the snapshot before the event is
\* applied.
Applied(o, v) == [seq |-> o.seq + 1, state |-> Append(o.state, v)]
EventUnnumbered(a, o, v) ==
  [table |-> "events", agg |-> a, seq |-> o.seq, val |-> v, base |-> o.state]
EventFor(a, o, v) ==
  [table |-> "events", agg |-> a, seq |-> o.seq + 1, val |-> v, base |-> o.state]
SnapshotBefore(a, o, v) ==
  [table |-> "snapshots", agg |-> a, seq |-> o.seq + 1, state |-> o.state]
SnapshotFor(a, o, v) ==
  [table |-> "snapshots", agg |-> a, seq |-> o.seq + 1, state |-> Append(o.state, v)]
SnapshotDue(n) == SnapshotFrequency > 0 /\ n % SnapshotFrequency = 0

-----------------------------------------------------------------------------
(* WriteState inserts the captured events in order, then the snapshots.     *)

BatchSize(c) == Len(captured[c]) + Len(staged[c])

Row(c, i) ==
  IF i <= Len(captured[c]) THEN captured[c][i] ELSE staged[c][i - Len(captured[c])]

NextRow(c) == Row(c, written[c] + 1)

Inserted(c) == {Row(c, i) : i \in 1 .. written[c]}

\* The key is in the table already, or the transaction inserted it itself.  The
\* mutant has no UNIQUE constraint to tell it of other transactions.
TakenByItself(c) == \E r \in Inserted(c) : SameKey(r, NextRow(c))
Taken(c) == \E r \in db \cup Inserted(c) : SameKey(r, NextRow(c))

\* c's next INSERT waits for d: d holds an uncommitted row with that key.
WaitsFor(c, d) ==
  /\ c # d
  /\ phase[c] = "saving" /\ written[c] < BatchSize(c)
  /\ \E r \in Inserted(d) : SameKey(r, NextRow(c))

-----------------------------------------------------------------------------
Init ==
  /\ phase = [c \in Clients |-> "idle"]
  /\ objects = [c \in Clients |-> [a \in Aggregates |-> NoObject]]
  /\ target = [c \in Clients |-> NoAggregate]
  /\ fetched = [c \in Clients |-> {}]
  /\ captured = [c \in Clients |-> <<>>]
  /\ staged = [c \in Clients |-> <<>>]
  /\ written = [c \in Clients |-> 0]
  /\ created = [c \in Clients |-> {}]
  /\ aggregates = {}
  /\ db = {}

\* GetTransactionInfo succeeded; the callback starts with nothing captured.
Begin(c) ==
  /\ phase[c] = "idle"
  /\ phase' = [phase EXCEPT ![c] = "callback"]
  /\ UNCHANGED <<objects, target, fetched, captured, staged, written, created,
                 aggregates, db>>

\* CreateAggregateInto a new object.  The id is one no row has; a rolled back
\* transaction's id may come back (SQLite) or not (PostgreSQL).
CreateAggregate(c, a) ==
  /\ phase[c] = "callback"
  /\ a \notin aggregates /\ \A d \in Clients : a \notin created[d]
  /\ created' = [created EXCEPT ![c] = @ \cup {a}]
  /\ objects' = [objects EXCEPT ![c][a] = Fresh]
  /\ UNCHANGED <<phase, target, fetched, captured, staged, written, aggregates, db>>

\* LoadStateInto a new object: getAggregateById finds the row, and the snapshot
\* with the highest sequence, if there is one, becomes the object's state.
LoadSnapshot(c, a) ==
  /\ phase[c] = "callback"
  /\ a \in aggregates \cup created[c]
  /\ \/ /\ SnapshotsOf(a) = {}
        /\ objects' = [objects EXCEPT ![c][a] = Fresh]
     \/ \E s \in SnapshotsOf(a) :
          /\ \A t \in SnapshotsOf(a) : t.seq <= s.seq
          /\ objects' = [objects EXCEPT ![c][a] = [seq |-> s.seq, state |-> s.state]]
  /\ target' = [target EXCEPT ![c] = a]
  /\ phase' = [phase EXCEPT ![c] = "loading"]
  /\ UNCHANGED <<fetched, captured, staged, written, created, aggregates, db>>

\* loadEvents: a second statement, which may see commits the first did not.
LoadEvents(c) ==
  /\ phase[c] = "loading"
  /\ fetched' = [fetched EXCEPT ![c] =
                   EventsAfter(target[c], objects[c][target[c]].seq)]
  /\ phase' = [phase EXCEPT ![c] = "applying"]
  /\ UNCHANGED <<objects, target, captured, staged, written, created, aggregates, db>>

\* applyState's loop: the rows come ordered by sequence, and the object takes
\* the sequence of the last one.
ApplyFetched(c) ==
  /\ phase[c] = "applying"
  /\ \E r \in fetched[c] :
       /\ \A s \in fetched[c] : r.seq <= s.seq
       /\ fetched' = [fetched EXCEPT ![c] = @ \ {r}]
       /\ objects' = [objects EXCEPT ![c][target[c]] =
                        [seq |-> r.seq, state |-> Append(@.state, r.val)]]
  /\ UNCHANGED <<phase, target, captured, staged, written, created, aggregates, db>>

EndLoad(c) ==
  /\ phase[c] = "applying" /\ fetched[c] = {}
  /\ target' = [target EXCEPT ![c] = NoAggregate]
  /\ phase' = [phase EXCEPT ![c] = "callback"]
  /\ UNCHANGED <<objects, fetched, captured, staged, written, created, aggregates, db>>

\* ApplyEventTo: the event takes the object's next sequence and is captured;
\* at a multiple of the snapshot frequency a snapshot is staged too, unless
\* GetSnapshotState fails, after the event was published.
ApplyEvent(c, a, v) ==
  LET o == objects[c][a]
  IN /\ phase[c] = "callback"
     /\ o # NoObject
     /\ o.seq < MaxSequence /\ Len(captured[c]) < MaxBatch
     /\ objects' = [objects EXCEPT ![c][a] = Applied(o, v)]
     /\ captured' = [captured EXCEPT ![c] = Append(@, EventFor(a, o, v))]
     /\ \/ /\ SnapshotDue(o.seq + 1)
           /\ staged' = [staged EXCEPT ![c] = Append(@, SnapshotFor(a, o, v))]
        \/ UNCHANGED staged
     /\ UNCHANGED <<phase, target, fetched, written, created, aggregates, db>>

\* The callback returned nil: SaveState starts.
Return(c) ==
  /\ phase[c] = "callback"
  /\ phase' = [phase EXCEPT ![c] = "saving"]
  /\ UNCHANGED <<objects, target, fetched, captured, staged, written, created,
                 aggregates, db>>

\* AddEvent or AddSnapshot succeeds.  The mutant writes outside the transaction.
InsertRowAutocommit(c) ==
  /\ phase[c] = "saving" /\ written[c] < BatchSize(c)
  /\ ~Taken(c)
  /\ written' = [written EXCEPT ![c] = @ + 1]
  /\ db' = db \cup {NextRow(c)}
  /\ UNCHANGED <<phase, objects, target, fetched, captured, staged, created, aggregates>>
InsertRow(c) ==
  /\ phase[c] = "saving" /\ written[c] < BatchSize(c)
  /\ ~Taken(c)
  /\ \A d \in Clients : ~WaitsFor(c, d)
  /\ written' = [written EXCEPT ![c] = @ + 1]
  /\ UNCHANGED <<phase, objects, target, fetched, captured, staged, created,
                 aggregates, db>>

\* The context is over: what was captured in memory is gone.
Discard(c) ==
  /\ phase' = [phase EXCEPT ![c] = "idle"]
  /\ objects' = [objects EXCEPT ![c] = [a \in Aggregates |-> NoObject]]
  /\ target' = [target EXCEPT ![c] = NoAggregate]
  /\ fetched' = [fetched EXCEPT ![c] = {}]
  /\ captured' = [captured EXCEPT ![c] = <<>>]
  /\ staged' = [staged EXCEPT ![c] = <<>>]
  /\ written' = [written EXCEPT ![c] = 0]
  /\ created' = [created EXCEPT ![c] = {}]

\* UNIQUE violation: SaveState returns the error and the deferred Rollback runs.
\* The mutant tries the same INSERT again.
InsertFailsRetried(c) ==
  /\ phase[c] = "saving" /\ written[c] < BatchSize(c)
  /\ Taken(c)
  /\ UNCHANGED vars
InsertFails(c) ==
  /\ phase[c] = "saving" /\ written[c] < BatchSize(c)
  /\ Taken(c)
  /\ Discard(c)
  /\ UNCHANGED <<aggregates, db>>

\* The database breaks a cycle of waiting INSERTs by failing one of them.
DeadlockVictim(c) ==
  /\ \E S \in SUBSET Clients :
       /\ c \in S
       /\ \A x \in S : \E y \in S : WaitsFor(x, y)
       /\ \A y \in S : \E x \in S : WaitsFor(x, y)
  /\ Discard(c)
  /\ UNCHANGED <<aggregates, db>>

\* Commit.  It may still return an error to the caller when only the answer is lost.
Commit(c) ==
  /\ phase[c] = "saving" /\ written[c] = BatchSize(c)
  /\ db' = db \cup Inserted(c)
  /\ aggregates' = aggregates \cup created[c]
  /\ Discard(c)

\* The callback or a statement returns an error, Commit fails, the callback
\* panics, or the process dies: the transaction is rolled back.
Abort(c) ==
  /\ phase[c] # "idle"
  /\ Discard(c)
  /\ UNCHANGED <<aggregates, db>>

Next ==
  \E c \in Clients :
    \/ Begin(c)
    \/ \E a \in Aggregates : CreateAggregate(c, a)
    \/ \E a \in Aggregates : LoadSnapshot(c, a)
    \/ LoadEvents(c)
    \/ ApplyFetched(c)
    \/ EndLoad(c)
    \/ \E a \in Aggregates, v \in Vals : ApplyEvent(c, a, v)
    \/ Return(c)
    \/ InsertRow(c)
    \/ InsertFails(c)
    \/ DeadlockVictim(c)
    \/ Commit(c)
    \/ Abort(c)

Spec == Init /\ [][Next]_vars

-----------------------------------------------------------------------------
(* A callback returns, statements and the loop of applyState run to their   *)
(* end, the database wakes the INSERT that waited longest and breaks        *)
(* deadlocks.  Nothing is assumed about Begin or Abort.                     *)

Fairness ==
  \A c \in Clients :
    /\ SF_vars(Return(c))
    /\ WF_vars(LoadEvents(c)) /\ WF_vars(ApplyFetched(c)) /\ WF_vars(EndLoad(c))
    /\ SF_vars(InsertRow(c)) /\ WF_vars(InsertFails(c)) /\ WF_vars(Commit(c))
    /\ WF_vars(DeadlockVictim(c))

FairSpec == Spec /\ Fairness

-----------------------------------------------------------------------------
(* Properties                                                               *)

TypeOK ==
  /\ phase \in [Clients -> {"idle", "callback", "loading", "applying", "saving"}]
  /\ objects \in [Clients -> [Aggregates -> Object \cup {NoObject}]]
  /\ target \in [Clients -> Aggregates \cup {NoAggregate}]
  /\ fetched \in [Clients -> SUBSET EventRow]
  /\ captured \in [Clients -> Seq(EventRow)]
  /\ staged \in [Clients -> Seq(SnapshotRow)]
  /\ written \in [Clients -> Nat]
  /\ created \in [Clients -> SUBSET Aggregates]
  /\ aggregates \in SUBSET Aggregates
  /\ db \in SUBSET (EventRow \cup SnapshotRow)

\* Row i of stream a is in rows and holds v.
Holds(rows, a, i, v) ==
  \E r \in rows : r.table = "events" /\ r.agg = a /\ r.seq = i /\ r.val = v

\* s is what replaying the rows 1 .. Len(s) of stream a gives.
IsReplay(rows, a, s) == \A i \in 1 .. Len(s) : Holds(rows, a, i, s[i])

\* Optimistic concurrency: whoever appended event n had applied it to the state
\* that events 1 .. n - 1 give, none missing and none from a lost transaction
\* (context.go ApplyEventTo, the UNIQUE constraint and WriteState together).
\* It implies that every stream is numbered 1, 2, 3, ... without a gap.
NoLostUpdate ==
  \A r \in db : r.table = "events" =>
    Len(r.base) = r.seq - 1 /\ IsReplay(db, r.agg, r.base)

\* A stored snapshot at sequence n is the replay of events 1 .. n, so loading
\* through it (loadState) gives what loading from event 1 would.
SnapshotsAreReplays ==
  \A r \in db : r.table = "snapshots" =>
    Len(r.state) = r.seq /\ IsReplay(db, r.agg, r.state)

\* The object a callback works on is always the replay of a prefix of the
\* stream followed by what this context captured, although loadState reads the
\* snapshot and the events in two statements and others commit in between.
ObjectsAreReplays ==
  \A c \in Clients : \A a \in Aggregates :
    objects[c][a] # NoObject =>
      /\ Len(objects[c][a].state) = objects[c][a].seq
      /\ IsReplay(db \cup Range(captured[c]), a, objects[c][a].state)

\* Once the events of a batch are inserted, its snapshots cannot collide: the
\* UNIQUE constraint on table snapshots never fails a context.
SnapshotInsertsNeverCollide ==
  \A c \in Clients :
    phase[c] = "saving" /\ Len(captured[c]) <= written[c] /\ written[c] < BatchSize(c) =>
      ~Taken(c) /\ \A d \in Clients : ~WaitsFor(c, d)

\* Every context ends, whatever the order in which several of them lock rows.
ContextsEnd == \A c \in Clients : phase[c] # "idle" ~> phase[c] = "idle"
=============================================================================
