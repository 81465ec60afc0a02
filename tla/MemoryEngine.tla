---------------------------- MODULE MemoryEngine ----------------------------
(***************************************************************************)
(* Contexts over the memory storage engine.  It has no transactions: its   *)
(* Commit and Rollback do nothing, what a context creates is there at      *)
(* once, and WriteState appends whatever it is given.  It has no lock      *)
(* either.  Code: base/memory.go, with the contexts of base/eventstore.go  *)
(* and base/context.go that use it.                                        *)
(*                                                                         *)
(* As in EventStore, an aggregate's state is the sequence of payloads      *)
(* applied to it.                                                          *)
(***************************************************************************)
EXTENDS Integers, Sequences, FiniteSets, SequencesExt

CONSTANTS
  Clients,            \* goroutines
  Keys,               \* natural keys
  Vals,               \* event payloads
  SnapshotFrequency,  \* Aggregate.GetSnapshotFrequency(); 0 means never
  NoObject,           \* no Aggregate value held for this id
  NoKey,              \* an aggregate without natural key
  NoId,               \* a key that names no aggregate
  MaxAggregates,      \* bound: aggregates created
  MaxLog,             \* bound: length of CapturedEvents
  MaxBatch            \* bound: events captured by one context

ASSUME MemoryEngineAssumption ==
  /\ SnapshotFrequency \in Nat
  /\ MaxAggregates \in Nat /\ MaxLog \in Nat /\ MaxBatch \in Nat
  /\ NoId \notin Nat /\ NoKey \notin Keys
  /\ NoObject \notin [seq : Nat, state : Seq(Vals)]

VARIABLES
  log,        \* CapturedEvents
  snapshots,  \* CapturedSnapshots
  count,      \* CountAggregates
  byKey,      \* Aggregates: key -> id
  keyOf,      \* AggregateInv: id -> key
  takenOver,  \* history: a key in use was given to another aggregate
  phase,      \* where each client is in WithContext
  objects,    \* objects[c][a]: the Aggregate value c holds for id a
  captured,   \* capturedEvents of c's context
  staged      \* snapshots of c's context

engine == <<log, snapshots, count, byKey, keyOf, takenOver>>
context == <<objects, captured, staged>>
vars == <<engine, phase, context>>

-----------------------------------------------------------------------------
Ids == 1 .. MaxAggregates
State == Seq(Vals)
Object == [seq : Nat, state : State]
Event == [agg : Ids, seq : Nat, val : Vals, base : State]
Snapshot == [agg : Ids, seq : Nat, state : State]

Fresh == [seq |-> 0, state |-> <<>>]
Existing == 1 .. count

Init ==
  /\ log = <<>> /\ snapshots = <<>>
  /\ count = 0
  /\ byKey = [k \in Keys |-> NoId]
  /\ keyOf = [a \in Ids |-> NoKey]
  /\ takenOver = FALSE
  /\ phase = [c \in Clients |-> "idle"]
  /\ objects = [c \in Clients |-> [a \in Ids |-> NoObject]]
  /\ captured = [c \in Clients |-> <<>>]
  /\ staged = [c \in Clients |-> <<>>]

Begin(c) ==
  /\ phase[c] = "idle"
  /\ phase' = [phase EXCEPT ![c] = "callback"]
  /\ UNCHANGED <<engine, context>>

\* CountAggregates after its increment.  The mutant takes it before.
OldCount == count
NewId == count + 1

\* The next id, for c's new object.
Create(c) ==
  /\ phase[c] = "callback"
  /\ count < MaxAggregates
  /\ count' = count + 1
  /\ objects' = [objects EXCEPT ![c][NewId] = Fresh]
  /\ UNCHANGED <<log, snapshots, takenOver, phase, captured, staged>>

NewAggregate(c) == Create(c) /\ UNCHANGED <<byKey, keyOf>>

\* A key in use is refused, and changes nothing.
NewAggregateWithKey(c, k) ==
  /\ byKey[k] = NoId
  /\ Create(c)
  /\ byKey' = [byKey EXCEPT ![k] = NewId]
  /\ keyOf' = [keyOf EXCEPT ![NewId] = k]

-----------------------------------------------------------------------------
(* Loading                                                                  *)

\* GetSnapshotForAggregate: the one that was captured last.
LastSnapshot(a) ==
  LET own == {i \in DOMAIN snapshots : snapshots[i].agg = a}
  IN IF own = {} THEN [agg |-> a, seq |-> 0, state |-> <<>>]
     ELSE snapshots[CHOOSE i \in own : \A j \in own : j <= i]

\* A loop over slice s that keeps what is at the positions S, in their order.
NthOf(S, k) == CHOOSE p \in S : Cardinality({j \in S : j <= p}) = k
Kept(s, S) == [k \in 1 .. Cardinality(S) |-> s[NthOf(S, k)]]

\* GetEventsForAggregate.  The mutant is off by one.
After(s, a, n) == {i \in DOMAIN s : s[i].agg = a /\ s[i].seq > n}
EventsFrom(a, n) == Kept(log, {i \in DOMAIN log : log[i].agg = a /\ log[i].seq >= n})
EventsAfter(a, n) == Kept(log, After(log, a, n))

\* loadState and applyState.
Loaded(a) ==
  LET s == LastSnapshot(a)
      es == EventsAfter(a, s.seq)
  IN [seq |-> IF es = <<>> THEN s.seq ELSE Last(es).seq,
      state |-> s.state \o [i \in 1 .. Len(es) |-> es[i].val]]

\* LoadStateInto.  Whoever else holds the aggregate, and whatever c applied to it.
Load(c, a) ==
  /\ phase[c] = "callback"
  /\ a \in Existing
  /\ objects' = [objects EXCEPT ![c][a] = Loaded(a)]
  /\ UNCHANGED <<engine, phase, captured, staged>>

\* LoadStateByKeyInto: GetAggregateByKey, then as by id.
LoadByKey(c, k) == byKey[k] # NoId /\ Load(c, byKey[k])

\* GetOrCreateAggregateByKey creates when the key is not there.
LoadOrCreateAggregate(c, k) == NewAggregateWithKey(c, k) \/ LoadByKey(c, k)

\* ChangeAggregateNaturalKey.  An aggregate without key makes it panic (Abort);
\* a key in use is taken over: the aggregate that loses it is not told, and takes the
\* entry away when it changes its own.  The mutant keeps the old key.
TakesOver(a, k) == takenOver' = (takenOver \/ byKey[k] \notin {NoId, a})
ChangeKeepingOld(c, a, k) ==
  /\ phase[c] = "callback"
  /\ a \in Existing /\ keyOf[a] # NoKey
  /\ byKey' = [byKey EXCEPT ![k] = a]
  /\ keyOf' = [keyOf EXCEPT ![a] = k]
  /\ TakesOver(a, k)
  /\ UNCHANGED <<log, snapshots, count, phase, context>>
ChangeAggregateNaturalKey(c, a, k) ==
  /\ phase[c] = "callback"
  /\ a \in Existing /\ keyOf[a] # NoKey
  /\ byKey' = [byKey EXCEPT ![keyOf[a]] = NoId, ![k] = a]
  /\ keyOf' = [keyOf EXCEPT ![a] = k]
  /\ TakesOver(a, k)
  /\ UNCHANGED <<log, snapshots, count, phase, context>>

-----------------------------------------------------------------------------
(* Applying and saving                                                      *)

SnapshotDue(n) == SnapshotFrequency > 0 /\ n % SnapshotFrequency = 0

\* What ApplyEventTo stages for object o.  The mutant takes the state the object
\* had before.
SnapshotBefore(a, o, v) == [agg |-> a, seq |-> o.seq + 1, state |-> o.state]
SnapshotFor(a, o, v) == [agg |-> a, seq |-> o.seq + 1, state |-> Append(o.state, v)]

ApplyEvent(c, a, v) ==
  LET o == objects[c][a]
  IN /\ phase[c] = "callback"
     /\ o # NoObject
     /\ Len(captured[c]) < MaxBatch
     /\ objects' = [objects EXCEPT ![c][a] = [seq |-> o.seq + 1, state |-> Append(o.state, v)]]
     /\ captured' = [captured EXCEPT ![c] =
          Append(@, [agg |-> a, seq |-> o.seq + 1, val |-> v, base |-> o.state])]
     /\ \/ /\ SnapshotDue(o.seq + 1)
           /\ staged' = [staged EXCEPT ![c] = Append(@, SnapshotFor(a, o, v))]
        \/ UNCHANGED staged   \* not due, or GetSnapshotState failed
     /\ UNCHANGED <<engine, phase>>

\* A context's memory is gone when it ends.
Discard(c) ==
  /\ phase' = [phase EXCEPT ![c] = "idle"]
  /\ objects' = [objects EXCEPT ![c] = [a \in Ids |-> NoObject]]
  /\ captured' = [captured EXCEPT ![c] = <<>>]
  /\ staged' = [staged EXCEPT ![c] = <<>>]

\* The callback returned nil: SaveState and WriteState append, Commit does nothing.
\* Nothing is compared with what others saved.  One step, though there is no lock:
\* goroutines in it together, whose append could mix their events, are not modelled.
WriteState(c) ==
  /\ phase[c] = "callback"
  /\ Len(log) + Len(captured[c]) <= MaxLog
  /\ log' = log \o captured[c]
  /\ snapshots' = snapshots \o staged[c]
  /\ Discard(c)
  /\ UNCHANGED <<count, byKey, keyOf, takenOver>>

\* The callback fails or panics: Rollback does nothing.
Abort(c) ==
  /\ phase[c] = "callback"
  /\ Discard(c)
  /\ UNCHANGED engine

Next ==
  \E c \in Clients :
    \/ Begin(c) \/ NewAggregate(c) \/ WriteState(c) \/ Abort(c)
    \/ \E k \in Keys : LoadByKey(c, k) \/ LoadOrCreateAggregate(c, k) \/ NewAggregateWithKey(c, k)
    \/ \E a \in Ids : Load(c, a)
    \/ \E a \in Ids, k \in Keys : ChangeAggregateNaturalKey(c, a, k)
    \/ \E a \in Ids, v \in Vals : ApplyEvent(c, a, v)

Spec == Init /\ [][Next]_vars

-----------------------------------------------------------------------------
(* Properties                                                               *)

TypeOK ==
  /\ log \in Seq(Event) /\ snapshots \in Seq(Snapshot)
  /\ count \in 0 .. MaxAggregates
  /\ byKey \in [Keys -> Ids \cup {NoId}]
  /\ keyOf \in [Ids -> Keys \cup {NoKey}]
  /\ takenOver \in BOOLEAN
  /\ phase \in [Clients -> {"idle", "callback"}]
  /\ objects \in [Clients -> [Ids -> Object \cup {NoObject}]]
  /\ captured \in [Clients -> Seq(Event)] /\ staged \in [Clients -> Seq(Snapshot)]

StreamOf(a) == Kept(log, {i \in DOMAIN log : log[i].agg = a})

\* An event of stream a was computed from exactly the events that precede it.
Chain(a) ==
  \A i \in 1 .. Len(StreamOf(a)) :
    LET e == StreamOf(a)[i]
    IN e.seq = i /\ e.base = [j \in 1 .. i - 1 |-> StreamOf(a)[j].val]

\* No number is used twice for aggregate a in slice s, what UNIQUE(aggregate_id,
\* sequence) says in the SQL engines.
Unique(s, a) ==
  \A i, j \in DOMAIN s : s[i].agg = a /\ s[j].agg = a /\ s[i].seq = s[j].seq => i = j

\* Optimistic concurrency control (README.md, "Features"), for engines that are "safe
\* for calling from multiple goroutines simultaneously" (base/storage.go).  It does not
\* hold: WriteState appends the events of a context that loaded before another one
\* saved, or that loaded again what it had applied events to.
OptimisticConcurrency == \A a \in Existing : Chain(a)

\* No update is lost but by a number that is used twice: in a stream of distinct
\* numbers an event was computed from exactly the events that precede it, whichever
\* contexts overlapped, gave up, or loaded twice (context.go ApplyEventTo numbers,
\* memory.go WriteState appends unseen).  So the check that is missing here is the
\* SQL engines' UNIQUE, and no other.
NoLostUpdate == \A a \in Existing : Unique(log, a) => Chain(a)

\* In such a stream a load gives what replaying the whole of it gives, through
\* whichever snapshot it goes, those staged by overlapping contexts included.
LoadsAreReplays ==
  \A a \in Existing : Unique(log, a) =>
    Loaded(a) = [seq |-> Len(StreamOf(a)), state |-> [i \in DOMAIN StreamOf(a) |-> StreamOf(a)[i].val]]

\* A key that leads to an aggregate is that aggregate's key, also after keys were taken
\* over.  And an aggregate is found by its key as long as no key was ever taken over:
\* afterwards it may not be (a has k1, b has k2; a takes k2; b, which still has k2,
\* changes to another key and deletes the entry, memory.go:135), which the UNIQUE
\* constraint of the SQL engines excludes and the memory engine does not.
KeysLeadBack ==
  /\ \A k \in Keys : byKey[k] # NoId => keyOf[byKey[k]] = k
  /\ ~takenOver => \A a \in Existing : keyOf[a] # NoKey => byKey[keyOf[a]] = a
=============================================================================
