------------------------------ MODULE EventLog ------------------------------
(***************************************************************************)
(* The view event_log as subscriptions see it: the ids that rows of table  *)
(* events get, the order in which transactions make them visible, and the  *)
(* natural key that each row's aggregate has when a query runs.  An id is  *)
(* assigned when WriteState inserts the row; the row is read only once its *)
(* transaction commits.  Code: WriteState of the engines and their         *)
(* migrations (BIGSERIAL, INTEGER PRIMARY KEY, the view).                  *)
(***************************************************************************)
EXTENDS Integers, FiniteSets, FiniteSetsExt

CONSTANTS
  Writers,        \* transactions that insert events
  SerialWriters,  \* TRUE: one writing transaction at a time, next id is the
                  \* highest one in the table plus 1 (SQLite, memory engine)
                  \* FALSE: concurrent transactions, ids from a sequence that
                  \* no rollback resets (PostgreSQL)
  MaxEventId,     \* bound: ids handed out
  Events,         \* what is written: records [agg, type, time]; the time is
                  \* the application's and need not grow with the id
  TypeOf,         \* TypeOf[a]: the aggregate type of aggregate a
  Keys,           \* natural keys that aggregates may get
  NoKey,          \* natural_key IS NULL
  NoEvent         \* no row has this id

LoggedAggregates == DOMAIN TypeOf
EventIds == 1 .. MaxEventId

ASSUME EventLogAssumption ==
  /\ SerialWriters \in BOOLEAN
  /\ MaxEventId \in Nat
  /\ NoEvent \notin Events
  /\ NoKey \notin Keys
  /\ \A e \in Events : e.agg \in LoggedAggregates /\ e.time \in Nat

VARIABLES
  lastId,    \* the highest id handed out so far
  inflight,  \* inflight[x]: ids inserted by x, not committed
  visible,   \* ids of the committed rows
  row,       \* row[i]: what is in the row with id i
  keyOf      \* keyOf[a]: natural_key of aggregate a

logVars == <<lastId, inflight, visible, row, keyOf>>

Highest(S) == IF S = {} THEN 0 ELSE Max(S)

\* SELECT MAX(id) FROM events
MaxEvent == Highest(visible)

\* GetFirstEventIdFromTimestamp.
FirstIdFrom(t) ==
  LET since == {i \in visible : row[i].time >= t}
  IN IF since = {} THEN 0 ELSE Min(since)

\* natural_key is UNIQUE.
KeysFit(keys) == \A a, b \in LoggedAggregates : a # b /\ keys[a] = keys[b] => keys[a] = NoKey

LogInit ==
  /\ lastId = 0
  /\ inflight = [x \in Writers |-> {}]
  /\ visible = {}
  /\ row = [i \in EventIds |-> NoEvent]
  /\ keyOf \in {keys \in [LoggedAggregates -> Keys \cup {NoKey}] : KeysFit(keys)}

\* AddEvent in x's transaction.
Insert(x) ==
  /\ SerialWriters => \A y \in Writers \ {x} : inflight[y] = {}
  /\ lastId < MaxEventId
  /\ lastId' = lastId + 1
  /\ inflight' = [inflight EXCEPT ![x] = @ \cup {lastId + 1}]
  /\ \E e \in Events : row' = [row EXCEPT ![lastId + 1] = e]
  /\ UNCHANGED <<visible, keyOf>>

CommitEvents(x) ==
  /\ inflight[x] # {}
  /\ visible' = visible \cup inflight[x]
  /\ inflight' = [inflight EXCEPT ![x] = {}]
  /\ UNCHANGED <<lastId, row, keyOf>>

\* The ids of a rolled back transaction come back only with SerialWriters.
RollbackEvents(x) ==
  /\ inflight[x] # {}
  /\ inflight' = [inflight EXCEPT ![x] = {}]
  /\ row' = [i \in EventIds |-> IF i \in inflight[x] THEN NoEvent ELSE row[i]]
  /\ lastId' = IF SerialWriters THEN MaxEvent ELSE lastId
  /\ UNCHANGED <<visible, keyOf>>

\* ChangeAggregateNaturalKey, committed: the view shows all rows of a, those
\* written long ago too, under the new key.
ChangeKey(a) ==
  /\ \E k \in Keys \ {keyOf[a]} : keyOf' = [keyOf EXCEPT ![a] = k]
  /\ KeysFit(keyOf')
  /\ UNCHANGED <<lastId, inflight, visible, row>>

LogNext ==
  \/ \E x \in Writers : Insert(x) \/ CommitEvents(x) \/ RollbackEvents(x)
  \/ \E a \in LoggedAggregates : ChangeKey(a)

LogTypeOK ==
  /\ lastId \in 0 .. MaxEventId
  /\ inflight \in [Writers -> SUBSET EventIds]
  /\ visible \in SUBSET EventIds
  /\ row \in [EventIds -> Events \cup {NoEvent}]
  /\ keyOf \in [LoggedAggregates -> Keys \cup {NoKey}]
=============================================================================
