------------------------- MODULE SubscriptionTable --------------------------
(***************************************************************************)
(* The row of one subscription in tables subscriptions and                 *)
(* subscription_event_types, and the statements that read and write it.    *)
(* Code: the subscription methods of the SQL engines.  None of them runs   *)
(* in a transaction with another one, so each is one step.                 *)
(*                                                                         *)
(* The clock is abstracted to the one thing the statements ask of it: the  *)
(* lease is in force or it has expired, by the clock of the caller that    *)
(* tries to claim.  MemorySubscriptions refines this to a clock.           *)
(***************************************************************************)
EXTENDS EventLog

CONSTANTS
  Calls,     \* arguments of RunSubscription: records [owner, filter, start]
  NoOwner,   \* lease_owner IS NULL
  NoType,    \* aggregate_type_id or event_type_id IS NULL
  BatchSize  \* Options.BatchSize

Owners == {c.owner : c \in Calls}
TypesOfEvents == {e.type : e \in Events} \cup UNION {c.filter.types : c \in Calls}
StartKinds == {"beginning", "end", "event_id", "timestamp"}

\* SubscriptionFilter: no aggregate type, key or event types means all of them.
Filter == [aggType : {TypeOf[a] : a \in LoggedAggregates} \cup {NoType},
           key : Keys \cup {NoKey}, types : SUBSET TypesOfEvents]
StartFrom == [kind : StartKinds, id : 0 .. MaxEventId, time : Nat]

FromBeginning == [kind |-> "beginning", id |-> 0, time |-> 0]

ASSUME SubscriptionTableAssumption ==
  /\ BatchSize \in Nat \ {0}
  /\ NoOwner \notin Owners
  /\ NoType \notin TypesOfEvents
  /\ \A c \in Calls : /\ c.filter \in Filter /\ IsFiniteSet(c.filter.types)
                       /\ c.start \in StartFrom

VARIABLE
  sub  \* the row; field types holds its rows in the join table

-----------------------------------------------------------------------------
(* Filters.                                                                 *)

\* RunSubscription puts one event type in a column of the row, and several in
\* the join table.
TypeColumn(types) ==
  IF Cardinality(types) = 1 THEN CHOOSE t \in types : TRUE ELSE NoType
JoinTypes(types) == IF Cardinality(types) > 1 THEN types ELSE {}

NoColumns == [aggType |-> NoType, key |-> NoKey, type |-> NoType]
Columns(f) == [aggType |-> f.aggType, key |-> f.key, type |-> TypeColumn(f.types)]

\* The WHERE clause of GetEventsForSubscription.  The mutant does not look at the
\* type column.
SelectsByJoinTable(columns, types, i) ==
  /\ columns.aggType \in {NoType, TypeOf[row[i].agg]}
  /\ columns.key \in {NoKey, keyOf[row[i].agg]}
  /\ types # {} => row[i].type \in types
Selects(columns, types, i) ==
  /\ columns.aggType \in {NoType, TypeOf[row[i].agg]}
  /\ columns.key \in {NoKey, keyOf[row[i].agg]}
  /\ IF types # {} THEN row[i].type \in types
                   ELSE columns.type \in {NoType, row[i].type}

\* What a caller means by its filter.
Wanted(f, i) ==
  /\ f.aggType = NoType \/ f.aggType = TypeOf[row[i].agg]
  /\ f.key = NoKey \/ f.key = keyOf[row[i].agg]
  /\ f.types = {} \/ row[i].type \in f.types

\* GetEventsForSubscription: ORDER BY id LIMIT BatchSize.  The SQL engines do not ask
\* for rows.Err(): a result that breaks off counts as a smaller batch, which is what a
\* smaller BatchSize gives.  One mutant takes the latest rows first, the other is off by
\* one.
EventsLatest(cursor, columns, types) ==
  LET later == {i \in visible : i > cursor /\ Selects(columns, types, i)}
  IN {i \in later : Cardinality({j \in later : j > i}) < BatchSize}
EventsAfterNext(cursor, columns, types) ==
  LET later == {i \in visible : i > cursor + 1 /\ Selects(columns, types, i)}
  IN {i \in later : Cardinality({j \in later : j < i}) < BatchSize}
EventsFor(cursor, columns, types) ==
  LET later == {i \in visible : i > cursor /\ Selects(columns, types, i)}
  IN {i \in later : Cardinality({j \in later : j < i}) < BatchSize}

-----------------------------------------------------------------------------
(* The row.                                                                 *)

SubscriptionRow ==
  [exists : BOOLEAN, cursor : 0 .. MaxEventId, active : BOOLEAN,
   owner : Owners \cup {NoOwner}, expired : BOOLEAN,
   columns : {NoColumns} \cup {Columns(c.filter) : c \in Calls},
   start : {FromBeginning} \cup {c.start : c \in Calls},
   types : SUBSET TypesOfEvents]

\* There is no row; what an INSERT does not name gets these values.
AbsentRow ==
  [exists |-> FALSE, cursor |-> 0, active |-> TRUE, owner |-> NoOwner, expired |-> FALSE,
   columns |-> NoColumns, start |-> FromBeginning, types |-> {}]

TableInit == sub = AbsentRow

\* UpsertSubscription: an existing row keeps its cursor, lease, active flag and
\* event types, and takes the caller's filter and start.  The mutant inserts or
\* replaces the row.
UpsertReplacing(c) ==
  sub' = [sub EXCEPT !.exists = TRUE, !.columns = Columns(c.filter), !.start = c.start,
                     !.cursor = 0]
UpsertSubscription(c) ==
  sub' = [sub EXCEPT !.exists = TRUE, !.columns = Columns(c.filter), !.start = c.start]

\* INSERT ... ON CONFLICT DO NOTHING; no statement ever deletes such a row.
AddSubscriptionEventType(t) == sub' = [sub EXCEPT !.types = @ \cup {t}]

\* The WHERE clause of ClaimSubscription's UPDATE.  The mutant lets an owner
\* claim again what it owns.
FreeOrOwn(o) ==
  sub.exists /\ sub.active /\ (sub.owner \in {NoOwner, o} \/ sub.expired)
Free(o) ==
  sub.exists /\ sub.active /\ (sub.owner = NoOwner \/ sub.expired)

ClaimSubscription(o) ==
  Free(o) /\ sub' = [sub EXCEPT !.owner = o, !.expired = FALSE]

\* Nothing changes when the row has another owner or is paused.
RenewSubscription(o) ==
  sub' = IF sub.owner = o /\ sub.active THEN [sub EXCEPT !.expired = FALSE] ELSE sub

\* Only the caller's own lease is cleared.
ReleaseSubscription(o) ==
  sub' = IF sub.owner = o THEN [sub EXCEPT !.owner = NoOwner, !.expired = FALSE] ELSE sub

\* Whatever the row holds by now and whoever owns the lease.
AdvanceSubscriptionCursor(i) == sub' = [sub EXCEPT !.cursor = i]

SetSubscriptionActive(active) == sub.exists /\ sub' = [sub EXCEPT !.active = active]

\* Time passes the end of the lease.
LeaseExpires ==
  sub.owner # NoOwner /\ ~sub.expired /\ sub' = [sub EXCEPT !.expired = TRUE]
=============================================================================
