------------------------ MODULE MemorySubscriptions ------------------------
(***************************************************************************)
(* The subscriptions of the memory engine, as base/memory.go keeps them:   *)
(* two maps that lead to the same Subscription values, a map of sets for   *)
(* the event types, the slice of captured events, and a clock.  Each       *)
(* method is one step.  The module shows that every subscription behaves   *)
(* as a row of SubscriptionTable does, so that what DurableSubscription    *)
(* says of RunSubscription holds over this engine too.                     *)
(***************************************************************************)
EXTENDS Integers, Sequences, SequencesExt, FiniteSets, FiniteSetsExt

CONSTANTS
  Names,    \* names of subscriptions
  Calls,    \* arguments of RunSubscription: records [owner, filter, start]
  Leases,   \* durations of leases
  Events,   \* what is captured: records [agg, type, time]
  TypeOf,   \* AggregateToTypeId
  AggregateKeys,  \* natural keys of aggregates
  Nil,      \* a nil pointer
  Limit,    \* the limit of a query
  MaxEventId, MaxTime  \* bounds: captured events, clock

ASSUME MemorySubscriptionsAssumption ==
  /\ Leases \subseteq Nat
  /\ Limit \in Nat \ {0}
  /\ MaxEventId \in Nat /\ MaxTime \in Nat
  /\ \A c \in Calls : c.owner # Nil

VARIABLES
  Subscriptions,           \* name -> id of the value it leads to, 0 if none
  SubscriptionByID,        \* id -> the value; a sequence, ids are its indices
  SubscriptionEventTypes,  \* id -> set of event types, a sequence too
  CapturedEvents,          \* the events written so far, in order
  AggregateInv,            \* aggregate -> its natural key
  now                      \* time.Now()

memoryVars == <<Subscriptions, SubscriptionByID, SubscriptionEventTypes>>
subscriptionVars == <<memoryVars, CapturedEvents, AggregateInv, now>>

Aggregates == DOMAIN TypeOf
EventTypes == {e.type : e \in Events}

\* Aggregates are created with keys that nobody has, or without key.
KeysGiven ==
  {f \in [Aggregates -> AggregateKeys \cup {Nil}] :
     \A a, b \in Aggregates : f[a] = f[b] => a = b \/ f[a] = Nil}

SubscriptionsInit ==
  /\ Subscriptions = [n \in Names |-> 0]
  /\ SubscriptionByID = <<>>
  /\ SubscriptionEventTypes = <<>>
  /\ CapturedEvents = <<>>
  /\ AggregateInv \in KeysGiven
  /\ now = 0

Exists(n) == Subscriptions[n] # 0
At(n) == SubscriptionByID[Subscriptions[n]]

\* Assigns to the value that name n leads to; SubscriptionByID leads there too.
Update(n, s) ==
  /\ SubscriptionByID' = [SubscriptionByID EXCEPT ![Subscriptions[n]] = s]
  /\ UNCHANGED <<Subscriptions, SubscriptionEventTypes, CapturedEvents, AggregateInv, now>>

TypePointer(types) == IF Cardinality(types) = 1 THEN CHOOSE t \in types : TRUE ELSE Nil

\* A new value takes the next id.
NewSubscription(n, c) ==
  /\ Subscriptions' = [Subscriptions EXCEPT ![n] = Len(SubscriptionByID) + 1]
  /\ SubscriptionByID' = Append(SubscriptionByID,
       [aggType |-> c.filter.aggType, key |-> c.filter.key,
        type |-> TypePointer(c.filter.types), start |-> c.start,
        LastEventID |-> 0, Active |-> TRUE, LeaseOwner |-> Nil, LeaseExpiresAt |-> 0])
  /\ SubscriptionEventTypes' = Append(SubscriptionEventTypes, {})
  /\ UNCHANGED <<CapturedEvents, AggregateInv, now>>

\* An old value takes the caller's filter and start.
UpsertSubscription(n, c) ==
  \/ ~Exists(n) /\ NewSubscription(n, c)
  \/ /\ Exists(n)
     /\ Update(n, [At(n) EXCEPT !.aggType = c.filter.aggType, !.key = c.filter.key,
                                !.type = TypePointer(c.filter.types), !.start = c.start])

\* The id is one that an upsert gave: RunSubscription has no other.
AddSubscriptionEventType(n, t) ==
  /\ Exists(n)
  /\ SubscriptionEventTypes' =
       [SubscriptionEventTypes EXCEPT ![Subscriptions[n]] = @ \cup {t}]
  /\ UNCHANGED <<Subscriptions, SubscriptionByID, CapturedEvents, AggregateInv, now>>

SetSubscriptionActive(n, active) ==
  Exists(n) /\ Update(n, [At(n) EXCEPT !.Active = active])

\* LeaseExpiresAt.Before(now).
Ended(s) == s.LeaseExpiresAt < now

ClaimSubscription(n, o, lease) ==
  /\ Exists(n) /\ At(n).Active
  /\ At(n).LeaseOwner = Nil \/ Ended(At(n))
  /\ Update(n, [At(n) EXCEPT !.LeaseOwner = o, !.LeaseExpiresAt = now + lease])

\* The mutant does not look at the owner.
RenewAnyones(n, o, lease) ==
  /\ Exists(n) /\ At(n).Active
  /\ Update(n, [At(n) EXCEPT !.LeaseExpiresAt = now + lease])
RenewSubscription(n, o, lease) ==
  /\ Exists(n) /\ At(n).Active /\ At(n).LeaseOwner = o
  /\ Update(n, [At(n) EXCEPT !.LeaseExpiresAt = now + lease])

ReleaseSubscription(n, o) ==
  /\ Exists(n) /\ At(n).LeaseOwner = o
  /\ Update(n, [At(n) EXCEPT !.LeaseOwner = Nil, !.LeaseExpiresAt = 0])

AdvanceSubscriptionCursor(n, i) ==
  Exists(n) /\ Update(n, [At(n) EXCEPT !.LastEventID = i])

\* WriteState, by contexts.
CaptureEvent ==
  /\ Len(CapturedEvents) < MaxEventId
  /\ \E e \in Events : CapturedEvents' = Append(CapturedEvents, e)
  /\ UNCHANGED <<memoryVars, AggregateInv, now>>

\* ChangeAggregateNaturalKey, by contexts: it panics for an aggregate without key, and
\* gives a key that another aggregate has.
ChangeKey(a, k) ==
  /\ AggregateInv[a] # Nil
  /\ AggregateInv' = [AggregateInv EXCEPT ![a] = k]
  /\ UNCHANGED <<memoryVars, CapturedEvents, now>>

Tick ==
  /\ now < MaxTime
  /\ now' = now + 1
  /\ UNCHANGED <<memoryVars, CapturedEvents, AggregateInv>>

Statement(n) ==
  \/ \E c \in Calls :
       \/ UpsertSubscription(n, c)
       \/ ReleaseSubscription(n, c.owner)
       \/ \E lease \in Leases :
            ClaimSubscription(n, c.owner, lease) \/ RenewSubscription(n, c.owner, lease)
  \/ \E t \in EventTypes : AddSubscriptionEventType(n, t)
  \/ \E active \in BOOLEAN : SetSubscriptionActive(n, active)
  \/ \E i \in 0 .. Len(CapturedEvents) : AdvanceSubscriptionCursor(n, i)

SubscriptionsNext ==
  \/ \E n \in Names : Statement(n)
  \/ CaptureEvent
  \/ \E a \in Aggregates, k \in AggregateKeys : ChangeKey(a, k)
  \/ Tick

SubscriptionsSpec == SubscriptionsInit /\ [][SubscriptionsNext]_subscriptionVars

-----------------------------------------------------------------------------
(* The query.                                                               *)

\* The tests of the loop in GetEventsForSubscription that continue.
Skipped(s, types, i) ==
  LET e == CapturedEvents[i]
  IN \/ i <= s.LastEventID
     \/ s.aggType # Nil /\ TypeOf[e.agg] # s.aggType
     \/ s.key # Nil /\ (AggregateInv[e.agg] = Nil \/ AggregateInv[e.agg] # s.key)
     \/ types # {} /\ e.type \notin types
     \/ types = {} /\ s.type # Nil /\ e.type # s.type

\* The results after the loop has seen the first i events; it breaks when they
\* are Limit.  The mutant looks at the limit before it appends.
ResultsPastLimit(s, types) ==
  LET after[i \in 0 .. Len(CapturedEvents)] ==
        IF i = 0 THEN <<>>
        ELSE IF Len(after[i - 1]) > Limit \/ Skipped(s, types, i) THEN after[i - 1]
        ELSE Append(after[i - 1], i)
  IN after[Len(CapturedEvents)]
GetEventsForSubscription(s, types) ==
  LET after[i \in 0 .. Len(CapturedEvents)] ==
        IF i = 0 THEN <<>>
        ELSE IF Len(after[i - 1]) >= Limit \/ Skipped(s, types, i) THEN after[i - 1]
        ELSE Append(after[i - 1], i)
  IN after[Len(CapturedEvents)]

\* The first index from time t on, by the loop of GetFirstEventIdFromTimestamp.
GetFirstEventIdFromTimestamp(t) ==
  SelectInSeq(CapturedEvents, LAMBDA e : e.time >= t)

-----------------------------------------------------------------------------
(* The refinement: subscription n as a row of the tables.                   *)

PositionsOf == 1 .. Len(CapturedEvents)

RowOf(n) ==
  IF ~Exists(n)
    THEN [exists |-> FALSE, cursor |-> 0, active |-> TRUE, owner |-> Nil, expired |-> FALSE,
          columns |-> [aggType |-> Nil, key |-> Nil, type |-> Nil],
          start |-> [kind |-> "beginning", id |-> 0, time |-> 0], types |-> {}]
    ELSE LET s == At(n)
         IN [exists |-> TRUE, cursor |-> s.LastEventID, active |-> s.Active,
             owner |-> s.LeaseOwner, expired |-> s.LeaseOwner # Nil /\ Ended(s),
             columns |-> [aggType |-> s.aggType, key |-> s.key, type |-> s.type],
             start |-> s.start, types |-> SubscriptionEventTypes[Subscriptions[n]]]

Table(n) == INSTANCE SubscriptionTable WITH
  Writers <- {}, SerialWriters <- TRUE, NoEvent <- Nil, NoKey <- Nil, NoOwner <- Nil,
  NoType <- Nil, Keys <- AggregateKeys, BatchSize <- Limit,
  lastId <- Len(CapturedEvents), inflight <- <<>>, visible <- PositionsOf,
  row <- CapturedEvents, keyOf <- AggregateInv, sub <- RowOf(n)

\* What a step may do to the row of n: a method what the statement of the same
\* name does, the clock at most an end of the lease, a method for another name and
\* anything else nothing.
Matches(n) ==
  /\ \A c \in Calls :
       /\ UpsertSubscription(n, c) => Table(n)!UpsertSubscription(c)
       /\ ReleaseSubscription(n, c.owner) => Table(n)!ReleaseSubscription(c.owner)
       /\ \A lease \in Leases :
            /\ ClaimSubscription(n, c.owner, lease) => Table(n)!ClaimSubscription(c.owner)
            /\ RenewSubscription(n, c.owner, lease) => Table(n)!RenewSubscription(c.owner)
  /\ \A t \in EventTypes :
       AddSubscriptionEventType(n, t) => Table(n)!AddSubscriptionEventType(t)
  /\ \A active \in BOOLEAN :
       SetSubscriptionActive(n, active) => Table(n)!SetSubscriptionActive(active)
  /\ \A i \in 0 .. Len(CapturedEvents) :
       AdvanceSubscriptionCursor(n, i) => Table(n)!AdvanceSubscriptionCursor(i)
  /\ Tick => UNCHANGED RowOf(n) \/ Table(n)!LeaseExpires
  /\ \A m \in Names \ {n} : Statement(m) => UNCHANGED RowOf(n)
  /\ UNCHANGED memoryVars /\ ~Tick => UNCHANGED RowOf(n)

\* Each method of the memory engine, in-place assignments through two maps and a
\* clock, does to a subscription what the SQL statement of the same name does to
\* its row (base/storage.go: one interface for all engines).
ImplementsTable ==
  /\ \A n \in Names : Table(n)!TableInit
  /\ [][\A n \in Names : Matches(n)]_subscriptionVars

\* The loops over CapturedEvents find what the SQL queries find, in the order of ids,
\* the join table before the column and the key of an aggregate as it is now (memory.go
\* GetEventsForSubscription and GetFirstEventIdFromTimestamp).
QueriesAgree ==
  /\ \A n \in Names : Exists(n) =>
       LET r == RowOf(n)
           found == GetEventsForSubscription(At(n), r.types)
       IN /\ ToSet(found) = Table(n)!EventsFor(r.cursor, r.columns, r.types)
          /\ IsSorted(found, <)
  /\ \A n \in Names, t \in 0 .. MaxTime + 1 :
       GetFirstEventIdFromTimestamp(t) = Table(n)!FirstIdFrom(t)
=============================================================================
