---------------------- MODULE SubscriptionTableProofs ----------------------
(***************************************************************************)
(* What the proofs about subscriptions need to know of the log and of the  *)
(* queries: facts about the highest and the lowest of some ids, an         *)
(* invariant of the steps of writers, filters and batches.                 *)
(***************************************************************************)
EXTENDS SubscriptionTable, TLAPS, WellFoundedInduction, FiniteSetTheorems

\* A set of numbers that is not empty has a smallest one.
LEMMA LeastNumber ==
  ASSUME NEW S \in SUBSET Nat, S # {}
  PROVE  \E m \in S : \A n \in S : m <= n
<1>1. PICK m \in S : \A n \in S : ~(<<n, m>> \in OpToRel(<, Nat))
  BY NatLessThanWellFounded, WFMin
<1>2. ASSUME NEW n \in S PROVE m <= n
  <2>1. ~(n < m) BY <1>1 DEF OpToRel
  <2> QED BY <2>1
<1> QED BY <1>2

\* Highest gives the highest of some ids (lastID of a batch, MAX(id) of the table).
LEMMA HighestOf ==
  ASSUME NEW S \in SUBSET EventIds, S # {}
  PROVE  Highest(S) \in S /\ \A i \in S : i <= Highest(S)
<1>0. MaxEventId \in Nat BY EventLogAssumption DEF EventLogAssumption
<1> DEFINE T == {MaxEventId - i : i \in S}
<1>1. T \in SUBSET Nat /\ T # {}
  <2>1. \A i \in S : MaxEventId - i \in Nat BY <1>0 DEF EventIds
  <2> QED BY <2>1
<1>2. PICK m \in T : \A n \in T : m <= n BY <1>1, LeastNumber
<1>3. PICK i \in S : m = MaxEventId - i OBVIOUS
<1>4. ASSUME NEW j \in S PROVE i >= j
  <2>1. m <= MaxEventId - j BY <1>2
  <2> QED BY <1>0, <1>3, <2>1 DEF EventIds
<1>5. Max(S) \in S /\ \A j \in S : Max(S) >= j BY <1>4 DEF Max
<1>6. \A j \in S : j <= Max(S) BY <1>5 DEF EventIds
<1> QED BY <1>5, <1>6 DEF Highest

\* It is 0 for no ids.
LEMMA HighestType == ASSUME NEW S \in SUBSET EventIds PROVE Highest(S) \in 0 .. MaxEventId
<1>0. MaxEventId \in Nat BY EventLogAssumption DEF EventLogAssumption
<1>1. CASE S = {} BY <1>0, <1>1 DEF Highest
<1>2. CASE S # {}
  <2>1. Highest(S) \in EventIds BY <1>2, HighestOf
  <2>2. \A i \in EventIds : i \in 0 .. MaxEventId BY <1>0 DEF EventIds
  <2> QED BY <2>1, <2>2
<1> QED BY <1>1, <1>2

\* FirstIdFrom gives the lowest visible id from a time on, 0 if there is none
\* (GetFirstEventIdFromTimestamp).
LEMMA FirstIdFromIs ==
  ASSUME NEW t, visible \in SUBSET EventIds
  PROVE  LET since == {i \in visible : row[i].time >= t}
         IN /\ since = {} => FirstIdFrom(t) = 0
            /\ since # {} => /\ FirstIdFrom(t) \in since
                             /\ \A i \in since : FirstIdFrom(t) <= i
<1> DEFINE since == {i \in visible : row[i].time >= t}
<1>1. CASE since = {} BY <1>1 DEF FirstIdFrom
<1>2. CASE since # {}
  <2>1. since \in SUBSET Nat
    <3>1. \A i \in EventIds : i \in Nat BY EventLogAssumption DEF EventIds, EventLogAssumption
    <3> QED BY <3>1
  <2>2. PICK m \in since : \A n \in since : m <= n BY <1>2, <2>1, LeastNumber
  <2>3. Min(since) \in since /\ \A n \in since : Min(since) <= n BY <2>2 DEF Min
  <2>4. FirstIdFrom(t) = Min(since) BY <1>2 DEF FirstIdFrom
  <2> QED BY <1>2, <2>3, <2>4
<1> QED BY <1>1, <1>2

-----------------------------------------------------------------------------
(* An invariant of writers.                                                 *)

\* Rows that are committed or inserted are there, have been given out and belong
\* to one transaction.
LogRowsOK ==
  /\ \A i \in visible : row[i] \in Events /\ i <= lastId
  /\ \A x \in Writers : \A i \in inflight[x] : row[i] \in Events /\ i <= lastId /\ i \notin visible
  /\ \A x, y \in Writers : x # y => inflight[x] \cap inflight[y] = {}

\* With one writing transaction at a time, its ids are higher than all committed ones.
SerialOK ==
  SerialWriters =>
    /\ \A x, y \in Writers : x # y => inflight[x] = {} \/ inflight[y] = {}
    /\ \A x \in Writers : \A i \in inflight[x], j \in visible : j < i

LogInv == LogTypeOK /\ LogRowsOK /\ SerialOK

\* The empty log satisfies it.
LEMMA LogInitInv == LogInit => LogInv
<1>0. MaxEventId \in Nat BY EventLogAssumption DEF EventLogAssumption
<1> SUFFICES ASSUME LogInit PROVE LogInv OBVIOUS
<1>1. LogTypeOK BY <1>0 DEF LogInit, LogTypeOK
<1>2. LogRowsOK /\ SerialOK BY DEF LogInit, LogRowsOK, SerialOK
<1> QED BY <1>1, <1>2 DEF LogInv

\* A statement or commit of a writer, or a change of key, keeps it; what is
\* committed stays as it is.
LEMMA LogStep ==
  ASSUME LogInv, LogNext
  PROVE  LogInv' /\ visible \subseteq visible' /\ \A i \in visible : row'[i] = row[i]
<1>0. MaxEventId \in Nat BY EventLogAssumption DEF EventLogAssumption
<1>a. LogTypeOK /\ LogRowsOK /\ SerialOK BY DEF LogInv
<1>1. ASSUME NEW x \in Writers, Insert(x)
      PROVE  LogInv' /\ visible \subseteq visible' /\ \A i \in visible : row'[i] = row[i]
  <2>1. PICK e \in Events : row' = [row EXCEPT ![lastId + 1] = e] BY <1>1 DEF Insert
  <2>2. /\ lastId' = lastId + 1 /\ lastId + 1 \in EventIds
        /\ inflight' = [inflight EXCEPT ![x] = @ \cup {lastId + 1}]
        /\ UNCHANGED <<visible, keyOf>>
    BY <1>0, <1>1, <1>a DEF Insert, LogTypeOK, EventIds
  <2>3. LogTypeOK' BY <1>0, <1>a, <2>1, <2>2 DEF LogTypeOK, EventIds
  <2>4. \A i \in visible : i # lastId + 1 /\ row'[i] = row[i] /\ i <= lastId + 1 /\ i < lastId + 1
    BY <1>0, <1>a, <2>1 DEF LogTypeOK, LogRowsOK, EventIds
  <2>5. \A y \in Writers : \A i \in inflight[y] :
          i # lastId + 1 /\ row'[i] = row[i] /\ i <= lastId + 1
    BY <1>0, <1>a, <2>1 DEF LogTypeOK, LogRowsOK, EventIds
  <2>6. row'[lastId + 1] = e BY <1>a, <2>1, <2>2 DEF LogTypeOK
  <2>7. \A y \in Writers : inflight'[y] = IF y = x THEN inflight[x] \cup {lastId + 1} ELSE inflight[y]
    BY <1>a, <2>2 DEF LogTypeOK
  <2>8. lastId + 1 \in Nat /\ lastId \in Nat BY <1>a DEF LogTypeOK
  <2>9. LogRowsOK' BY <1>a, <2>2, <2>4, <2>5, <2>6, <2>7, <2>8 DEF LogRowsOK
  <2>10. SerialOK' BY <1>1, <1>a, <2>2, <2>4, <2>7 DEF SerialOK, Insert
  <2> QED BY <2>2, <2>3, <2>4, <2>9, <2>10 DEF LogInv
<1>2. ASSUME NEW x \in Writers, CommitEvents(x)
      PROVE  LogInv' /\ visible \subseteq visible' /\ \A i \in visible : row'[i] = row[i]
  <2>1. /\ visible' = visible \cup inflight[x]
        /\ inflight' = [inflight EXCEPT ![x] = {}]
        /\ UNCHANGED <<lastId, row, keyOf>>
    BY <1>2 DEF CommitEvents
  <2>2. LogTypeOK' BY <1>a, <2>1 DEF LogTypeOK
  <2>3. \A y \in Writers : inflight'[y] = IF y = x THEN {} ELSE inflight[y]
    BY <1>a, <2>1 DEF LogTypeOK
  <2>4. LogRowsOK' BY <1>a, <2>1, <2>3 DEF LogRowsOK
  <2>5. SerialOK' BY <1>2, <1>a, <2>1, <2>3 DEF SerialOK, CommitEvents
  <2> QED BY <2>1, <2>2, <2>4, <2>5 DEF LogInv
<1>3. ASSUME NEW x \in Writers, RollbackEvents(x)
      PROVE  LogInv' /\ visible \subseteq visible' /\ \A i \in visible : row'[i] = row[i]
  <2>1. /\ inflight' = [inflight EXCEPT ![x] = {}]
        /\ row' = [i \in EventIds |-> IF i \in inflight[x] THEN NoEvent ELSE row[i]]
        /\ lastId' = IF SerialWriters THEN MaxEvent ELSE lastId
        /\ UNCHANGED <<visible, keyOf>>
    BY <1>3 DEF RollbackEvents
  <2>2. visible \in SUBSET EventIds BY <1>a DEF LogTypeOK
  <2>3. lastId' \in 0 .. MaxEventId BY <1>a, <2>1, <2>2, HighestType DEF MaxEvent, LogTypeOK
  <2>4. LogTypeOK' BY <1>a, <2>1, <2>3 DEF LogTypeOK
  <2>5. \A y \in Writers : inflight'[y] = IF y = x THEN {} ELSE inflight[y]
    BY <1>a, <2>1 DEF LogTypeOK
  <2>6. \A i \in visible : row'[i] = row[i] BY <1>a, <2>1, <2>2 DEF LogRowsOK
  <2>7. \A y \in Writers : y # x => \A i \in inflight[y] : row'[i] = row[i]
    BY <1>a, <2>1 DEF LogRowsOK, LogTypeOK
  <2>8. \A i \in visible : i <= lastId'
    BY <1>a, <2>1, <2>2, HighestOf DEF MaxEvent, LogRowsOK
  <2>9. SerialWriters => \A y \in Writers : inflight'[y] = {}
    BY <1>3, <1>a, <2>5 DEF SerialOK, RollbackEvents
  <2>10. ~SerialWriters => lastId' = lastId BY <2>1
  <2>11. LogRowsOK' BY <1>a, <2>1, <2>5, <2>6, <2>7, <2>8, <2>9, <2>10 DEF LogRowsOK
  <2>12. SerialOK' BY <2>1, <2>9 DEF SerialOK
  <2> QED BY <2>1, <2>4, <2>6, <2>11, <2>12 DEF LogInv
<1>4. ASSUME NEW a \in LoggedAggregates, ChangeKey(a)
      PROVE  LogInv' /\ visible \subseteq visible' /\ \A i \in visible : row'[i] = row[i]
  <2>1. UNCHANGED <<lastId, inflight, visible, row>> BY <1>4 DEF ChangeKey
  <2>2. keyOf' \in [LoggedAggregates -> Keys \cup {NoKey}] BY <1>4, <1>a DEF ChangeKey, LogTypeOK
  <2>3. LogTypeOK' BY <1>a, <2>1, <2>2 DEF LogTypeOK
  <2>4. LogRowsOK' /\ SerialOK' BY <1>a, <2>1 DEF LogRowsOK, SerialOK
  <2> QED BY <2>1, <2>3, <2>4 DEF LogInv
<1> QED BY <1>1, <1>2, <1>3, <1>4 DEF LogNext

\* What is committed later has a higher id, if one transaction writes at a time.
LEMMA LogGrowsUp ==
  ASSUME LogInv, LogNext, SerialWriters
  PROVE  \A i \in visible' \ visible, j \in visible : j < i
<1>1. ASSUME NEW x \in Writers, Insert(x) \/ RollbackEvents(x) PROVE visible' = visible
  BY <1>1 DEF Insert, RollbackEvents
<1>2. ASSUME NEW x \in Writers, CommitEvents(x)
      PROVE  \A i \in visible' \ visible, j \in visible : j < i
  <2>1. visible' \ visible \subseteq inflight[x] BY <1>2 DEF CommitEvents
  <2> QED BY <2>1 DEF LogInv, SerialOK
<1>3. ASSUME NEW a \in LoggedAggregates, ChangeKey(a) PROVE visible' = visible
  BY <1>3 DEF ChangeKey
<1> QED BY <1>1, <1>2, <1>3 DEF LogNext

-----------------------------------------------------------------------------
(* Filters and batches.                                                     *)

\* One event type is in the column, several are in the join table, none is nowhere.
LEMMA WhereTypesAre ==
  ASSUME NEW c \in Calls
  PROVE  LET types == c.filter.types
         IN \/ types = {} /\ TypeColumn(types) = NoType /\ JoinTypes(types) = {}
            \/ /\ JoinTypes(types) = {} /\ TypeColumn(types) # NoType
               /\ types = {TypeColumn(types)}
            \/ types # {} /\ TypeColumn(types) = NoType /\ JoinTypes(types) = types
<1> DEFINE types == c.filter.types
<1>1. IsFiniteSet(types) /\ types \in SUBSET TypesOfEvents /\ NoType \notin TypesOfEvents
  BY SubscriptionTableAssumption DEF SubscriptionTableAssumption, Filter
<1>2. CASE types = {}
  <2>1. Cardinality(types) = 0 BY <1>2, FS_EmptySet
  <2> QED BY <1>2, <2>1 DEF TypeColumn, JoinTypes
<1>3. CASE \E t : types = {t}
  <2>1. PICK t : types = {t} BY <1>3
  <2>2. Cardinality(types) = 1 BY <2>1, FS_Singleton
  <2>3. TypeColumn(types) = t /\ JoinTypes(types) = {} BY <2>1, <2>2 DEF TypeColumn, JoinTypes
  <2> QED BY <1>1, <2>1, <2>3
<1>4. CASE types # {} /\ ~\E t : types = {t}
  <2>1. Cardinality(types) \in Nat /\ Cardinality(types) # 0 /\ Cardinality(types) # 1
    BY <1>1, <1>4, FS_CardinalityType, FS_EmptySet, FS_Singleton
  <2>2. JoinTypes(types) = types /\ TypeColumn(types) = NoType BY <2>1 DEF JoinTypes, TypeColumn
  <2> QED BY <1>4, <2>2
<1> QED BY <1>2, <1>3, <1>4

\* The columns and the join table select what the filter means.
LEMMA SelectsWanted ==
  ASSUME NEW c \in Calls, NEW i
  PROVE  Selects(Columns(c.filter), JoinTypes(c.filter.types), i) <=> Wanted(c.filter, i)
<1>1. /\ Columns(c.filter).aggType = c.filter.aggType /\ Columns(c.filter).key = c.filter.key
      /\ Columns(c.filter).type = TypeColumn(c.filter.types)
  BY DEF Columns
<1> QED BY <1>1, WhereTypesAre DEF Selects, Wanted

\* GetEventsForSubscription leaves out no event before the last one of its batch, and is
\* not empty if there is one.
LEMMA EventsForIs ==
  ASSUME visible \in SUBSET EventIds, NEW cursor, NEW columns, NEW types
  PROVE  LET later == {i \in visible : i > cursor /\ Selects(columns, types, i)}
             batch == EventsFor(cursor, columns, types)
         IN /\ batch \in SUBSET later
            /\ batch # {} => /\ Highest(batch) \in batch /\ Highest(batch) \in later
                             /\ \A i \in later : i <= Highest(batch) => i \in batch
<1> DEFINE later == {i \in visible : i > cursor /\ Selects(columns, types, i)}
           batch == EventsFor(cursor, columns, types)
           h == Highest(batch)
<1>0. MaxEventId \in Nat /\ \A i \in EventIds : i \in Nat
  BY EventLogAssumption DEF EventLogAssumption, EventIds
<1>1. /\ batch = {i \in later : Cardinality({j \in later : j < i}) < BatchSize}
      /\ batch \in SUBSET later /\ batch \in SUBSET EventIds
  BY DEF EventsFor
<1> SUFFICES ASSUME batch # {}
             PROVE  h \in batch /\ \A i \in later : i <= h => i \in batch
  BY <1>1
<1>2. h \in batch /\ h \in EventIds BY <1>1, HighestOf
<1>3. ASSUME NEW i \in later, i <= h PROVE i \in batch
  <2> DEFINE A == {j \in later : j < i}
             B == {j \in later : j < h}
  <2>1. CASE i = h BY <1>2, <2>1
  <2>2. CASE i < h
    <3>1. A \in SUBSET B
      <4>1. ASSUME NEW j \in A PROVE j \in B
        <5>1. j \in Nat /\ i \in Nat /\ h \in Nat /\ j < i BY <1>0, <1>2
        <5> QED BY <2>2, <5>1
      <4> QED BY <4>1
    <3>2. IsFiniteSet(B)
      <4>1. IsFiniteSet(EventIds) BY <1>0, FS_Interval DEF EventIds
      <4> QED BY <4>1, FS_Subset
    <3>3. IsFiniteSet(A) /\ Cardinality(A) <= Cardinality(B) BY <3>1, <3>2, FS_Subset
    <3>4. Cardinality(A) \in Nat /\ Cardinality(B) \in Nat BY <3>2, <3>3, FS_CardinalityType
    <3>5. Cardinality(B) < BatchSize BY <1>1, <1>2
    <3>6. Cardinality(A) < BatchSize
      BY <3>3, <3>4, <3>5, SubscriptionTableAssumption DEF SubscriptionTableAssumption
    <3> QED BY <1>1, <3>6
  <2>3. i \in Nat /\ h \in Nat BY <1>0, <1>2
  <2> QED BY <1>3, <2>1, <2>2, <2>3
<1> QED BY <1>2, <1>3
=============================================================================
