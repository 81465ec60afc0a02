-------------------- MODULE EphemeralSubscriptionProofs ---------------------
(***************************************************************************)
(* What RunEphemeralSubscription promises, for any number of events,       *)
(* writers and runs: types, order and the events it delivers.              *)
(***************************************************************************)
EXTENDS EphemeralSubscription, SubscriptionTableProofs

-----------------------------------------------------------------------------
(* The invariants.                                                          *)

TypeInv ==
  /\ LogInv
  /\ pc \in {"out", "start", "poll", "handle"}
  /\ call \in Calls
  /\ lastID \in 0 .. MaxEventId /\ startedAt \in 0 .. MaxEventId
  /\ deliver \in SUBSET visible
  /\ delivered \in Seq(visible)
  /\ rekeyed \in BOOLEAN /\ runs \in 0 .. MaxRuns

\* What was delivered is in order and before what is to be delivered, and the position
\* is not before either.
PositionInv ==
  /\ InOrder
  /\ \A n \in DOMAIN delivered : delivered[n] <= lastID /\ \A i \in deliver : delivered[n] < i
  /\ \A i \in deliver : i <= lastID
  /\ pc # "handle" => deliver = {}
  /\ pc = "start" => delivered = <<>> /\ lastID = 0 /\ startedAt = 0
  /\ startedAt <= lastID

\* The position has not passed what is committed later, unless it is the start.
ReachedInv ==
  pc # "out" => lastID = startedAt \/ \E i \in visible : lastID <= i
-----------------------------------------------------------------------------
(* Batches in order.                                                        *)

\* An enumeration of ids in their order.
Sorted(ids, s) ==
  /\ s \in [1 .. Cardinality(ids) -> ids]
  /\ \A i, j \in DOMAIN s : i < j => s[i] < s[j]

\* Every set of ids has one: otherwise, one of the smallest sets without it would have
\* one after all, that of the set without its highest id followed by this id.
LEMMA SortedExists == ASSUME NEW ids \in SUBSET EventIds PROVE \E s : Sorted(ids, s)
<1> DEFINE Bad == {n \in Nat : \E T \in SUBSET EventIds : Cardinality(T) = n /\ ~\E s : Sorted(T, s)}
<1>0. MaxEventId \in Nat /\ \A i \in EventIds : i \in Nat
  BY EventLogAssumption DEF EventLogAssumption, EventIds
<1>1. \A T \in SUBSET EventIds : IsFiniteSet(T) /\ Cardinality(T) \in Nat
  <2>1. IsFiniteSet(EventIds) BY <1>0, FS_Interval DEF EventIds
  <2> QED BY <2>1, FS_Subset, FS_CardinalityType
<1>2. SUFFICES ASSUME Bad # {} PROVE FALSE BY <1>1
<1>3. PICK n \in Bad : \A m \in Bad : n <= m
  <2>1. Bad \in SUBSET Nat OBVIOUS
  <2> HIDE DEF Bad
  <2> QED BY <1>2, <2>1, LeastNumber
<1>4. PICK T \in SUBSET EventIds : Cardinality(T) = n /\ ~\E s : Sorted(T, s) BY <1>3
<1>5. n \in Nat OBVIOUS
<1>6. CASE T = {}
  <2>1. Cardinality(T) = 0 BY <1>6, FS_EmptySet
  <2>2. Sorted(T, [i \in 1 .. 0 |-> 0]) BY <2>1, <1>6 DEF Sorted
  <2> QED BY <1>4, <2>2
<1>7. CASE T # {}
  <2> DEFINE top == Highest(T)
             R == T \ {top}
  <2>1. top \in T /\ \A i \in T : i <= top BY <1>7, HighestOf
  <2>2. Cardinality(R) = n - 1 BY <1>1, <1>4, <2>1, FS_RemoveElement
  <2>3. R \in SUBSET EventIds OBVIOUS
  <2>4. n - 1 \in Nat BY <1>1, <2>2, <2>3
  <2>5. n - 1 \notin Bad
    <3>1. ~(n <= n - 1) BY <1>5
    <3> HIDE DEF Bad
    <3> QED BY <1>3, <3>1
  <2>6. PICK s : Sorted(R, s) BY <2>2, <2>3, <2>4, <2>5
  <2> DEFINE t == [i \in 1 .. n |-> IF i = n THEN top ELSE s[i]]
  <2>7. s \in [1 .. n - 1 -> R] /\ \A i, j \in 1 .. n - 1 : i < j => s[i] < s[j]
    BY <2>2, <2>6 DEF Sorted
  <2>8. \A i \in 1 .. n : i # n => i \in 1 .. n - 1 BY <1>5, <2>4
  <2>9. \A i \in 1 .. n - 1 : s[i] \in T /\ s[i] < top
    <3>1. \A x \in R : x \in T /\ x < top
      <4>1. ASSUME NEW x \in R PROVE x \in T /\ x < top
        <5>1. x \in T /\ x # top /\ x <= top BY <2>1
        <5>2. x \in Nat /\ top \in Nat BY <1>0, <2>1, <5>1
        <5> QED BY <5>1, <5>2
      <4> QED BY <4>1
    <3> HIDE DEF R
    <3> QED BY <2>7, <3>1
  <2>10. t \in [1 .. n -> T] BY <2>1, <2>8, <2>9
  <2>11. ASSUME NEW i \in 1 .. n, NEW j \in 1 .. n, i < j PROVE t[i] < t[j]
    <3>1. i # n /\ i \in 1 .. n - 1 BY <1>5, <2>11
    <3>2. CASE j = n BY <2>9, <3>1, <3>2
    <3>3. CASE j # n BY <2>7, <2>8, <2>11, <3>1, <3>3
    <3> QED BY <3>2, <3>3
  <2>12. Sorted(T, t) BY <1>4, <2>10, <2>11 DEF Sorted
  <2> QED BY <1>4, <2>12
<1> QED BY <1>6, <1>7

\* InIdOrder enumerates a batch in the order of its ids and leaves none out.
LEMMA InIdOrderIs ==
  ASSUME NEW ids \in SUBSET EventIds
  PROVE  /\ InIdOrder(ids) \in Seq(ids)
         /\ \A i, j \in DOMAIN InIdOrder(ids) : i < j => InIdOrder(ids)[i] < InIdOrder(ids)[j]
         /\ ToSet(InIdOrder(ids)) = ids
<1> DEFINE n == Cardinality(ids)
           q == InIdOrder(ids)
<1>0. MaxEventId \in Nat /\ \A i \in EventIds : i \in Nat
  BY EventLogAssumption DEF EventLogAssumption, EventIds
<1>1. IsFiniteSet(ids) /\ n \in Nat
  <2>1. IsFiniteSet(EventIds) BY <1>0, FS_Interval DEF EventIds
  <2> QED BY <2>1, FS_Subset, FS_CardinalityType
<1>2. q \in [1 .. n -> ids] /\ \A i, j \in DOMAIN q : i < j => q[i] < q[j]
  <2>1. \E s \in [1 .. n -> ids] : \A i, j \in DOMAIN s : i < j => s[i] < s[j]
    BY SortedExists DEF Sorted
  <2> QED BY <2>1 DEF InIdOrder
<1> HIDE DEF q
<1>3. q \in Injection(1 .. n, ids)
  <2>1. ASSUME NEW i \in 1 .. n, NEW j \in 1 .. n, q[i] = q[j] PROVE i = j
    <3>1. q[i] \in Nat BY <1>0, <1>2
    <3>2. ~(q[i] < q[j]) /\ ~(q[j] < q[i]) BY <2>1, <3>1
    <3>3. ~(i < j) /\ ~(j < i) BY <1>2, <3>2
    <3> QED BY <1>1, <3>3
  <2> QED BY <1>2, <2>1 DEF Injection, IsInjective
<1>4. Cardinality(1 .. n) = n BY <1>1, FS_Interval
<1>5. q \in Surjection(1 .. n, ids) BY <1>1, <1>3, <1>4, FS_Injection
<1>6. ToSet(q) = ids
  <2>1. DOMAIN q = 1 .. n /\ \A i \in 1 .. n : q[i] \in ids BY <1>2
  <2>2. \A x \in ids : \E i \in 1 .. n : q[i] = x BY <1>5 DEF Surjection
  <2> HIDE DEF n
  <2> QED BY <2>1, <2>2 DEF ToSet
<1>7. q \in Seq(ids) BY <1>1, <1>2
<1> QED BY <1>2, <1>6, <1>7 DEF q

\* The lists of handled events that Handle joins.
LEMMA Joined ==
  ASSUME NEW S, NEW a \in Seq(S), NEW b \in Seq(S)
  PROVE  /\ a \o b \in Seq(S) /\ ToSet(a \o b) = ToSet(a) \cup ToSet(b)
         /\ DOMAIN (a \o b) = 1 .. Len(a) + Len(b)
         /\ \A n \in 1 .. Len(a) + Len(b) :
              \/ n \in DOMAIN a /\ (a \o b)[n] = a[n]
              \/ /\ n \notin DOMAIN a /\ n - Len(a) \in DOMAIN b
                 /\ (a \o b)[n] = b[n - Len(a)]
<1>1. /\ a \o b \in Seq(S) /\ Len(a \o b) = Len(a) + Len(b)
      /\ Len(a) \in Nat /\ Len(b) \in Nat /\ DOMAIN a = 1 .. Len(a) /\ DOMAIN b = 1 .. Len(b)
  OBVIOUS
<1>2. DOMAIN (a \o b) = 1 .. Len(a) + Len(b) BY <1>1
<1>3. \A n \in 1 .. Len(a) + Len(b) :
        \/ n \in DOMAIN a /\ (a \o b)[n] = a[n]
        \/ /\ n \notin DOMAIN a /\ n - Len(a) \in DOMAIN b
           /\ (a \o b)[n] = b[n - Len(a)]
  BY <1>1
<1>4. \A n \in DOMAIN a : n \in DOMAIN (a \o b) /\ (a \o b)[n] = a[n] BY <1>1, <1>2
<1>5. \A n \in DOMAIN b : Len(a) + n \in DOMAIN (a \o b) /\ (a \o b)[Len(a) + n] = b[n]
  BY <1>1, <1>2
<1>6. ToSet(a \o b) = ToSet(a) \cup ToSet(b)
  <2> DEFINE c == a \o b
  <2>1. \A n \in DOMAIN c : (\E i \in DOMAIN a : c[n] = a[i]) \/ (\E i \in DOMAIN b : c[n] = b[i])
    BY <1>2, <1>3
  <2>2. \A n \in DOMAIN a : \E i \in DOMAIN c : c[i] = a[n] BY <1>4
  <2>3. \A n \in DOMAIN b : \E i \in DOMAIN c : c[i] = b[n] BY <1>5
  <2> HIDE DEF c
  <2>4. /\ ToSet(c) = {c[i] : i \in DOMAIN c} /\ ToSet(a) = {a[i] : i \in DOMAIN a}
        /\ ToSet(b) = {b[i] : i \in DOMAIN b}
    BY DEF ToSet
  <2>5. ToSet(c) \subseteq ToSet(a) \cup ToSet(b) BY <2>1, <2>4
  <2>6. ToSet(a) \subseteq ToSet(c) BY <2>2, <2>4
  <2>7. ToSet(b) \subseteq ToSet(c) BY <2>3, <2>4
  <2>8. ToSet(c) = ToSet(a) \cup ToSet(b) BY <2>5, <2>6, <2>7
  <2> QED BY <2>8 DEF c
<1> QED BY <1>1, <1>2, <1>3, <1>6
-----------------------------------------------------------------------------
(* Types.                                                                   *)

\* A call starts at an id of the table, before it or right at the end.
LEMMA StartTypes ==
  ASSUME TypeInv
  PROVE  StartAt(call.start) \in 0 .. MaxEventId
<1>0. MaxEventId \in Nat BY EventLogAssumption DEF EventLogAssumption
<1>1. call.start \in StartFrom
  BY SubscriptionTableAssumption DEF SubscriptionTableAssumption, TypeInv
<1>2. visible \in SUBSET EventIds BY DEF TypeInv, LogInv, LogTypeOK
<1>3. MaxEvent \in 0 .. MaxEventId BY <1>2, HighestType DEF MaxEvent
<1>4. FirstIdFrom(call.start.time) # 0 => FirstIdFrom(call.start.time) - 1 \in 0 .. MaxEventId
  <2>1. FirstIdFrom(call.start.time) # 0 => FirstIdFrom(call.start.time) \in EventIds
    BY <1>2, FirstIdFromIs
  <2> QED BY <1>0, <2>1 DEF EventIds
<1> QED BY <1>0, <1>1, <1>3, <1>4 DEF StartAt, StartFrom, StartKinds

\* A batch holds events after the position, and ends with one of them.
LEMMA DueIs ==
  ASSUME TypeInv, Due # {}
  PROVE  LET later == {i \in visible : i > lastID /\ Selects(Columns(call.filter), {}, i)}
         IN /\ Due \in SUBSET later /\ LastOf(Due) \in later
            /\ \A i \in Due : i <= LastOf(Due)
            /\ \A i \in later : i <= LastOf(Due) => i \in Due
<1>1. visible \in SUBSET EventIds BY DEF TypeInv, LogInv, LogTypeOK
<1>2. Due \in SUBSET {i \in visible : i > lastID /\ Selects(Columns(call.filter), {}, i)}
  BY <1>1, EventsForIs DEF Due
<1>3. Due \in SUBSET EventIds BY <1>1, <1>2
<1>4. \A i \in Due : i <= LastOf(Due) BY <1>3, HighestOf DEF LastOf
<1> QED BY <1>1, <1>2, <1>4, EventsForIs DEF Due, LastOf

\* The reader has not run.
LEMMA InitInv == Init => TypeInv /\ PositionInv /\ ReachedInv
<1> SUFFICES ASSUME Init PROVE TypeInv /\ PositionInv /\ ReachedInv OBVIOUS
<1>0. MaxEventId \in Nat /\ MaxRuns \in Nat
  BY EventLogAssumption, EphemeralSubscriptionAssumption
     DEF EventLogAssumption, EphemeralSubscriptionAssumption
<1>1. TypeInv
  <2>1. LogInv BY LogInitInv DEF Init
  <2>2. /\ pc = "out" /\ call \in Calls /\ lastID = 0 /\ startedAt = 0
        /\ deliver = {} /\ delivered = <<>> /\ rekeyed = FALSE /\ runs = 0
    BY DEF Init
  <2>3. 0 \in 0 .. MaxEventId /\ 0 \in 0 .. MaxRuns /\ <<>> \in Seq(visible) BY <1>0
  <2> QED BY <2>1, <2>2, <2>3 DEF TypeInv
<1>2. PositionInv BY DEF Init, PositionInv, InOrder
<1>3. ReachedInv BY DEF Init, ReachedInv
<1> QED BY <1>1, <1>2, <1>3

\* What a step of a writer, or none, does to the log.
LEMMA LogKept ==
  ASSUME LogInv, LogNext \/ UNCHANGED logVars
  PROVE  LogInv' /\ visible \subseteq visible' /\ \A i \in visible : row'[i] = row[i]
<1>1. CASE LogNext BY <1>1, LogStep
<1>2. CASE UNCHANGED logVars
  <2>1. UNCHANGED <<lastId, inflight, visible, row, keyOf>> BY <1>2 DEF logVars
  <2> QED BY <2>1 DEF LogInv, LogTypeOK, LogRowsOK, SerialOK
<1> QED BY <1>1, <1>2

\* Every step.
LEMMA NextTypes == TypeInv /\ [Next]_vars => TypeInv'
<1> SUFFICES ASSUME TypeInv, [Next]_vars PROVE TypeInv' OBVIOUS
<1>0. MaxEventId \in Nat /\ MaxRuns \in Nat
  BY EventLogAssumption, EphemeralSubscriptionAssumption
     DEF EventLogAssumption, EphemeralSubscriptionAssumption
<1>1. LogInv' /\ visible \subseteq visible'
  <2>1. LogNext \/ UNCHANGED logVars
    BY DEF Next, Call, Start, Poll, Handle, Leave, Writing, vars
  <2> QED BY <2>1, LogKept DEF TypeInv
<1>2. deliver \in SUBSET visible' /\ delivered \in Seq(visible')
  <2>1. deliver \in SUBSET visible /\ delivered \in Seq(visible) BY DEF TypeInv
  <2>2. delivered \in Seq(visible')
    <3>1. Len(delivered) \in Nat /\ delivered \in [1 .. Len(delivered) -> visible] BY <2>1
    <3>2. delivered \in [1 .. Len(delivered) -> visible'] BY <1>1, <3>1
    <3> QED BY <3>1, <3>2
  <2> QED BY <1>1, <2>1, <2>2
<1>3. CASE Call
  <2>1. /\ pc' = "start" /\ call' \in Calls /\ lastID' = 0 /\ startedAt' = 0
        /\ delivered' = <<>> /\ rekeyed' = FALSE /\ runs < MaxRuns /\ runs' = runs + 1
        /\ deliver' = deliver
    BY <1>3 DEF Call
  <2>2. 0 \in 0 .. MaxEventId /\ <<>> \in Seq(visible') BY <1>0
  <2>3. runs' \in 0 .. MaxRuns
    <3>1. runs \in 0 .. MaxRuns BY DEF TypeInv
    <3> QED BY <1>0, <2>1, <3>1
  <2>4. rekeyed' \in BOOLEAN /\ pc' \in {"out", "start", "poll", "handle"} BY <2>1
  <2> QED BY <1>1, <1>2, <2>1, <2>2, <2>3, <2>4 DEF TypeInv
<1>4. CASE Start BY <1>1, <1>2, <1>4, StartTypes DEF Start, TypeInv
<1>5. CASE Poll
  <2>1. LastOf(Due) \in visible /\ Due \in SUBSET visible BY <1>5, DueIs DEF Poll
  <2>2. Relevant(Due) \in SUBSET visible BY <2>1 DEF Relevant
  <2>3. lastID' \in 0 .. MaxEventId
    <3>1. LastOf(Due) \in EventIds BY <2>1 DEF TypeInv, LogInv, LogTypeOK
    <3> QED BY <1>0, <1>5, <3>1 DEF Poll, EventIds
  <2> QED BY <1>1, <1>2, <1>5, <2>2, <2>3 DEF Poll, TypeInv, logVars
<1>6. CASE Handle
  <2>1. visible' = visible /\ deliver \in SUBSET EventIds
    BY <1>6 DEF Handle, logVars, TypeInv, LogInv, LogTypeOK
  <2>2. InIdOrder(deliver) \in Seq(visible)
    <3>1. InIdOrder(deliver) \in Seq(deliver) /\ deliver \in SUBSET visible
      BY <2>1, InIdOrderIs DEF TypeInv
    <3> QED BY <3>1
  <2>3. delivered' \in Seq(visible') BY <1>6, <2>1, <2>2, Joined DEF Handle, TypeInv
  <2> QED BY <1>1, <1>6, <2>3 DEF Handle, TypeInv
<1>7. CASE Leave BY <1>1, <1>2, <1>7 DEF Leave, TypeInv
<1>8. CASE Writing
  <2>1. rekeyed' \in BOOLEAN BY <1>8 DEF Writing, TypeInv
  <2> QED BY <1>1, <1>2, <1>8, <2>1 DEF Writing, TypeInv
<1>9. CASE UNCHANGED vars BY <1>1, <1>2, <1>9 DEF vars, reader, TypeInv
<1> QED BY <1>3, <1>4, <1>5, <1>6, <1>7, <1>8, <1>9 DEF Next

\* Variables of EphemeralSubscription.tla keep their types.
THEOREM TypeCorrectness == Spec => []TypeOK
<1>1. TypeInv => TypeOK
  <2>1. TypeInv => \A n \in DOMAIN delivered : delivered[n] \in visible BY DEF TypeInv
  <2> QED BY <2>1 DEF TypeInv, LogInv, TypeOK
<1> QED BY <1>1, InitInv, NextTypes, PTL DEF Spec

-----------------------------------------------------------------------------
(* Order.                                                                   *)

\* Batches follow each other.
LEMMA NextPosition == TypeInv /\ PositionInv /\ [Next]_vars => PositionInv'
<1> SUFFICES ASSUME TypeInv, PositionInv, [Next]_vars PROVE PositionInv' OBVIOUS
<1>0. MaxEventId \in Nat /\ \A i \in EventIds : i \in Nat
  BY EventLogAssumption DEF EventLogAssumption, EventIds
<1>a. /\ deliver \in SUBSET EventIds /\ lastID \in Nat /\ startedAt \in Nat
      /\ \A n \in DOMAIN delivered : delivered[n] \in EventIds
  BY <1>0 DEF TypeInv, LogInv, LogTypeOK
<1>1. CASE Call BY <1>1 DEF Call, PositionInv, InOrder
<1>2. CASE Start
  <2>1. StartAt(call.start) <= StartAt(call.start) BY <1>0, StartTypes
  <2> QED BY <1>2, <2>1 DEF Start, PositionInv, InOrder
<1>3. CASE Poll
  <2>1. /\ lastID' = LastOf(Due) /\ deliver' = Relevant(Due) /\ deliver = {}
        /\ pc' = IF deliver' = {} THEN "poll" ELSE "handle"
        /\ UNCHANGED <<delivered, startedAt>>
    BY <1>3 DEF Poll, PositionInv
  <2>2. /\ Due \in SUBSET EventIds /\ LastOf(Due) > lastID /\ LastOf(Due) \in EventIds
        /\ \A i \in Due : i > lastID /\ i <= LastOf(Due)
    BY <1>3, DueIs DEF Poll, TypeInv, LogInv, LogTypeOK
  <2>3. Relevant(Due) \in SUBSET Due BY DEF Relevant
  <2>4. ASSUME NEW n \in DOMAIN delivered
        PROVE  delivered[n] <= LastOf(Due) /\ \A i \in Due : delivered[n] < i
    <3>1. delivered[n] <= lastID /\ delivered[n] \in Nat BY <1>0, <1>a DEF PositionInv
    <3> QED BY <1>0, <1>a, <2>2, <3>1
  <2>5. startedAt <= LastOf(Due) BY <1>0, <1>a, <2>2 DEF PositionInv
  <2> QED BY <2>1, <2>2, <2>3, <2>4, <2>5 DEF PositionInv, InOrder
<1>4. CASE Handle
  <2> DEFINE b == InIdOrder(deliver)
  <2>1. /\ b \in Seq(deliver) /\ \A i, j \in DOMAIN b : i < j => b[i] < b[j]
        /\ \A n \in DOMAIN b : b[n] \in deliver
    BY <1>a, InIdOrderIs
  <2>2. /\ delivered' = delivered \o b /\ deliver' = {} /\ lastID' = lastID /\ pc' = "poll"
        /\ startedAt' = startedAt
    BY <1>4 DEF Handle
  <2>3. delivered \in Seq(EventIds) /\ b \in Seq(EventIds)
    BY <1>a, <2>1 DEF TypeInv, LogInv, LogTypeOK
  <2> HIDE DEF b
  <2>4. /\ DOMAIN delivered' = 1 .. Len(delivered) + Len(b)
        /\ Len(delivered) \in Nat /\ Len(b) \in Nat
        /\ \A n \in DOMAIN delivered' :
             \/ n \in DOMAIN delivered /\ delivered'[n] = delivered[n]
             \/ /\ n \notin DOMAIN delivered /\ n - Len(delivered) \in DOMAIN b
                /\ delivered'[n] = b[n - Len(delivered)]
    BY <2>2, <2>3, Joined
  <2>5. \A n \in DOMAIN delivered' : delivered'[n] <= lastID
    BY <2>1, <2>4 DEF PositionInv
  <2>6. ASSUME NEW i \in DOMAIN delivered', NEW j \in DOMAIN delivered', i < j
        PROVE  delivered'[i] < delivered'[j]
    <3>0. DOMAIN delivered = 1 .. Len(delivered) BY <2>3
    <3>1. CASE i \in DOMAIN delivered /\ j \in DOMAIN delivered
      BY <2>4, <2>6, <3>1 DEF PositionInv, InOrder
    <3>2. CASE i \in DOMAIN delivered /\ j \notin DOMAIN delivered
      BY <2>1, <2>4, <3>2 DEF PositionInv
    <3>3. CASE i \notin DOMAIN delivered /\ j \notin DOMAIN delivered
      <4>1. i - Len(delivered) < j - Len(delivered) BY <2>4, <2>6
      <4> QED BY <2>1, <2>4, <3>3, <4>1
    <3>4. ~(i \notin DOMAIN delivered /\ j \in DOMAIN delivered) BY <2>4, <2>6, <3>0
    <3> QED BY <3>1, <3>2, <3>3, <3>4
  <2> QED BY <2>2, <2>5, <2>6 DEF PositionInv, InOrder
<1>5. CASE Leave BY <1>5 DEF Leave, PositionInv, InOrder
<1>6. CASE Writing BY <1>6 DEF Writing, PositionInv, InOrder
<1>7. CASE UNCHANGED vars BY <1>7 DEF vars, reader, PositionInv, InOrder
<1> QED BY <1>1, <1>2, <1>3, <1>4, <1>5, <1>6, <1>7 DEF Next

\* In one run the handler accepts events in the order of their ids, none of them twice,
\* however writers number and commit their rows.
THEOREM DeliveredInOrder == Spec => []InOrder
<1>1. PositionInv => InOrder BY DEF PositionInv
<1> QED BY <1>1, InitInv, NextTypes, NextPosition, PTL DEF Spec

-----------------------------------------------------------------------------
(* The events asked for.  With concurrent writers an event may be committed  *)
(* behind the position: what follows is for one writing transaction at a     *)
(* time.                                                                    *)

\* The query and the filter in memory select together what the filter means.
LEMMA RelevantWanted ==
  ASSUME NEW c \in Calls, NEW i
  PROVE  /\ Selects(Columns(c.filter), {}, i)
         /\ JoinTypes(c.filter.types) # {} => row[i].type \in c.filter.types
         <=> Wanted(c.filter, i)
<1>1. /\ Columns(c.filter).aggType = c.filter.aggType /\ Columns(c.filter).key = c.filter.key
      /\ Columns(c.filter).type = TypeColumn(c.filter.types)
  BY DEF Columns
<1> QED BY <1>1, WhereTypesAre DEF Selects, Wanted

\* What the handler owes or has done, and what it should.
Given == ToSet(delivered) \cup deliver
Asked == {i \in visible : startedAt < i /\ i <= lastID /\ Wanted(call.filter, i)}

AskedInv == pc # "out" /\ ~rekeyed => Given = Asked

\* Writers add events after the position, or none that is asked for.
LEMMA WritingAsked ==
  ASSUME SerialWriters, TypeInv, PositionInv, ReachedInv, AskedInv, Writing
  PROVE  ReachedInv' /\ AskedInv'
<1>0. MaxEventId \in Nat /\ \A i \in EventIds : i \in Nat
  BY EventLogAssumption DEF EventLogAssumption, EventIds
<1>a. /\ UNCHANGED <<pc, call, lastID, deliver, delivered, startedAt>>
      /\ rekeyed' = (rekeyed \/ keyOf' # keyOf)
  BY DEF Writing
<1>b. /\ visible \subseteq visible' /\ \A i \in visible : row'[i] = row[i]
      /\ \A i \in visible' \ visible, j \in visible : j < i
      /\ visible' \in SUBSET EventIds
  <2>1. LogNext /\ LogInv BY DEF Writing, TypeInv
  <2> QED BY <2>1, LogStep, LogGrowsUp DEF LogInv, LogTypeOK
<1>c. lastID \in Nat /\ startedAt \in Nat BY <1>0 DEF TypeInv
<1>1. ReachedInv' BY <1>a, <1>b DEF ReachedInv
<1>2. ASSUME pc # "out", ~rekeyed' PROVE Asked' = Asked
  <2>1. keyOf' = keyOf BY <1>a, <1>2
  <2>2. ASSUME NEW i \in visible PROVE Wanted(call.filter, i)' <=> Wanted(call.filter, i)
    BY <1>a, <1>b, <2>1 DEF Wanted
  <2>3. ASSUME NEW i \in visible' \ visible PROVE ~(startedAt < i /\ i <= lastID)
    <3>1. i \in Nat BY <1>0, <1>b
    <3>2. CASE lastID = startedAt BY <1>c, <3>1, <3>2
    <3>3. CASE \E j \in visible : lastID <= j
      <4>1. PICK j \in visible : lastID <= j BY <3>3
      <4>2. j < i /\ j \in Nat BY <1>0, <1>b, <4>1
      <4> QED BY <1>c, <3>1, <4>1, <4>2
    <3> QED BY <1>2, <3>2, <3>3 DEF ReachedInv
  <2>4. ASSUME NEW i PROVE i \in Asked' <=> i \in Asked
    BY <1>a, <1>b, <2>2, <2>3 DEF Asked
  <2> QED BY <2>4 DEF Asked
<1>3. Given' = Given BY <1>a DEF Given
<1>4. AskedInv' BY <1>a, <1>2, <1>3 DEF AskedInv
<1> QED BY <1>1, <1>4

\* A batch has what is asked for up to its last event.
LEMMA PollAsked ==
  ASSUME TypeInv, PositionInv, ReachedInv, AskedInv, Poll
  PROVE  ReachedInv' /\ AskedInv'
<1>0. MaxEventId \in Nat /\ \A i \in EventIds : i \in Nat
  BY EventLogAssumption DEF EventLogAssumption, EventIds
<1>a. /\ lastID' = LastOf(Due) /\ deliver' = Relevant(Due) /\ deliver = {} /\ Due # {}
      /\ pc = "poll" /\ UNCHANGED <<visible, row, keyOf, call, delivered, startedAt, rekeyed>>
  BY DEF Poll, PositionInv, logVars
<1>b. /\ call \in Calls /\ visible \in SUBSET EventIds /\ lastID \in Nat /\ startedAt \in Nat
      /\ startedAt <= lastID
  BY <1>0 DEF TypeInv, LogInv, LogTypeOK, PositionInv
<1>c. /\ LastOf(Due) \in visible /\ LastOf(Due) > lastID /\ LastOf(Due) \in Nat
      /\ \A i \in Due : i <= LastOf(Due)
      /\ \A i : i \in Due => i \in visible /\ i > lastID /\ Selects(Columns(call.filter), {}, i)
      /\ \A i \in visible :
           i > lastID /\ Selects(Columns(call.filter), {}, i) /\ i <= LastOf(Due) => i \in Due
  BY <1>0, <1>a, <1>b, DueIs
<1>1. ReachedInv' BY <1>0, <1>a, <1>b, <1>c DEF ReachedInv
<1>2. ASSUME NEW i \in visible
      PROVE  i \in Relevant(Due) <=> lastID < i /\ i <= LastOf(Due) /\ Wanted(call.filter, i)
  <2>1. i \in Nat BY <1>0, <1>b
  <2> QED BY <1>b, <1>c, <2>1, RelevantWanted DEF Relevant
<1>3. ASSUME ~rekeyed PROVE Given' = Asked'
  <2>1. ToSet(delivered) = Asked BY <1>a, <1>3 DEF AskedInv, Given
  <2>2. Relevant(Due) \in SUBSET visible BY <1>c DEF Relevant
  <2>3. ASSUME NEW i \in visible PROVE i \in Asked' <=> i \in Asked \/ i \in Relevant(Due)
    <3>1. i \in Nat BY <1>0, <1>b
    <3>2. Wanted(call.filter, i)' <=> Wanted(call.filter, i) BY <1>a DEF Wanted
    <3>3. i \in Asked' <=> startedAt < i /\ i <= LastOf(Due) /\ Wanted(call.filter, i)
      BY <1>a, <3>2 DEF Asked
    <3>4. i \in Asked <=> startedAt < i /\ i <= lastID /\ Wanted(call.filter, i) BY DEF Asked
    <3> QED BY <1>2, <1>b, <1>c, <3>1, <3>3, <3>4
  <2>4. Asked' \in SUBSET visible /\ Asked \in SUBSET visible BY <1>a DEF Asked
  <2>5. Given' = ToSet(delivered) \cup Relevant(Due) BY <1>a DEF Given
  <2> HIDE DEF Asked
  <2> QED BY <2>1, <2>2, <2>3, <2>4, <2>5
<1>4. AskedInv' BY <1>3, <1>a DEF AskedInv
<1> QED BY <1>1, <1>4

\* Every step.
LEMMA NextAsked ==
  SerialWriters /\ TypeInv /\ PositionInv /\ ReachedInv /\ AskedInv /\ [Next]_vars
    => ReachedInv' /\ AskedInv'
<1> SUFFICES ASSUME SerialWriters, TypeInv, PositionInv, ReachedInv, AskedInv, [Next]_vars
             PROVE  ReachedInv' /\ AskedInv'
  OBVIOUS
<1>0. MaxEventId \in Nat /\ \A i \in EventIds : i \in Nat
  BY EventLogAssumption DEF EventLogAssumption, EventIds
<1>a. visible \in SUBSET EventIds BY DEF TypeInv, LogInv, LogTypeOK
<1>1. CASE Call
  <2>1. /\ delivered' = <<>> /\ deliver' = {} /\ lastID' = 0 /\ startedAt' = 0
        /\ visible' = visible
    BY <1>1 DEF Call, PositionInv, logVars
  <2>2. Given' = {} BY <2>1 DEF Given, ToSet
  <2>3. Asked' = {} BY <1>0, <1>a, <2>1 DEF Asked
  <2> QED BY <2>1, <2>2, <2>3 DEF ReachedInv, AskedInv
<1>2. CASE Start
  <2>1. /\ delivered' = <<>> /\ deliver' = {} /\ startedAt' = lastID' /\ visible' = visible
        /\ lastID' \in Nat
    BY <1>0, <1>2, StartTypes DEF Start, PositionInv, logVars
  <2>2. Given' = {} BY <2>1 DEF Given, ToSet
  <2>3. Asked' = {} BY <1>0, <1>a, <2>1 DEF Asked
  <2> QED BY <2>1, <2>2, <2>3 DEF ReachedInv, AskedInv
<1>3. CASE Poll BY <1>3, PollAsked
<1>4. CASE Handle
  <2>1. /\ UNCHANGED <<visible, row, keyOf, call, lastID, startedAt, rekeyed>> /\ deliver' = {}
        /\ delivered' = delivered \o InIdOrder(deliver) /\ pc # "out"
    BY <1>4 DEF Handle, logVars
  <2>2. deliver \in SUBSET EventIds /\ delivered \in Seq(EventIds)
    BY DEF TypeInv, LogInv, LogTypeOK
  <2>3. InIdOrder(deliver) \in Seq(EventIds) /\ ToSet(InIdOrder(deliver)) = deliver
    BY <2>2, InIdOrderIs
  <2>4. ToSet(delivered') = ToSet(delivered) \cup deliver BY <2>1, <2>2, <2>3, Joined
  <2>5. Given' = Given BY <2>1, <2>4 DEF Given
  <2>6. Asked' = Asked BY <2>1 DEF Asked, Wanted
  <2> QED BY <2>1, <2>5, <2>6 DEF ReachedInv, AskedInv
<1>5. CASE Leave BY <1>5 DEF Leave, ReachedInv, AskedInv
<1>6. CASE Writing BY <1>6, WritingAsked
<1>7. CASE UNCHANGED vars
  <2>1. UNCHANGED <<visible, row, keyOf, pc, call, lastID, deliver, delivered, startedAt, rekeyed>>
    BY <1>7 DEF vars, logVars, reader
  <2>2. Given' = Given /\ Asked' = Asked BY <2>1 DEF Given, Asked, Wanted
  <2> QED BY <2>1, <2>2 DEF ReachedInv, AskedInv
<1> QED BY <1>1, <1>2, <1>3, <1>4, <1>5, <1>6, <1>7 DEF Next

\* Where transactions that write take turns, the handler is given exactly the wanted
\* events between start and position, until a natural key changes.
THEOREM WhatWasAsked == ASSUME SerialWriters PROVE Spec => []ExactlyWhatWasAsked
<1>1. Init => AskedInv BY DEF Init, AskedInv
<1>2. TypeInv /\ PositionInv /\ ReachedInv /\ AskedInv /\ [Next]_vars => ReachedInv' /\ AskedInv'
  BY NextAsked
<1>3. AskedInv => ExactlyWhatWasAsked BY DEF AskedInv, Given, Asked, ExactlyWhatWasAsked
<1> QED BY <1>1, <1>2, <1>3, InitInv, NextTypes, NextPosition, PTL DEF Spec
=============================================================================
