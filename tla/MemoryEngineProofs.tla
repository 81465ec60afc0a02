------------------------- MODULE MemoryEngineProofs -------------------------
(***************************************************************************)
(* Proofs about the memory engine.  Contexts (MemoryEngine), for any       *)
(* number of clients, aggregates, keys and events: what its loops keep,    *)
(* that natural keys lead back, and, in streams that use no number twice,  *)
(* that no update is lost and that loads are replays.  Subscriptions       *)
(* (MemorySubscriptions), for any names, callers, filters, leases, events  *)
(* and limit: each is a row of SubscriptionTable, and the loops find what  *)
(* the queries find.                                                       *)
(***************************************************************************)
EXTENDS MemoryEngine, MemorySubscriptions, TLAPS, WellFoundedInduction, FiniteSetTheorems

-----------------------------------------------------------------------------
(* Positions in a slice.                                                    *)

\* A set of numbers that is not empty has a smallest one.
LEMMA LeastNumber ==
  ASSUME NEW S \in SUBSET Nat, S # {}
  PROVE  \E m \in S : \A n \in S : m <= n
<1>1. PICK m \in S : \A n \in S : ~(<<n, m>> \in OpToRel(<, Nat))
  BY NatLessThanWellFounded, WFMin
<1>2. ASSUME NEW n \in S PROVE m <= n
  <2>1. ~(n < m) BY <1>1 DEF OpToRel
  <2> QED BY <2>1
<1> QED BY <1>2

\* Some positions, if there are any, have a last one.
LEMMA LastPosition ==
  ASSUME NEW n \in Nat, NEW S \in SUBSET (1 .. n), S # {}
  PROVE  \E m \in S : \A i \in S : i <= m
<1> DEFINE T == {n - i : i \in S}
<1>1. T \in SUBSET Nat /\ T # {}
  <2>1. \A i \in S : n - i \in Nat OBVIOUS
  <2> QED BY <2>1
<1>2. PICK m \in T : \A x \in T : m <= x BY <1>1, LeastNumber
<1>3. PICK i \in S : m = n - i OBVIOUS
<1>4. ASSUME NEW j \in S PROVE j <= i
  <2>1. m <= n - j BY <1>2
  <2> QED BY <1>3, <2>1
<1> QED BY <1>4

\* Positions are finitely many.
LEMMA PositionsCount ==
  ASSUME NEW n \in Nat, NEW S \in SUBSET (1 .. n)
  PROVE  IsFiniteSet(S) /\ Cardinality(S) \in Nat /\ (S # {} => Cardinality(S) >= 1)
<1>1. IsFiniteSet(1 .. n) BY FS_Interval
<1>2. IsFiniteSet(S) BY <1>1, FS_Subset
<1>3. Cardinality(S) \in Nat BY <1>2, FS_CardinalityType
<1>4. S # {} => Cardinality(S) # 0 BY <1>2, FS_EmptySet
<1> QED BY <1>2, <1>3, <1>4

\* There is a k-th position among at least k: the first one up to which there are k or
\* more, because there would be k or more up to the one before it.
LEMMA NthIs ==
  ASSUME NEW n \in Nat, NEW S \in SUBSET (1 .. n), NEW k \in 1 .. Cardinality(S)
  PROVE  NthOf(S, k) \in S /\ Cardinality({j \in S : j <= NthOf(S, k)}) = k
<1> DEFINE UpTo(p) == {j \in S : j <= p}
<1> SUFFICES \E p \in S : Cardinality(UpTo(p)) = k BY DEF NthOf
<1>1. IsFiniteSet(S) /\ Cardinality(S) \in Nat BY PositionsCount
<1>2. k \in Nat /\ k >= 1 /\ k <= Cardinality(S) BY <1>1
<1>3. S # {}
  <2>1. Cardinality({}) = 0 BY FS_EmptySet
  <2> QED BY <1>2, <2>1
<1>4. PICK last \in S : \A i \in S : i <= last BY <1>3, LastPosition
<1>5. \A p \in S : UpTo(p) \in SUBSET (1 .. n) /\ Cardinality(UpTo(p)) \in Nat
  <2>1. \A p \in S : UpTo(p) \in SUBSET (1 .. n) OBVIOUS
  <2> QED BY <2>1, PositionsCount
<1> DEFINE Many == {p \in S : Cardinality(UpTo(p)) >= k}
<1>6. UpTo(last) = S BY <1>4
<1>7. Many \in SUBSET Nat /\ Many # {}
  <2>1. last \in Many BY <1>2, <1>6
  <2>2. \A p \in S : p \in Nat OBVIOUS
  <2> QED BY <2>1, <2>2
<1>8. PICK p \in Many : \A q \in Many : p <= q BY <1>7, LeastNumber
<1>9. p \in S /\ Cardinality(UpTo(p)) >= k BY <1>8
<1>10. CASE Cardinality(UpTo(p)) = k BY <1>9, <1>10
<1>11. CASE Cardinality(UpTo(p)) # k
  <2> DEFINE R == UpTo(p) \ {p}
  <2>1. Cardinality(R) = Cardinality(UpTo(p)) - 1
    <3>1. p \in UpTo(p) BY <1>9
    <3>2. IsFiniteSet(UpTo(p)) BY <1>1, FS_Subset
    <3> HIDE DEF UpTo
    <3> QED BY <3>1, <3>2, FS_RemoveElement
  <2>2. Cardinality(R) >= k BY <1>2, <1>5, <1>9, <1>11, <2>1
  <2>3. R # {}
    <3>1. Cardinality({}) = 0 BY FS_EmptySet
    <3> HIDE DEF R
    <3> QED BY <1>2, <2>2, <3>1
  <2>4. PICK q \in R : \A i \in R : i <= q
    <3>1. R \in SUBSET (1 .. n) OBVIOUS
    <3> HIDE DEF R
    <3> QED BY <2>3, <3>1, LastPosition
  <2>5. q \in S /\ q < p /\ q \in Nat /\ p \in Nat BY <1>9
  <2>6. UpTo(q) = R
    <3>1. ASSUME NEW j \in R PROVE j \in UpTo(q) BY <2>4
    <3>2. ASSUME NEW j \in UpTo(q) PROVE j \in R BY <2>5
    <3> QED BY <3>1, <3>2
  <2>7. q \in Many BY <2>2, <2>5, <2>6
  <2>8. p <= q BY <1>8, <2>7
  <2> QED BY <2>5, <2>8
<1> QED BY <1>10, <1>11

\* A loop keeps elements of its slice.
LEMMA KeptIs ==
  ASSUME NEW T, NEW s \in Seq(T), NEW S \in SUBSET DOMAIN s
  PROVE  /\ Kept(s, S) \in Seq(T) /\ Len(Kept(s, S)) = Cardinality(S)
         /\ \A k \in 1 .. Cardinality(S) :
              /\ Kept(s, S)[k] = s[NthOf(S, k)] /\ NthOf(S, k) \in S
              /\ Cardinality({j \in S : j <= NthOf(S, k)}) = k
<1>1. Len(s) \in Nat /\ DOMAIN s = 1 .. Len(s) /\ \A i \in DOMAIN s : s[i] \in T OBVIOUS
<1>2. Cardinality(S) \in Nat BY <1>1, PositionsCount
<1>3. \A k \in 1 .. Cardinality(S) :
        NthOf(S, k) \in S /\ Cardinality({j \in S : j <= NthOf(S, k)}) = k
  BY <1>1, NthIs
<1>4. Kept(s, S) \in [1 .. Cardinality(S) -> T] BY <1>1, <1>3 DEF Kept
<1>5. \A k \in 1 .. Cardinality(S) : Kept(s, S)[k] = s[NthOf(S, k)] BY DEF Kept
<1>6. Kept(s, S) \in Seq(T) /\ Len(Kept(s, S)) = Cardinality(S) BY <1>2, <1>4
<1> QED BY <1>3, <1>5, <1>6

-----------------------------------------------------------------------------
(* Types.                                                                   *)

\* A load gives an object, and goes through a snapshot of the slice, if there is one.
LEMMA LastSnapshotIs ==
  ASSUME TypeOK, NEW a \in Ids
  PROVE  /\ LastSnapshot(a) \in Snapshot /\ LastSnapshot(a).agg = a
         /\ \/ LastSnapshot(a).seq = 0 /\ LastSnapshot(a).state = <<>>
            \/ \E i \in DOMAIN snapshots : LastSnapshot(a) = snapshots[i]
<1> DEFINE own == {i \in DOMAIN snapshots : snapshots[i].agg = a}
<1>1. /\ Len(snapshots) \in Nat /\ DOMAIN snapshots = 1 .. Len(snapshots)
      /\ \A i \in DOMAIN snapshots : snapshots[i] \in Snapshot
  BY DEF TypeOK
<1>2. CASE own = {}
  <2>1. LastSnapshot(a) = [agg |-> a, seq |-> 0, state |-> <<>>] BY <1>2 DEF LastSnapshot
  <2>2. [agg |-> a, seq |-> 0, state |-> <<>>] \in Snapshot BY DEF Snapshot, State
  <2> QED BY <2>1, <2>2
<1>3. CASE own # {}
  <2>1. own \in SUBSET (1 .. Len(snapshots)) BY <1>1
  <2>2. \E i \in own : \A j \in own : j <= i
    <3> HIDE DEF own
    <3> QED BY <1>1, <1>3, <2>1, LastPosition
  <2>3. LastSnapshot(a) = snapshots[CHOOSE i \in own : \A j \in own : j <= i]
    BY <1>3 DEF LastSnapshot
  <2>4. PICK i \in own : LastSnapshot(a) = snapshots[i]
    <3> HIDE DEF own
    <3> QED BY <2>2, <2>3
  <2> QED BY <1>1, <2>4
<1> QED BY <1>2, <1>3

\* What loadState and applyState build is an object.
LEMMA LoadedType == ASSUME TypeOK, NEW a \in Ids PROVE Loaded(a) \in Object
<1> DEFINE s == LastSnapshot(a)
           es == EventsAfter(a, s.seq)
<1>1. s.seq \in Nat /\ s.state \in Seq(Vals) BY LastSnapshotIs DEF Snapshot, State
<1>2. es \in Seq(Event)
  <2>1. log \in Seq(Event) BY DEF TypeOK
  <2>2. After(log, a, s.seq) \in SUBSET DOMAIN log BY DEF After
  <2> QED BY <2>1, <2>2, KeptIs DEF EventsAfter
<1> HIDE DEF s, es
<1>3. Loaded(a) = [seq |-> IF es = <<>> THEN s.seq ELSE Last(es).seq,
                   state |-> s.state \o [i \in 1 .. Len(es) |-> es[i].val]]
  BY DEF Loaded, s, es
<1>4. Len(es) \in Nat /\ \A i \in 1 .. Len(es) : es[i].val \in Vals /\ es[i].seq \in Nat
  <2>1. Len(es) \in Nat /\ \A i \in 1 .. Len(es) : es[i] \in Event BY <1>2
  <2>2. \A e \in Event : e.val \in Vals /\ e.seq \in Nat BY DEF Event
  <2> QED BY <2>1, <2>2
<1>5. [i \in 1 .. Len(es) |-> es[i].val] \in Seq(Vals) BY <1>4
<1>6. s.state \o [i \in 1 .. Len(es) |-> es[i].val] \in Seq(Vals) BY <1>1, <1>5
<1>7. (IF es = <<>> THEN s.seq ELSE Last(es).seq) \in Nat
  <2>1. CASE es = <<>> BY <1>1, <2>1
  <2>2. CASE es # <<>>
    <3>1. Len(es) \in 1 .. Len(es) BY <1>2, <1>4, <2>2
    <3>2. Last(es) = es[Len(es)] BY DEF Last
    <3> QED BY <1>4, <2>2, <3>1, <3>2
  <2> QED BY <2>1, <2>2
<1>8. \A n \in Nat : \A st \in Seq(Vals) : [seq |-> n, state |-> st] \in Object
  BY DEF Object, State
<1> QED BY <1>3, <1>6, <1>7, <1>8

\* A context that ends leaves nothing behind.
LEMMA DiscardTypes ==
  ASSUME TypeOK, NEW c \in Clients, Discard(c)
  PROVE  /\ phase' \in [Clients -> {"idle", "callback"}]
         /\ objects' \in [Clients -> [Ids -> Object \cup {NoObject}]]
         /\ captured' \in [Clients -> Seq(Event)] /\ staged' \in [Clients -> Seq(Snapshot)]
<1>1. [a \in Ids |-> NoObject] \in [Ids -> Object \cup {NoObject}] OBVIOUS
<1>2. <<>> \in Seq(Event) /\ <<>> \in Seq(Snapshot) OBVIOUS
<1> QED BY <1>1, <1>2 DEF Discard, TypeOK

\* Every step.
LEMMA NextTypes == TypeOK /\ [Next]_vars => TypeOK'
<1> SUFFICES ASSUME TypeOK, [Next]_vars PROVE TypeOK' OBVIOUS
<1>0. MaxAggregates \in Nat BY MemoryEngineAssumption DEF MemoryEngineAssumption
<1>a. count \in 0 .. MaxAggregates BY DEF TypeOK
<1>b. Existing \subseteq Ids BY <1>0, <1>a DEF Existing, Ids
<1>c. Fresh \in Object BY DEF Fresh, Object, State
<1>1. ASSUME NEW c \in Clients, Begin(c) PROVE TypeOK'
  BY <1>1 DEF Begin, engine, context, TypeOK
<1>2. ASSUME NEW c \in Clients, Create(c)
      PROVE  /\ NewId \in Ids /\ count' \in 0 .. MaxAggregates
             /\ objects' \in [Clients -> [Ids -> Object \cup {NoObject}]]
  <2>1. NewId \in Ids /\ count' \in 0 .. MaxAggregates
    BY <1>0, <1>a, <1>2 DEF Create, NewId, Ids
  <2> QED BY <1>2, <1>c, <2>1 DEF Create, TypeOK
<1>3. ASSUME NEW c \in Clients, NewAggregate(c) PROVE TypeOK'
  <2>1. Create(c) BY <1>3 DEF NewAggregate
  <2> QED BY <1>2, <1>3, <2>1 DEF NewAggregate, Create, TypeOK
<1>4. ASSUME NEW c \in Clients, NEW k \in Keys, NewAggregateWithKey(c, k) PROVE TypeOK'
  <2>1. Create(c) BY <1>4 DEF NewAggregateWithKey
  <2>2. byKey' \in [Keys -> Ids \cup {NoId}] /\ keyOf' \in [Ids -> Keys \cup {NoKey}]
    BY <1>2, <1>4, <2>1 DEF NewAggregateWithKey, TypeOK
  <2> QED BY <1>2, <2>1, <2>2 DEF Create, TypeOK
<1>5. ASSUME NEW c \in Clients, NEW a, Load(c, a) PROVE TypeOK'
  <2>1. a \in Ids BY <1>5, <1>b DEF Load
  <2>2. Loaded(a) \in Object BY <2>1, LoadedType
  <2>3. objects' \in [Clients -> [Ids -> Object \cup {NoObject}]]
    BY <1>5, <2>1, <2>2 DEF Load, TypeOK
  <2> QED BY <1>5, <2>3 DEF Load, engine, TypeOK
<1>6. ASSUME NEW c \in Clients, NEW a \in Ids, NEW k \in Keys,
             ChangeAggregateNaturalKey(c, a, k)
      PROVE  TypeOK'
  <2>1. byKey' \in [Keys -> Ids \cup {NoId}] /\ keyOf' \in [Ids -> Keys \cup {NoKey}]
    BY <1>6 DEF ChangeAggregateNaturalKey, TypeOK
  <2>2. takenOver' \in BOOLEAN BY <1>6 DEF ChangeAggregateNaturalKey, TakesOver, TypeOK
  <2> QED BY <1>6, <2>1, <2>2 DEF ChangeAggregateNaturalKey, context, TypeOK
<1>7. ASSUME NEW c \in Clients, NEW a \in Ids, NEW v \in Vals, ApplyEvent(c, a, v)
      PROVE  TypeOK'
  <2> DEFINE o == objects[c][a]
             e == [agg |-> a, seq |-> o.seq + 1, val |-> v, base |-> o.state]
             s == SnapshotFor(a, o, v)
  <2>1. o \in Object BY <1>7 DEF ApplyEvent, TypeOK
  <2>2. o.seq + 1 \in Nat /\ Append(o.state, v) \in State /\ o.state \in State
    BY <2>1 DEF Object, State
  <2>3. e \in Event /\ s \in Snapshot BY <2>2 DEF Event, Snapshot, SnapshotFor
  <2>4. objects' \in [Clients -> [Ids -> Object \cup {NoObject}]]
    BY <1>7, <2>2 DEF ApplyEvent, TypeOK, Object
  <2>5. /\ captured' = [captured EXCEPT ![c] = Append(@, e)]
        /\ staged' = staged \/ staged' = [staged EXCEPT ![c] = Append(@, s)]
    BY <1>7 DEF ApplyEvent
  <2> HIDE DEF e, s
  <2>6. captured' \in [Clients -> Seq(Event)] BY <2>3, <2>5 DEF TypeOK
  <2>7. staged' \in [Clients -> Seq(Snapshot)]
    <3>1. [staged EXCEPT ![c] = Append(@, s)] \in [Clients -> Seq(Snapshot)]
      BY <2>3 DEF TypeOK
    <3> QED BY <2>5, <3>1 DEF TypeOK
  <2> QED BY <1>7, <2>4, <2>6, <2>7 DEF ApplyEvent, engine, TypeOK
<1>8. ASSUME NEW c \in Clients, WriteState(c) PROVE TypeOK'
  <2>1. log' \in Seq(Event) /\ snapshots' \in Seq(Snapshot) BY <1>8 DEF WriteState, TypeOK
  <2>2. Discard(c) BY <1>8 DEF WriteState
  <2> QED BY <1>8, <2>1, <2>2, DiscardTypes DEF WriteState, TypeOK
<1>9. ASSUME NEW c \in Clients, Abort(c) PROVE TypeOK'
  <2>1. Discard(c) BY <1>9 DEF Abort
  <2> QED BY <1>9, <2>1, DiscardTypes DEF Abort, engine, TypeOK
<1>10. CASE UNCHANGED vars BY <1>10 DEF vars, engine, context, TypeOK
<1>11. ASSUME NEW c \in Clients, NEW k \in Keys,
              LoadByKey(c, k) \/ LoadOrCreateAggregate(c, k)
       PROVE  TypeOK'
  BY <1>4, <1>5, <1>11 DEF LoadByKey, LoadOrCreateAggregate
<1> QED BY <1>1, <1>3, <1>4, <1>5, <1>6, <1>7, <1>8, <1>9, <1>10, <1>11 DEF Next

\* The engine starts empty.
LEMMA InitTypes == Init => TypeOK
<1> SUFFICES ASSUME Init PROVE TypeOK OBVIOUS
<1>1. MaxAggregates \in Nat BY MemoryEngineAssumption DEF MemoryEngineAssumption
<1>2. <<>> \in Seq(Event) /\ <<>> \in Seq(Snapshot) /\ 0 \in 0 .. MaxAggregates BY <1>1
<1> QED BY <1>2 DEF Init, TypeOK

\* The variables of MemoryEngine.tla keep their types (base/memory.go, the fields of
\* MemoryStorageEngine).
THEOREM TypeCorrectness == Spec => []TypeOK
BY InitTypes, NextTypes, PTL DEF Spec

-----------------------------------------------------------------------------
(* Natural keys.                                                            *)

\* A key that leads somewhere leads to an aggregate that exists; what does not exist
\* has no key.
KeysInv ==
  /\ KeysLeadBack
  /\ \A k \in Keys : byKey[k] # NoId => byKey[k] \in Existing
  /\ \A a \in Ids \ Existing : keyOf[a] = NoKey

\* What the keys of a step must be.
LEMMA KeysKept ==
  ASSUME \A k \in Keys : byKey'[k] # NoId => keyOf'[byKey'[k]] = k /\ byKey'[k] \in Existing',
         ~takenOver' => \A a \in Existing' : keyOf'[a] # NoKey => byKey'[keyOf'[a]] = a,
         \A a \in Ids \ Existing' : keyOf'[a] = NoKey
  PROVE  KeysInv'
BY DEF KeysInv, KeysLeadBack

\* Every step: the id of a new aggregate is one that no key leads to, and a key that
\* an aggregate gives up leads nowhere or to another aggregate, which took it over.
LEMMA NextKeys == TypeOK /\ KeysInv /\ [Next]_vars => KeysInv'
<1> SUFFICES ASSUME TypeOK, KeysInv, [Next]_vars PROVE KeysInv' OBVIOUS
<1>0. MaxAggregates \in Nat /\ NoId \notin Nat /\ NoKey \notin Keys
  BY MemoryEngineAssumption DEF MemoryEngineAssumption
<1>a. /\ count \in 0 .. MaxAggregates /\ byKey \in [Keys -> Ids \cup {NoId}]
      /\ keyOf \in [Ids -> Keys \cup {NoKey}] /\ takenOver \in BOOLEAN
  BY DEF TypeOK
<1>b. Existing \subseteq Ids BY <1>0, <1>a DEF Existing, Ids
<1>c. \A k \in Keys : byKey[k] # NoId => keyOf[byKey[k]] = k /\ byKey[k] \in Existing
  BY DEF KeysInv, KeysLeadBack
<1>d. /\ ~takenOver => \A a \in Existing : keyOf[a] # NoKey => byKey[keyOf[a]] = a
      /\ \A a \in Ids \ Existing : keyOf[a] = NoKey
  BY DEF KeysInv, KeysLeadBack
<1>1. CASE UNCHANGED <<count, byKey, keyOf, takenOver>>
  BY <1>1 DEF KeysInv, KeysLeadBack, Existing
<1>2. ASSUME NEW c \in Clients, Create(c)
      PROVE  /\ NewId \in Ids /\ NewId \notin Existing /\ NewId \in Existing'
             /\ Existing' = Existing \cup {NewId} /\ takenOver' = takenOver
  BY <1>0, <1>a, <1>2 DEF Create, NewId, Ids, Existing
<1>3. ASSUME NEW c \in Clients, NewAggregate(c) PROVE KeysInv'
  <2>1. Create(c) /\ UNCHANGED <<byKey, keyOf>> BY <1>3 DEF NewAggregate
  <2>2. ~takenOver' => \A a \in Existing' : keyOf'[a] # NoKey => byKey'[keyOf'[a]] = a
    BY <1>2, <1>d, <2>1
  <2> QED BY <1>2, <1>c, <1>d, <2>1, <2>2, KeysKept
<1>4. ASSUME NEW c \in Clients, NEW k \in Keys, NewAggregateWithKey(c, k) PROVE KeysInv'
  <2> DEFINE new == NewId
  <2>1. /\ Create(c) /\ byKey[k] = NoId /\ byKey' = [byKey EXCEPT ![k] = new]
        /\ keyOf' = [keyOf EXCEPT ![new] = k]
    BY <1>4 DEF NewAggregateWithKey
  <2>2. /\ new \in Ids /\ new \notin Existing /\ new \in Existing'
        /\ Existing' = Existing \cup {new} /\ takenOver' = takenOver
    BY <1>2, <2>1
  <2> HIDE DEF new
  <2>3. ASSUME NEW l \in Keys, byKey'[l] # NoId
        PROVE  keyOf'[byKey'[l]] = l /\ byKey'[l] \in Existing'
    <3>1. CASE l = k BY <1>a, <2>1, <2>2, <3>1
    <3>2. CASE l # k
      <4>1. byKey'[l] = byKey[l] BY <1>a, <2>1, <3>2
      <4>2. keyOf[byKey[l]] = l /\ byKey[l] \in Existing BY <1>c, <2>3, <4>1
      <4>3. byKey[l] # new BY <2>2, <4>2
      <4> QED BY <1>a, <1>b, <2>1, <2>2, <4>1, <4>2, <4>3
    <3> QED BY <3>1, <3>2
  <2>4. ASSUME ~takenOver', NEW a \in Existing', keyOf'[a] # NoKey PROVE byKey'[keyOf'[a]] = a
    <3>1. CASE a = new BY <1>a, <2>1, <2>2, <3>1
    <3>2. CASE a # new
      <4>1. a \in Existing /\ a \in Ids /\ keyOf'[a] = keyOf[a] BY <1>a, <1>b, <2>1, <2>2, <3>2
      <4>2. keyOf[a] \in Keys /\ byKey[keyOf[a]] = a BY <1>a, <1>d, <2>2, <2>4, <4>1
      <4>3. keyOf[a] # k BY <1>0, <2>1, <4>1, <4>2 DEF Ids
      <4> QED BY <1>a, <2>1, <4>1, <4>2, <4>3
    <3> QED BY <3>1, <3>2
  <2>5. \A a \in Ids \ Existing' : keyOf'[a] = NoKey BY <1>a, <1>d, <2>1, <2>2
  <2> QED BY <2>3, <2>4, <2>5, KeysKept
<1>5. ASSUME NEW c \in Clients, NEW a \in Ids, NEW k \in Keys,
             ChangeAggregateNaturalKey(c, a, k)
      PROVE  KeysInv'
  <2>1. /\ a \in Existing /\ keyOf[a] \in Keys
        /\ byKey' = [byKey EXCEPT ![keyOf[a]] = NoId, ![k] = a]
        /\ keyOf' = [keyOf EXCEPT ![a] = k] /\ Existing' = Existing
        /\ takenOver' = (takenOver \/ byKey[k] \notin {NoId, a})
    BY <1>5, <1>a DEF ChangeAggregateNaturalKey, TakesOver, Existing
  <2>2. ASSUME NEW l \in Keys, byKey'[l] # NoId
        PROVE  keyOf'[byKey'[l]] = l /\ byKey'[l] \in Existing'
    <3>1. CASE l = k BY <1>a, <2>1, <3>1
    <3>2. CASE l # k
      <4>1. l # keyOf[a] /\ byKey'[l] = byKey[l] BY <1>a, <2>1, <2>2, <3>2
      <4>2. keyOf[byKey[l]] = l /\ byKey[l] \in Existing BY <1>c, <2>2, <4>1
      <4>3. byKey[l] # a BY <4>1, <4>2
      <4> QED BY <1>a, <1>b, <2>1, <4>1, <4>2, <4>3
    <3> QED BY <3>1, <3>2
  <2>3. ASSUME ~takenOver', NEW b \in Existing', keyOf'[b] # NoKey PROVE byKey'[keyOf'[b]] = b
    <3>1. CASE b = a BY <1>a, <2>1, <3>1
    <3>2. CASE b # a
      <4>1. b \in Existing /\ b \in Ids /\ keyOf'[b] = keyOf[b] BY <1>a, <1>b, <2>1, <3>2
      <4>2. keyOf[b] \in Keys /\ byKey[keyOf[b]] = b BY <1>a, <1>d, <2>1, <2>3, <4>1
      <4>3. byKey[keyOf[a]] = a BY <1>0, <1>d, <2>1, <2>3
      <4>4. keyOf[b] # keyOf[a] BY <3>2, <4>2, <4>3
      <4>5. keyOf[b] # k
        <5>1. byKey[k] \in {NoId, a} BY <2>1, <2>3
        <5>2. b # NoId BY <1>0, <4>1 DEF Ids
        <5> QED BY <3>2, <4>2, <5>1, <5>2
      <4> QED BY <1>a, <2>1, <4>1, <4>2, <4>4, <4>5
    <3> QED BY <3>1, <3>2
  <2>4. \A b \in Ids \ Existing' : keyOf'[b] = NoKey BY <1>a, <1>d, <2>1
  <2> QED BY <2>2, <2>3, <2>4, KeysKept
<1>6. ASSUME NEW c \in Clients, NEW k \in Keys,
             LoadByKey(c, k) \/ LoadOrCreateAggregate(c, k)
      PROVE  KeysInv'
  BY <1>1, <1>4, <1>6 DEF LoadByKey, LoadOrCreateAggregate, Load, engine
<1>7. ASSUME NEW c \in Clients,
             Begin(c) \/ WriteState(c) \/ Abort(c) \/ (\E a \in Ids : Load(c, a))
             \/ (\E a \in Ids, v \in Vals : ApplyEvent(c, a, v))
      PROVE  KeysInv'
  <2>1. UNCHANGED <<count, byKey, keyOf, takenOver>>
    BY <1>7 DEF Begin, WriteState, Abort, Load, ApplyEvent, engine
  <2> QED BY <1>1, <2>1
<1>8. CASE UNCHANGED vars BY <1>1, <1>8 DEF vars, engine
<1> QED BY <1>3, <1>4, <1>5, <1>6, <1>7, <1>8 DEF Next

\* When keys change and are taken over, none leads to an aggregate that has another
\* key now; and until the first is taken over every aggregate is found by its key, so
\* nothing but a takeover makes memory.go's two maps disagree (ChangeAggregateNaturalKey).
THEOREM KeysLead == Spec => []KeysLeadBack
<1>1. Init => KeysInv
  <2> SUFFICES ASSUME Init PROVE KeysInv OBVIOUS
  <2>1. Existing = {} /\ \A a \in Ids : keyOf[a] = NoKey BY DEF Init, Existing
  <2>2. \A k \in Keys : byKey[k] = NoId BY DEF Init
  <2> QED BY <2>1, <2>2 DEF KeysInv, KeysLeadBack
<1>2. KeysInv => KeysLeadBack BY DEF KeysInv
<1> QED BY <1>1, <1>2, InitTypes, NextTypes, NextKeys, PTL DEF Spec

-----------------------------------------------------------------------------
(* The invariant of contexts.                                               *)

\* The event at p of slice s was applied to exactly the events of its stream before it.
Fits(s, p) ==
  /\ s[p].seq = Len(s[p].base) + 1
  /\ \A q \in DOMAIN s : q < p /\ s[q].agg = s[p].agg => s[q].seq < s[p].seq
  /\ \A n \in 1 .. Len(s[p].base) :
       \E q \in DOMAIN s : /\ q < p /\ s[q].agg = s[p].agg
                          /\ s[q].seq = n /\ s[q].val = s[p].base[n]

\* So do all events of stream a.
Chained(s, a) == \A p \in DOMAIN s : s[p].agg = a => Fits(s, p)

\* Object or snapshot o of aggregate a is a replay of events in slice s.
Replayed(s, a, o) ==
  /\ Len(o.state) = o.seq
  /\ \A n \in 1 .. o.seq :
       \E p \in DOMAIN s : s[p].agg = a /\ s[p].seq = n /\ s[p].val = o.state[n]

\* Stream a has no event after n in slice s.
EndsBy(s, a, n) == \A p \in DOMAIN s : s[p].agg = a => s[p].seq <= n

\* The log as it will be if c's context saves now.
View(c) == log \o captured[c]

\* What is held, captured or logged exists.
HoldersInv ==
  /\ \A c \in Clients, a \in Ids : objects[c][a] # NoObject => a \in Existing
  /\ \A c \in Clients : \A i \in DOMAIN captured[c] : captured[c][i].agg \in Existing
  /\ \A i \in DOMAIN log : log[i].agg \in Existing

\* A stream in which no number is used twice is chained, the one in the log and those
\* that contexts would make of it.
StreamsInv ==
  \A a \in Ids :
    /\ Unique(log, a) => Chained(log, a)
    /\ \A c \in Clients : Unique(View(c), a) => Chained(View(c), a)

\* What a context holds is a replay, though maybe not of all there is by now.
ObjectsInv ==
  \A c \in Clients, a \in Ids :
    objects[c][a] # NoObject /\ Unique(View(c), a) => Replayed(View(c), a, objects[c][a])

SnapshotsInv ==
  /\ \A i \in DOMAIN snapshots :
       Unique(log, snapshots[i].agg) => Replayed(log, snapshots[i].agg, snapshots[i])
  /\ \A c \in Clients : \A i \in DOMAIN staged[c] :
       Unique(View(c), staged[c][i].agg) => Replayed(View(c), staged[c][i].agg, staged[c][i])

ContextsInv == HoldersInv /\ StreamsInv /\ ObjectsInv /\ SnapshotsInv

-----------------------------------------------------------------------------
(* Streams of a chained slice.                                              *)

\* What a chained slice says of an event.
LEMMA ChainedAt ==
  ASSUME NEW s \in Seq(Event), NEW a, Chained(s, a), NEW p \in DOMAIN s, s[p].agg = a
  PROVE  /\ s[p].seq \in Nat /\ s[p].seq >= 1 /\ p \in Nat /\ s[p] \in Event
         /\ \A q \in DOMAIN s : q < p /\ s[q].agg = s[p].agg => s[q].seq < s[p].seq
         /\ \A n \in 1 .. s[p].seq - 1 :
              \E q \in DOMAIN s : /\ q < p /\ s[q].agg = s[p].agg
                                 /\ s[q].seq = n /\ s[q].val = s[p].base[n]
<1>1. DOMAIN s = 1 .. Len(s) /\ Len(s) \in Nat /\ s[p] \in Event /\ p \in Nat OBVIOUS
<1>2. s[p].seq \in Nat /\ s[p].base \in Seq(Vals) BY <1>1 DEF Event, State
<1>3. Len(s[p].base) \in Nat BY <1>2
<1>4. s[p].seq = Len(s[p].base) + 1 BY DEF Chained, Fits
<1>5. s[p].seq - 1 = Len(s[p].base) /\ s[p].seq >= 1 BY <1>3, <1>4
<1> QED BY <1>1, <1>2, <1>5 DEF Chained, Fits

\* In particular all lower numbers are there.
LEMMA LowerNumbers ==
  ASSUME NEW s \in Seq(Event), NEW a, Chained(s, a), NEW p \in DOMAIN s, s[p].agg = a,
         NEW n \in 1 .. s[p].seq - 1
  PROVE  \E q \in DOMAIN s : s[q].agg = a /\ s[q].seq = n
BY ChainedAt

\* No number is used twice.
LEMMA OneOfANumber ==
  ASSUME NEW s \in Seq(Event), NEW a, Chained(s, a), NEW p \in DOMAIN s, NEW q \in DOMAIN s,
         s[p].agg = a, s[q].agg = a, s[p].seq = s[q].seq
  PROVE  p = q
<1>1. p \in Nat /\ q \in Nat /\ s[p].seq \in Nat BY ChainedAt
<1>2. ~(p < q) /\ ~(q < p) BY <1>1, ChainedAt
<1> QED BY <1>1, <1>2

\* The place of an event among those after m is its number less m.
LEMMA PlaceIs ==
  ASSUME NEW s \in Seq(Event), NEW a, Chained(s, a), NEW m \in Nat, NEW p \in After(s, a, m)
  PROVE  Cardinality({j \in After(s, a, m) : j <= p}) = s[p].seq - m
<1> DEFINE B == {j \in After(s, a, m) : j <= p}
           N == s[p].seq - m
           f == [j \in B |-> s[j].seq - m]
<1>1. p \in DOMAIN s /\ s[p].agg = a /\ s[p].seq > m BY DEF After
<1>2. DOMAIN s = 1 .. Len(s) /\ Len(s) \in Nat OBVIOUS
<1>3. s[p].seq \in Nat /\ p \in Nat /\ N \in Nat /\ N >= 1 BY <1>1, ChainedAt
<1>4. \A j \in B : /\ j \in DOMAIN s /\ s[j].agg = a /\ s[j].seq > m /\ j <= p
                   /\ j \in Nat /\ s[j].seq \in Nat
  BY ChainedAt DEF After
<1>5. IsFiniteSet(B)
  <2>1. B \in SUBSET (1 .. Len(s)) BY <1>2, <1>4
  <2> QED BY <1>2, <2>1, PositionsCount
<1>6. f \in [B -> 1 .. N]
  <2>1. ASSUME NEW j \in B PROVE s[j].seq - m \in 1 .. N
    <3>1. j \in DOMAIN s /\ s[j].agg = a BY <1>4
    <3>2. s[j].seq > m /\ j <= p /\ j \in Nat /\ s[j].seq \in Nat BY <1>4
    <3>3. s[j].seq <= s[p].seq
      <4>1. CASE j = p BY <1>3, <4>1
      <4>2. CASE j # p
        <5>1. j < p BY <1>3, <3>2, <4>2
        <5>2. s[j].seq < s[p].seq BY <1>1, <3>1, <5>1, ChainedAt
        <5> QED BY <1>3, <3>2, <5>2
      <4> QED BY <4>1, <4>2
    <3> QED BY <1>3, <3>2, <3>3
  <2> QED BY <2>1
<1>7. \A i, j \in B : f[i] = f[j] => i = j
  <2>1. ASSUME NEW i \in B, NEW j \in B, f[i] = f[j] PROVE i = j
    <3>1. s[i].seq = s[j].seq BY <1>4, <2>1
    <3> QED BY <1>4, <3>1, OneOfANumber
  <2> QED BY <2>1
<1>8. \A x \in 1 .. N : \E j \in B : f[j] = x
  <2>1. ASSUME NEW x \in 1 .. N PROVE \E j \in B : s[j].seq = m + x
    <3>1. CASE x = N
      <4>1. p \in B /\ s[p].seq = m + x BY <1>3, <3>1
      <4> QED BY <4>1
    <3>2. CASE x # N
      <4>1. m + x \in 1 .. s[p].seq - 1 BY <1>3, <3>2
      <4>2. PICK q \in DOMAIN s : q < p /\ s[q].agg = s[p].agg /\ s[q].seq = m + x
        BY <1>1, <4>1, ChainedAt
      <4>3. q \in B BY <1>1, <1>2, <1>3, <4>2 DEF After
      <4> QED BY <4>2, <4>3
    <3> QED BY <3>1, <3>2
  <2>2. \A j \in B, x \in 1 .. N : s[j].seq = m + x => f[j] = x BY <1>4
  <2> QED BY <2>1, <2>2
<1> HIDE DEF f
<1>9. f \in Bijection(B, 1 .. N)
  BY <1>6, <1>7, <1>8 DEF Bijection, Injection, IsInjective, Surjection
<1> HIDE DEF B, N
<1>10. Cardinality(1 .. N) = Cardinality(B) BY <1>5, <1>9, FS_Bijection DEF ExistsBijection
<1>11. Cardinality(1 .. N) = N
  <2>1. \A n \in Nat : n >= 1 => Cardinality(1 .. n) = n BY FS_Interval
  <2> QED BY <1>3, <2>1
<1> QED BY <1>10, <1>11 DEF B, N

\* A stream is numbered 1, 2, 3, ... up to its length.
LEMMA StreamIs ==
  ASSUME NEW s \in Seq(Event), NEW a, Chained(s, a)
  PROVE  LET N == Cardinality(After(s, a, 0))
         IN /\ N \in Nat /\ EndsBy(s, a, N)
            /\ \A n \in 1 .. N : \E p \in DOMAIN s : s[p].agg = a /\ s[p].seq = n
            /\ \A m \in 0 .. N : Cardinality(After(s, a, m)) = N - m
<1> DEFINE own == After(s, a, 0)
           N == Cardinality(own)
<1>1. DOMAIN s = 1 .. Len(s) /\ Len(s) \in Nat OBVIOUS
<1>2. own \in SUBSET (1 .. Len(s)) BY <1>1 DEF After
<1>3. \A p \in DOMAIN s : s[p].agg = a => p \in own BY ChainedAt DEF After
<1>4. \A p \in own : p \in DOMAIN s /\ s[p].agg = a BY DEF After
<1>5. CASE own = {}
  <2>1. N = 0 BY <1>5, FS_EmptySet
  <2>2. \A p \in DOMAIN s : s[p].agg # a BY <1>3, <1>5
  <2>3. After(s, a, 0) = {} BY <1>5
  <2>4. \A m \in 0 .. N : m = 0 BY <2>1
  <2>5. EndsBy(s, a, N) BY <2>2 DEF EndsBy
  <2> QED BY <2>1, <2>4, <2>5
<1>6. CASE own # {}
  <2>1. PICK last \in own : \A i \in own : i <= last BY <1>1, <1>2, <1>6, LastPosition
  <2>2. last \in DOMAIN s /\ s[last].agg = a /\ s[last].seq \in Nat /\ s[last].seq >= 1
    BY <1>4, ChainedAt
  <2>3. ASSUME NEW m \in Nat, m < s[last].seq
        PROVE  Cardinality(After(s, a, m)) = s[last].seq - m
    <3>1. last \in After(s, a, m) BY <2>2, <2>3 DEF After
    <3>2. \A j \in After(s, a, m) : j <= last
      <4>1. \A j \in After(s, a, m) : j \in own BY <1>3 DEF After
      <4> QED BY <2>1, <4>1
    <3>3. {j \in After(s, a, m) : j <= last} = After(s, a, m) BY <3>2
    <3> QED BY <3>1, <3>3, PlaceIs
  <2>4. N = s[last].seq
    <3>1. 0 \in Nat /\ 0 < s[last].seq BY <2>2
    <3>2. Cardinality(After(s, a, 0)) = s[last].seq - 0 BY <2>3, <3>1
    <3> QED BY <2>2, <3>2
  <2> HIDE DEF N
  <2>5. ASSUME NEW p \in DOMAIN s, s[p].agg = a PROVE s[p].seq <= N
    <3>1. p \in own /\ p <= last BY <1>3, <2>1, <2>5
    <3>2. p \in Nat /\ last \in Nat /\ s[p].seq \in Nat BY <2>2, <2>5, ChainedAt
    <3>3. CASE p = last BY <2>2, <2>4, <3>3
    <3>4. CASE p # last
      <4>1. p < last BY <3>1, <3>2, <3>4
      <4>2. s[p].seq < s[last].seq BY <2>2, <2>5, <4>1, ChainedAt
      <4> QED BY <2>2, <2>4, <3>2, <4>2
    <3> QED BY <3>3, <3>4
  <2>6. EndsBy(s, a, N) BY <2>5 DEF EndsBy
  <2>7. ASSUME NEW n \in 1 .. N PROVE \E p \in DOMAIN s : s[p].agg = a /\ s[p].seq = n
    <3>1. CASE n = N BY <2>2, <2>4, <3>1
    <3>2. CASE n # N
      <4>1. n \in 1 .. s[last].seq - 1 BY <2>2, <2>4, <3>2
      <4>2. \E q \in DOMAIN s : s[q].agg = s[last].agg /\ s[q].seq = n
        BY <2>2, <4>1, ChainedAt
      <4> QED BY <2>2, <4>2
    <3> QED BY <3>1, <3>2
  <2>8. ASSUME NEW m \in 0 .. N PROVE Cardinality(After(s, a, m)) = N - m
    <3>1. m \in Nat OBVIOUS
    <3>2. CASE m < N BY <2>3, <2>4, <3>1, <3>2
    <3>3. CASE ~(m < N)
      <4>1. m = N BY <2>2, <2>4, <3>3
      <4>2. After(s, a, m) = {}
        <5>1. \A p \in DOMAIN s : s[p].agg = a => ~(s[p].seq > N)
          BY <2>2, <2>4, <2>5, ChainedAt
        <5> QED BY <4>1, <5>1 DEF After
      <4> QED BY <2>2, <2>4, <4>1, <4>2, FS_EmptySet
    <3> QED BY <3>2, <3>3
  <2>9. N \in Nat BY <2>2, <2>4
  <2> QED BY <2>6, <2>7, <2>8, <2>9 DEF N
<1> QED BY <1>5, <1>6

\* K is what stream a of slice s, of N events, has after m.
Rest(s, a, N, m, K) ==
  /\ N \in Nat /\ K \in Seq(Event) /\ Len(K) = N - m
  /\ \A k \in 1 .. N - m :
       \E p \in DOMAIN s : K[k] = s[p] /\ s[p].agg = a /\ s[p].seq = m + k

\* A loop over a chained slice keeps that.
LEMMA RestIs ==
  ASSUME NEW s \in Seq(Event), NEW a, Chained(s, a),
         NEW N, N = Cardinality(After(s, a, 0)), NEW m \in 0 .. N
  PROVE  Rest(s, a, N, m, Kept(s, After(s, a, m)))
<1> DEFINE S == After(s, a, m)
<1>1. N \in Nat /\ Cardinality(S) = N - m BY StreamIs
<1>2. m \in Nat /\ S \in SUBSET DOMAIN s BY <1>1 DEF After
<1>3. ASSUME NEW k \in 1 .. N - m
      PROVE  \E p \in DOMAIN s : Kept(s, S)[k] = s[p] /\ s[p].agg = a /\ s[p].seq = m + k
  <2> DEFINE p == NthOf(S, k)
  <2>1. Kept(s, S)[k] = s[p] /\ p \in S /\ Cardinality({j \in S : j <= p}) = k
    BY <1>1, <1>2, KeptIs
  <2> HIDE DEF p
  <2>2. Cardinality({j \in S : j <= p}) = s[p].seq - m BY <1>2, <2>1, PlaceIs
  <2>3. p \in DOMAIN s /\ s[p].agg = a BY <2>1 DEF After
  <2>4. s[p].seq \in Nat BY <2>3, ChainedAt
  <2>5. s[p].seq = m + k BY <1>2, <2>1, <2>2, <2>4
  <2> QED BY <2>1, <2>3, <2>5
<1>4. Kept(s, S) \in Seq(Event) /\ Len(Kept(s, S)) = Cardinality(S) BY <1>2, KeptIs
<1> QED BY <1>1, <1>3, <1>4 DEF Rest

\* A replay of the whole log: as many events as the stream has, and their payloads.
LEMMA StreamPayloads ==
  ASSUME TypeOK, NEW a \in Ids, Chained(log, a)
  PROVE  LET N == Cardinality(After(log, a, 0))
         IN /\ N \in Nat /\ Len(StreamOf(a)) = N
            /\ \A k \in 1 .. N :
                 \E p \in DOMAIN log : StreamOf(a)[k] = log[p] /\ log[p].agg = a /\ log[p].seq = k
<1> DEFINE N == Cardinality(After(log, a, 0))
<1>1. log \in Seq(Event) BY DEF TypeOK
<1>2. {i \in DOMAIN log : log[i].agg = a} = After(log, a, 0)
  <2>1. \A p \in DOMAIN log : log[p].agg = a => log[p].seq > 0 BY <1>1, ChainedAt
  <2> QED BY <2>1 DEF After
<1>3. StreamOf(a) = Kept(log, After(log, a, 0)) BY <1>2 DEF StreamOf
<1>4. N \in Nat BY <1>1, StreamIs
<1>5. 0 \in 0 .. N BY <1>4
<1>6. Rest(log, a, N, 0, StreamOf(a)) BY <1>1, <1>3, <1>5, RestIs
<1> HIDE DEF N
<1>7. N - 0 = N /\ \A k \in 1 .. N : k \in 1 .. N - 0 /\ 0 + k = k BY <1>4
<1>8. Len(StreamOf(a)) = N BY <1>6, <1>7 DEF Rest
<1>9. \A k \in 1 .. N :
        \E p \in DOMAIN log : StreamOf(a)[k] = log[p] /\ log[p].agg = a /\ log[p].seq = k
  BY <1>6, <1>7 DEF Rest
<1> QED BY <1>4, <1>8, <1>9 DEF N

\* The snapshot that a load goes through is a replay of events that are in the log.
LEMMA SnapshotReplayed ==
  ASSUME TypeOK, StreamsInv, SnapshotsInv, NEW a \in Ids, Unique(log, a)
  PROVE  LET s == LastSnapshot(a)
         IN s \in Snapshot /\ Replayed(log, a, s) /\ s.seq \in 0 .. Cardinality(After(log, a, 0))
<1> DEFINE s == LastSnapshot(a)
           N == Cardinality(After(log, a, 0))
<1>1. s \in Snapshot /\ s.agg = a BY LastSnapshotIs
<1>2. log \in Seq(Event) /\ Chained(log, a) BY DEF TypeOK, StreamsInv
<1>3. N \in Nat /\ EndsBy(log, a, N) BY <1>2, StreamIs
<1>4. CASE s.seq = 0 /\ s.state = <<>> BY <1>1, <1>3, <1>4 DEF Replayed
<1>5. CASE \E i \in DOMAIN snapshots : s = snapshots[i]
  <2>1. Replayed(log, a, s) BY <1>1, <1>5 DEF SnapshotsInv
  <2>2. s.seq \in Nat BY <1>1 DEF Snapshot
  <2>3. s.seq # 0 => \E p \in DOMAIN log : log[p].agg = a /\ log[p].seq = s.seq
    <3>1. s.seq # 0 => s.seq \in 1 .. s.seq BY <2>2
    <3> HIDE DEF s
    <3> QED BY <2>1, <3>1 DEF Replayed
  <2>4. s.seq # 0 => s.seq <= N BY <1>3, <2>3 DEF EndsBy
  <2>5. s.seq \in 0 .. N BY <1>3, <2>2, <2>4
  <2> QED BY <1>1, <2>1, <2>5
<1> QED BY <1>4, <1>5, LastSnapshotIs

\* A load gives what replaying the whole stream gives.
LEMMA LoadedIs ==
  ASSUME TypeOK, StreamsInv, SnapshotsInv, NEW a \in Ids, Unique(log, a)
  PROVE  /\ Loaded(a) = [seq |-> Len(StreamOf(a)),
                         state |-> [i \in DOMAIN StreamOf(a) |-> StreamOf(a)[i].val]]
         /\ Replayed(log, a, Loaded(a))
<1> DEFINE s == LastSnapshot(a)
           m == s.seq
           N == Cardinality(After(log, a, 0))
           es == EventsAfter(a, m)
           tail == [i \in 1 .. Len(es) |-> es[i].val]
           st == s.state \o tail
           whole == StreamOf(a)
<1>1. log \in Seq(Event) /\ Chained(log, a) BY DEF TypeOK, StreamsInv
<1>2. s \in Snapshot /\ Replayed(log, a, s) /\ m \in 0 .. N BY SnapshotReplayed
<1>3. /\ N \in Nat /\ es \in Seq(Event) /\ Len(es) = N - m
      /\ \A k \in 1 .. N - m :
           \E p \in DOMAIN log : es[k] = log[p] /\ log[p].agg = a /\ log[p].seq = m + k
  <2>1. N = Cardinality(After(log, a, 0)) /\ es = Kept(log, After(log, a, m))
    BY DEF EventsAfter
  <2> HIDE DEF s, m, N, es, tail, st, whole
  <2>2. Rest(log, a, N, m, es) BY <1>1, <1>2, <2>1, RestIs
  <2> QED BY <2>2 DEF Rest
<1>4. /\ Len(whole) = N
      /\ \A k \in 1 .. N :
           \E p \in DOMAIN log : whole[k] = log[p] /\ log[p].agg = a /\ log[p].seq = k
  BY <1>1, StreamPayloads
<1>5. whole \in Seq(Event)
  <2>1. {i \in DOMAIN log : log[i].agg = a} \in SUBSET DOMAIN log OBVIOUS
  <2> QED BY <1>1, <2>1, KeptIs DEF StreamOf
<1>6. /\ s.state \in Seq(Vals) /\ Len(s.state) = m /\ m \in Nat
      /\ \A k \in 1 .. m :
           \E p \in DOMAIN log : log[p].agg = a /\ log[p].seq = k /\ log[p].val = s.state[k]
  BY <1>2 DEF Snapshot, State, Replayed
<1>7. Loaded(a) = [seq |-> IF es = <<>> THEN m ELSE Last(es).seq, state |-> st] BY DEF Loaded
<1> HIDE DEF s, m, N, es, whole
<1>8. tail \in Seq(Vals) /\ Len(tail) = N - m
  <2>1. \A i \in 1 .. Len(es) : es[i] \in Event BY <1>3
  <2>2. \A i \in 1 .. Len(es) : es[i].val \in Vals BY <2>1 DEF Event
  <2>3. N - m \in Nat BY <1>2, <1>3
  <2>4. tail \in [1 .. N - m -> Vals] BY <1>3, <2>2
  <2> HIDE DEF tail
  <2> QED BY <2>3, <2>4
<1>9. \A k \in 1 .. N - m : tail[k] = es[k].val BY <1>3
<1>10. st \in Seq(Vals) /\ Len(st) = N
  <2> HIDE DEF tail
  <2>1. st \in Seq(Vals) /\ Len(st) = Len(s.state) + Len(tail)
    <3>1. \A x, y \in Seq(Vals) : x \o y \in Seq(Vals) /\ Len(x \o y) = Len(x) + Len(y)
      OBVIOUS
    <3> QED BY <1>6, <1>8, <3>1
  <2>2. m + (N - m) = N BY <1>3, <1>6
  <2> QED BY <1>6, <1>8, <2>1, <2>2
<1>11. ASSUME NEW k \in 1 .. N
       PROVE  \E p \in DOMAIN log : log[p].agg = a /\ log[p].seq = k /\ log[p].val = st[k]
  <2> HIDE DEF tail
  <2>1. CASE k <= m
    <3>1. k \in 1 .. m /\ st[k] = s.state[k] BY <1>2, <1>3, <1>6, <1>8, <2>1
    <3> QED BY <1>6, <3>1
  <2>2. CASE ~(k <= m)
    <3>1. k - m \in 1 .. N - m /\ m + (k - m) = k BY <1>2, <1>3, <1>6, <2>2
    <3>2. st[k] = tail[k - m] BY <1>2, <1>3, <1>6, <1>8, <2>2
    <3>3. PICK p \in DOMAIN log : es[k - m] = log[p] /\ log[p].agg = a /\ log[p].seq = m + (k - m)
      BY <1>3, <3>1
    <3> QED BY <1>9, <3>1, <3>2, <3>3
  <2> QED BY <2>1, <2>2
<1> HIDE DEF st
<1>12. (IF es = <<>> THEN m ELSE Last(es).seq) = N
  <2>1. CASE es = <<>>
    <3>1. Len(es) = 0 BY <2>1
    <3> QED BY <1>3, <1>6, <2>1, <3>1
  <2>2. CASE es # <<>>
    <3>1. Len(es) # 0 BY <1>3, <2>2
    <3>2. N - m \in 1 .. N - m /\ m + (N - m) = N BY <1>2, <1>3, <1>6, <3>1
    <3>3. es[N - m].seq = m + (N - m) BY <1>3, <3>2
    <3>4. Last(es) = es[N - m] BY <1>3 DEF Last
    <3> QED BY <2>2, <3>2, <3>3, <3>4
  <2> QED BY <2>1, <2>2
<1>13. Loaded(a) = [seq |-> N, state |-> st] BY <1>7, <1>12
<1>14. st = [i \in DOMAIN whole |-> whole[i].val]
  <2>1. DOMAIN whole = 1 .. N /\ DOMAIN st = 1 .. N BY <1>4, <1>5, <1>10
  <2>2. ASSUME NEW k \in 1 .. N PROVE st[k] = whole[k].val
    <3>1. PICK p \in DOMAIN log : log[p].agg = a /\ log[p].seq = k /\ log[p].val = st[k] BY <1>11
    <3>2. PICK q \in DOMAIN log : whole[k] = log[q] /\ log[q].agg = a /\ log[q].seq = k BY <1>4
    <3>3. p = q BY <1>1, <3>1, <3>2, OneOfANumber
    <3> QED BY <3>1, <3>2, <3>3
  <2>3. st = [k \in 1 .. N |-> st[k]] BY <1>10, <2>1
  <2> QED BY <2>1, <2>2, <2>3
<1>15. Replayed(log, a, Loaded(a)) BY <1>10, <1>11, <1>13 DEF Replayed
<1> QED BY <1>4, <1>13, <1>14, <1>15 DEF whole

-----------------------------------------------------------------------------
(* Slices that grow.                                                        *)

\* Slice z is x and then y: where its elements come from and where they go.
Joined(x, y, z) ==
  /\ Len(x) \in Nat /\ Len(y) \in Nat
  /\ DOMAIN x = 1 .. Len(x) /\ DOMAIN y = 1 .. Len(y) /\ DOMAIN z = 1 .. Len(x) + Len(y)
  /\ Len(z) = Len(x) + Len(y)
  /\ \A n \in DOMAIN x : n \in DOMAIN z /\ z[n] = x[n]
  /\ \A n \in DOMAIN y : Len(x) + n \in DOMAIN z /\ z[Len(x) + n] = y[n]
  /\ \A n \in DOMAIN z : n \notin DOMAIN x =>
       n - Len(x) \in DOMAIN y /\ z[n] = y[n - Len(x)] /\ n = Len(x) + (n - Len(x))

\* append of a slice.
LEMMA JoinedAt ==
  ASSUME NEW S, NEW x \in Seq(S), NEW y \in Seq(S), NEW z, z = x \o y
  PROVE  z \in Seq(S) /\ Joined(x, y, z)
<1>1. /\ z \in Seq(S) /\ Len(z) = Len(x) + Len(y) /\ Len(x) \in Nat /\ Len(y) \in Nat
      /\ DOMAIN x = 1 .. Len(x) /\ DOMAIN y = 1 .. Len(y)
  OBVIOUS
<1>2. DOMAIN z = 1 .. Len(x) + Len(y) BY <1>1
<1>3. \A n \in DOMAIN x : n \in DOMAIN z /\ z[n] = x[n] BY <1>1, <1>2
<1>4. \A n \in DOMAIN y : Len(x) + n \in DOMAIN z /\ z[Len(x) + n] = y[n] BY <1>1, <1>2
<1>5. ASSUME NEW n \in DOMAIN z, n \notin DOMAIN x
      PROVE  n - Len(x) \in DOMAIN y /\ z[n] = y[n - Len(x)] /\ n = Len(x) + (n - Len(x))
  BY <1>1, <1>2, <1>5
<1> QED BY <1>1, <1>2, <1>3, <1>4, <1>5 DEF Joined

\* An event fits in another slice in which the same events of its stream come before it.
LEMMA FitsMoved ==
  ASSUME NEW s, NEW t, NEW p \in DOMAIN s, NEW r \in DOMAIN t, Fits(s, p), t[r] = s[p],
         \A q \in DOMAIN t : q < r /\ t[q].agg = t[r].agg => \E u \in DOMAIN s : u < p /\ s[u] = t[q],
         \A u \in DOMAIN s : u < p => \E q \in DOMAIN t : q < r /\ t[q] = s[u]
  PROVE  Fits(t, r)
<1>1. t[r].seq = Len(t[r].base) + 1 BY DEF Fits
<1>2. ASSUME NEW q \in DOMAIN t, q < r, t[q].agg = t[r].agg PROVE t[q].seq < t[r].seq
  <2>1. PICK u \in DOMAIN s : u < p /\ s[u] = t[q] BY <1>2
  <2> QED BY <1>2, <2>1 DEF Fits
<1>3. ASSUME NEW n \in 1 .. Len(t[r].base)
      PROVE  \E q \in DOMAIN t : /\ q < r /\ t[q].agg = t[r].agg
                                /\ t[q].seq = n /\ t[q].val = t[r].base[n]
  <2>1. PICK u \in DOMAIN s : /\ u < p /\ s[u].agg = s[p].agg
                             /\ s[u].seq = n /\ s[u].val = s[p].base[n]
    BY DEF Fits
  <2>2. PICK q \in DOMAIN t : q < r /\ t[q] = s[u] BY <2>1
  <2> QED BY <2>1, <2>2
<1> QED BY <1>1, <1>2, <1>3 DEF Fits

\* A replay stays one in another slice with its events.
LEMMA ReplayedMoved ==
  ASSUME NEW s, NEW t, NEW b, NEW o, Replayed(s, b, o),
         \A n \in DOMAIN s : \E m \in DOMAIN t : t[m] = s[n]
  PROVE  Replayed(t, b, o)
<1>1. Len(o.state) = o.seq BY DEF Replayed
<1>2. ASSUME NEW n \in 1 .. o.seq
      PROVE  \E p \in DOMAIN t : t[p].agg = b /\ t[p].seq = n /\ t[p].val = o.state[n]
  <2>1. PICK p \in DOMAIN s : s[p].agg = b /\ s[p].seq = n /\ s[p].val = o.state[n] BY DEF Replayed
  <2>2. PICK q \in DOMAIN t : t[q] = s[p] OBVIOUS
  <2> QED BY <2>1, <2>2
<1> QED BY <1>1, <1>2 DEF Replayed

\* Numbers that are used once in a slice are used once in the beginning of it.
LEMMA UniqueHead ==
  ASSUME NEW s, NEW t, NEW a, Unique(t, a), \A n \in DOMAIN s : n \in DOMAIN t /\ t[n] = s[n]
  PROVE  Unique(s, a)
<1> SUFFICES ASSUME NEW m \in DOMAIN s, NEW n \in DOMAIN s,
                    s[m].agg = a, s[n].agg = a, s[m].seq = s[n].seq
             PROVE  m = n
  BY DEF Unique
<1> QED BY DEF Unique

\* Slice t is s with one event at its end, by which state st of stream a becomes new.
OneMore(s, t, last, a, n, st, new) ==
  /\ Len(st) = n /\ t[last].agg = a /\ t[last].seq = n + 1 /\ t[last].base = st
  /\ Len(new) = n + 1 /\ new[n + 1] = t[last].val /\ \A k \in 1 .. n : new[k] = st[k]
  /\ \A p \in DOMAIN s : /\ p \in DOMAIN t /\ t[p] = s[p] /\ p < last /\ ~(last < p)
                         /\ s[p].seq \in Nat
  /\ last \in DOMAIN t /\ \A p \in DOMAIN t : p = last \/ p \in DOMAIN s
  /\ ~(last < last)

\* Such an event fits.
LEMMA AppliedFits ==
  ASSUME NEW s, NEW t, NEW last, NEW a, NEW n \in Nat, NEW st, NEW new,
         Replayed(s, a, [seq |-> n, state |-> st]), EndsBy(s, a, n),
         OneMore(s, t, last, a, n, st, new)
  PROVE  Fits(t, last) /\ Replayed(t, a, [seq |-> n + 1, state |-> new])
<1> USE DEF OneMore
<1>1. \A k \in 1 .. n :
        \E p \in DOMAIN s : s[p].agg = a /\ s[p].seq = k /\ s[p].val = st[k]
  BY DEF Replayed
<1>2. \A p \in DOMAIN s : s[p].agg = a => s[p].seq < n + 1 /\ s[p].seq <= n + 1 BY DEF EndsBy
<1>3. Fits(t, last)
  <2>1. t[last].seq = Len(t[last].base) + 1 OBVIOUS
  <2>2. ASSUME NEW q \in DOMAIN t, q < last, t[q].agg = a PROVE t[q].seq < n + 1
    <3>1. q \in DOMAIN s /\ t[q] = s[q] BY <2>2
    <3> QED BY <1>2, <2>2, <3>1
  <2>3. ASSUME NEW k \in 1 .. n
        PROVE  \E q \in DOMAIN t : /\ q < last /\ t[q].agg = a
                                  /\ t[q].seq = k /\ t[q].val = st[k]
    <3>1. PICK p \in DOMAIN s : s[p].agg = a /\ s[p].seq = k /\ s[p].val = st[k] BY <1>1
    <3>2. p \in DOMAIN t /\ t[p] = s[p] /\ p < last OBVIOUS
    <3> QED BY <3>1, <3>2
  <2> QED BY <2>1, <2>2, <2>3 DEF Fits
<1>4. ASSUME NEW k \in 1 .. n + 1
      PROVE  \E p \in DOMAIN t : t[p].agg = a /\ t[p].seq = k /\ t[p].val = new[k]
  <2>1. CASE k = n + 1 BY <2>1
  <2>2. CASE k # n + 1
    <3>1. k \in 1 .. n BY <2>2
    <3>2. PICK p \in DOMAIN s : s[p].agg = a /\ s[p].seq = k /\ s[p].val = st[k] BY <1>1, <3>1
    <3>3. p \in DOMAIN t /\ t[p] = s[p] /\ new[k] = st[k] BY <3>1
    <3> QED BY <3>2, <3>3
  <2> QED BY <2>1, <2>2
<1>5. Replayed(t, a, [seq |-> n + 1, state |-> new]) BY <1>4 DEF Replayed
<1> QED BY <1>3, <1>5

\* And the others still do.
LEMMA OthersFit ==
  ASSUME NEW s, NEW t, NEW last, NEW p \in DOMAIN s, Fits(s, p),
         \A q \in DOMAIN s : q \in DOMAIN t /\ t[q] = s[q] /\ q < last /\ ~(last < q),
         \A q \in DOMAIN t : q = last \/ q \in DOMAIN s
  PROVE  Fits(t, p)
<1>1. p \in DOMAIN t /\ t[p] = s[p] OBVIOUS
<1>2. \A q \in DOMAIN t : q < p => q \in DOMAIN s /\ t[q] = s[q] OBVIOUS
<1>3. \A q \in DOMAIN t : q < p /\ t[q].agg = t[p].agg => \E u \in DOMAIN s : u < p /\ s[u] = t[q]
  BY <1>2
<1>4. \A u \in DOMAIN s : u < p => \E q \in DOMAIN t : q < p /\ t[q] = s[u] OBVIOUS
<1> QED BY <1>1, <1>3, <1>4, FitsMoved

\* Slice t has one event of stream a more than s, and now n is a's state.
Applied(s, t, a, n) ==
  /\ Unique(t, a) => Chained(t, a) /\ Replayed(t, a, n)
  /\ \A b \in Ids : b # a /\ Chained(s, b) => Chained(t, b)
  /\ \A p \in DOMAIN s : p \in DOMAIN t /\ t[p] = s[p]

\* ApplyEventTo, with the slice that ends in what the context has captured.  If another
\* event has the number of the new one, then the object was behind, and the number is
\* used twice.
LEMMA ChainedAppend ==
  ASSUME NEW s \in Seq(Event), NEW a \in Ids, NEW o \in Object, NEW v \in Vals,
         Unique(s, a) => Chained(s, a) /\ Replayed(s, a, o),
         NEW e, e = [agg |-> a, seq |-> o.seq + 1, val |-> v, base |-> o.state],
         NEW t, t = Append(s, e), NEW n, n = [seq |-> o.seq + 1, state |-> Append(o.state, v)]
  PROVE  Applied(s, t, a, n)
<1> DEFINE last == Len(s) + 1
           new == Append(o.state, v)
<1>1. /\ o.seq \in Nat /\ o.state \in Seq(Vals)
      /\ o = [seq |-> o.seq, state |-> o.state]
  BY DEF Object, State
<1>2. e \in Event /\ e.agg = a /\ e.seq = o.seq + 1 /\ e.val = v /\ e.base = o.state
  BY <1>1 DEF Event, State
<1>3. /\ last \in DOMAIN t /\ last \in Nat /\ t[last] = e
      /\ \A p \in DOMAIN s : p \in DOMAIN t /\ t[p] = s[p] /\ p < last /\ ~(last < p)
      /\ \A p \in DOMAIN t : p = last \/ p \in DOMAIN s
  BY <1>2
<1>4. \A p \in DOMAIN s : s[p].seq \in Nat
  <2>1. \A p \in DOMAIN s : s[p] \in Event OBVIOUS
  <2> QED BY <2>1 DEF Event
<1>5. /\ Len(new) = Len(o.state) + 1 /\ new[Len(o.state) + 1] = v
      /\ \A k \in 1 .. Len(o.state) : new[k] = o.state[k]
  BY <1>1
<1>6. ~(last < last) BY <1>3
<1> HIDE DEF last, new
<1>7. ASSUME Unique(t, a)
      PROVE  Chained(t, a) /\ Replayed(t, a, [seq |-> o.seq + 1, state |-> new])
  <2>1. Unique(s, a) BY <1>3, <1>7, UniqueHead
  <2>2. Chained(s, a) /\ Replayed(s, a, o) /\ Len(o.state) = o.seq BY <2>1 DEF Replayed
  <2>3. EndsBy(s, a, o.seq)
    <3> SUFFICES ASSUME NEW p \in DOMAIN s, s[p].agg = a, ~(s[p].seq <= o.seq) PROVE FALSE
      BY DEF EndsBy
    <3>1. s[p].seq >= o.seq + 1 BY <1>1, <1>4
    <3>2. \E q \in DOMAIN s : s[q].agg = a /\ s[q].seq = o.seq + 1
      <4>1. CASE s[p].seq = o.seq + 1 BY <4>1
      <4>2. CASE s[p].seq # o.seq + 1
        <5>1. o.seq + 1 \in 1 .. s[p].seq - 1 BY <1>1, <1>4, <3>1, <4>2
        <5> QED BY <2>2, <5>1, ChainedAt
      <4> QED BY <4>1, <4>2
    <3>3. PICK q \in DOMAIN s : s[q].agg = a /\ s[q].seq = o.seq + 1 BY <3>2
    <3>4. q \in DOMAIN t /\ t[q].agg = a /\ t[q].seq = t[last].seq /\ t[last].agg = a
      BY <1>2, <1>3, <3>3
    <3>5. q = last BY <1>3, <1>7, <3>4 DEF Unique
    <3> QED BY <1>3, <1>6, <3>5
  <2>4. OneMore(s, t, last, a, o.seq, o.state, new)
    BY <1>1, <1>2, <1>3, <1>4, <1>5, <1>6, <2>2 DEF OneMore
  <2>5. Replayed(s, a, [seq |-> o.seq, state |-> o.state]) BY <1>1, <2>2
  <2>6. Fits(t, last) /\ Replayed(t, a, [seq |-> o.seq + 1, state |-> new])
    BY <1>1, <2>3, <2>4, <2>5, AppliedFits
  <2>7. ASSUME NEW p \in DOMAIN t, t[p].agg = a PROVE Fits(t, p)
    <3>1. CASE p = last BY <2>6, <3>1
    <3>2. CASE p \in DOMAIN s
      <4>1. Fits(s, p) BY <1>3, <2>2, <2>7, <3>2 DEF Chained
      <4> QED BY <1>3, <3>2, <4>1, OthersFit
    <3> QED BY <1>3, <3>1, <3>2
  <2> QED BY <2>6, <2>7 DEF Chained
<1>8. ASSUME NEW b \in Ids, b # a, Chained(s, b) PROVE Chained(t, b)
  <2> SUFFICES ASSUME NEW p \in DOMAIN t, t[p].agg = b PROVE Fits(t, p) BY DEF Chained
  <2>1. p \in DOMAIN s /\ t[p] = s[p] BY <1>2, <1>3, <1>8
  <2>2. Fits(s, p) BY <1>8, <2>1 DEF Chained
  <2> QED BY <1>3, <2>1, <2>2, OthersFit
<1>9. n = [seq |-> o.seq + 1, state |-> new] BY DEF new
<1> QED BY <1>3, <1>7, <1>8, <1>9 DEF Applied

\* Slice w is lx with more of ly at its end, where g puts it; of stream a there is
\* nothing in lx that ly has not, if there is more.
Between(w, lx, ly, g, a) ==
  /\ \A n \in DOMAIN lx : n \in DOMAIN w /\ w[n] = lx[n]
  /\ \A n \in DOMAIN lx : \A m \in DOMAIN w : m < n => m \in DOMAIN lx
  /\ \A n \in DOMAIN ly : g[n] \in DOMAIN w /\ w[g[n]] = ly[n]
  /\ \A n \in DOMAIN ly : \A m \in DOMAIN ly : m < n => g[m] < g[n]
  /\ \A n \in DOMAIN w : n \notin DOMAIN lx => \E r \in DOMAIN ly : n = g[r]
  /\ \A r \in DOMAIN ly : \A q \in DOMAIN w :
       g[r] \notin DOMAIN lx /\ ly[r].agg = a /\ q < g[r] /\ w[q].agg = a =>
         \E u \in DOMAIN ly : u < r /\ ly[u] = w[q]

\* Then stream a of it is chained.
LEMMA FitsBetween ==
  ASSUME NEW w, NEW lx, NEW ly, NEW g, NEW a, Chained(lx, a), Chained(ly, a),
         Between(w, lx, ly, g, a)
  PROVE  Chained(w, a)
<1> USE DEF Between
<1> SUFFICES ASSUME NEW p \in DOMAIN w, w[p].agg = a PROVE Fits(w, p) BY DEF Chained
<1>1. CASE p \in DOMAIN lx
  <2>1. Fits(lx, p) /\ w[p] = lx[p] BY <1>1 DEF Chained
  <2>2. \A q \in DOMAIN w : q < p /\ w[q].agg = w[p].agg => \E u \in DOMAIN lx : u < p /\ lx[u] = w[q]
    BY <1>1
  <2>3. \A u \in DOMAIN lx : u < p => \E q \in DOMAIN w : q < p /\ w[q] = lx[u] OBVIOUS
  <2> QED BY <1>1, <2>1, <2>2, <2>3, FitsMoved
<1>2. CASE p \notin DOMAIN lx
  <2>1. PICK r \in DOMAIN ly : p = g[r] BY <1>2
  <2>2. Fits(ly, r) /\ w[p] = ly[r] BY <2>1 DEF Chained
  <2>3. \A q \in DOMAIN w : q < p /\ w[q].agg = w[p].agg => \E u \in DOMAIN ly : u < r /\ ly[u] = w[q]
    BY <1>2, <2>1, <2>2
  <2>4. ASSUME NEW u \in DOMAIN ly, u < r PROVE \E q \in DOMAIN w : q < p /\ w[q] = ly[u]
    <3>1. g[u] \in DOMAIN w /\ w[g[u]] = ly[u] /\ g[u] < p BY <2>1, <2>4
    <3> QED BY <3>1
  <2> QED BY <2>2, <2>3, <2>4, FitsMoved
<1> QED BY <1>1, <1>2

\* Slice w has all of ly, and its stream a is chained.
Overtaken(ly, w, a) ==
  /\ Unique(ly, a) /\ Chained(w, a)
  /\ \A n \in DOMAIN ly : \E m \in DOMAIN w : w[m] = ly[n]

\* Slice w is lx with what ly has after l at its end, where g puts the elements of ly.
Woven(l, lx, ly, w, g) ==
  /\ \A n \in DOMAIN lx : n \in DOMAIN w /\ w[n] = lx[n]
  /\ \A n \in DOMAIN lx : \A m \in DOMAIN w : m < n => m \in DOMAIN lx
  /\ \A n \in DOMAIN ly : g[n] \in DOMAIN w /\ w[g[n]] = ly[n]
  /\ \A n \in DOMAIN ly : \A m \in DOMAIN ly : (m < n => g[m] < g[n]) /\ (g[m] < g[n] => m < n)
  /\ \A n \in DOMAIN ly : \A m \in DOMAIN ly : g[m] = g[n] => m = n
  /\ \A n \in DOMAIN w : n \notin DOMAIN lx => \E r \in DOMAIN ly : r \notin DOMAIN l /\ n = g[r]
  /\ \A n \in DOMAIN l : n \in DOMAIN lx /\ n \in DOMAIN ly /\ lx[n] = ly[n] /\ g[n] = n
  /\ \A n \in DOMAIN ly : n \notin DOMAIN l =>
       g[n] \notin DOMAIN lx /\ \A m \in DOMAIN l : m < n

\* One context appends x to what another one, with captured events y, loaded from.
LEMMA AppendedAre ==
  ASSUME NEW l \in Seq(Event), NEW x \in Seq(Event), NEW y \in Seq(Event),
         NEW lx, lx = l \o x, NEW ly, ly = l \o y, NEW w, w = lx \o y
  PROVE  lx \in Seq(Event) /\ ly \in Seq(Event) /\ \E g : Woven(l, lx, ly, w, g)
<1>1. /\ lx \in Seq(Event) /\ Len(l) \in Nat /\ Len(x) \in Nat
      /\ DOMAIN l = 1 .. Len(l) /\ DOMAIN x = 1 .. Len(x) /\ DOMAIN lx = 1 .. Len(l) + Len(x)
      /\ Len(lx) = Len(l) + Len(x)
      /\ \A n \in DOMAIN l : n \in DOMAIN lx /\ lx[n] = l[n]
  BY JoinedAt DEF Joined
<1>2. /\ ly \in Seq(Event) /\ Len(y) \in Nat /\ DOMAIN y = 1 .. Len(y)
      /\ DOMAIN ly = 1 .. Len(l) + Len(y)
      /\ \A n \in DOMAIN l : n \in DOMAIN ly /\ ly[n] = l[n]
      /\ \A n \in DOMAIN y : Len(l) + n \in DOMAIN ly /\ ly[Len(l) + n] = y[n]
      /\ \A n \in DOMAIN ly : n \notin DOMAIN l => n - Len(l) \in DOMAIN y /\ ly[n] = y[n - Len(l)]
  BY JoinedAt DEF Joined
<1>3. /\ DOMAIN w = 1 .. Len(lx) + Len(y)
      /\ \A n \in DOMAIN lx : n \in DOMAIN w /\ w[n] = lx[n]
      /\ \A n \in DOMAIN y : Len(lx) + n \in DOMAIN w /\ w[Len(lx) + n] = y[n]
      /\ \A n \in DOMAIN w : n \notin DOMAIN lx =>
           n - Len(lx) \in DOMAIN y /\ w[n] = y[n - Len(lx)] /\ n = Len(lx) + (n - Len(lx))
  <2>1. lx \in Seq(Event) BY <1>1
  <2>2. Joined(lx, y, w) BY <2>1, JoinedAt
  <2> QED BY <2>2 DEF Joined
\* Where an event of the second context goes.
<1> DEFINE g == [n \in DOMAIN ly |-> IF n \in DOMAIN l THEN n ELSE n + Len(x)]
<1>4. \A n \in DOMAIN ly : IF n \in DOMAIN l THEN g[n] = n ELSE g[n] = n + Len(x) OBVIOUS
<1> HIDE DEF g
<1>5. \A n \in DOMAIN ly : g[n] \in DOMAIN w /\ w[g[n]] = ly[n]
  <2> SUFFICES ASSUME NEW n \in DOMAIN ly PROVE g[n] \in DOMAIN w /\ w[g[n]] = ly[n] OBVIOUS
  <2>1. CASE n \in DOMAIN l
    <3>1. g[n] = n BY <1>4, <2>1
    <3> QED BY <1>1, <1>2, <1>3, <2>1, <3>1
  <2>2. CASE n \notin DOMAIN l
    <3>1. n - Len(l) \in DOMAIN y /\ ly[n] = y[n - Len(l)] BY <1>2, <2>2
    <3>2. Len(lx) + (n - Len(l)) = n + Len(x) BY <1>1, <1>2
    <3>3. g[n] = n + Len(x) BY <1>4, <2>2
    <3> QED BY <1>3, <3>1, <3>2, <3>3
  <2> QED BY <2>1, <2>2
<1>6. \A n \in DOMAIN ly : \A m \in DOMAIN ly : (m < n => g[m] < g[n]) /\ (g[m] < g[n] => m < n)
  BY <1>1, <1>2, <1>4
<1>7. \A n \in DOMAIN ly : \A m \in DOMAIN ly : g[m] = g[n] => m = n
  <2> SUFFICES ASSUME NEW n \in DOMAIN ly, NEW m \in DOMAIN ly, g[m] = g[n] PROVE m = n OBVIOUS
  <2>1. m \in Nat /\ n \in Nat BY <1>2
  <2>2. g[n] \in 1 .. Len(lx) + Len(y) BY <1>3, <1>5
  <2>3. ~(g[n] < g[n]) BY <2>2
  <2>4. ~(m < n) /\ ~(n < m) BY <1>6, <2>3
  <2> QED BY <2>1, <2>4
<1>8. ASSUME NEW n \in DOMAIN w, n \notin DOMAIN lx
      PROVE  \E r \in DOMAIN ly : r \notin DOMAIN l /\ n = g[r]
  <2> DEFINE i == n - Len(lx)
             r == Len(l) + i
  <2>1. i \in DOMAIN y /\ n = Len(lx) + i BY <1>3, <1>8
  <2> HIDE DEF i
  <2>2. r \in DOMAIN ly BY <1>2, <2>1
  <2>3. r \notin DOMAIN l /\ n = r + Len(x) BY <1>1, <1>2, <2>1
  <2> HIDE DEF r
  <2>4. n = g[r] BY <1>4, <2>2, <2>3
  <2> QED BY <2>2, <2>3, <2>4
<1>9. \A n \in DOMAIN lx : \A m \in DOMAIN w : m < n => m \in DOMAIN lx BY <1>1, <1>2, <1>3
<1>10. \A n \in DOMAIN l : n \in DOMAIN lx /\ n \in DOMAIN ly /\ lx[n] = ly[n] /\ g[n] = n
  BY <1>1, <1>2, <1>4
<1>11. \A n \in DOMAIN ly : n \notin DOMAIN l =>
         g[n] \notin DOMAIN lx /\ \A m \in DOMAIN l : m < n
  BY <1>1, <1>2, <1>4
<1>12. \A n \in DOMAIN lx : n \in DOMAIN w /\ w[n] = lx[n] BY <1>3
<1>13. Woven(l, lx, ly, w, g)
  BY <1>5, <1>6, <1>7, <1>8, <1>9, <1>10, <1>11, <1>12, Zenon DEF Woven
<1> QED BY <1>1, <1>2, <1>13

\* If then no number is used twice, not both contexts have events of stream a: the lower
\* one of their numbers would be used by both.
LEMMA OneOfBoth ==
  ASSUME NEW l, NEW lx \in Seq(Event), NEW ly \in Seq(Event), NEW w, NEW g, NEW a,
         Woven(l, lx, ly, w, g), Unique(w, a), Chained(lx, a), Chained(ly, a),
         NEW p \in DOMAIN lx, p \notin DOMAIN l, lx[p].agg = a,
         NEW r \in DOMAIN ly, r \notin DOMAIN l, ly[r].agg = a
  PROVE  FALSE
<1>1. lx[p].seq \in Nat /\ lx[p].seq >= 1 BY ChainedAt
<1>2. ly[r].seq \in Nat /\ ly[r].seq >= 1 BY ChainedAt
<1>3. p \in DOMAIN w /\ w[p] = lx[p] BY DEF Woven
<1>4. g[r] \in DOMAIN w /\ w[g[r]] = ly[r] /\ g[r] \notin DOMAIN lx BY DEF Woven
<1>5. CASE lx[p].seq <= ly[r].seq
  <2>1. CASE lx[p].seq = ly[r].seq
    <3>1. p = g[r] BY <1>3, <1>4, <2>1 DEF Unique
    <3> QED BY <1>4, <3>1
  <2>2. CASE lx[p].seq # ly[r].seq
    <3>1. lx[p].seq \in 1 .. ly[r].seq - 1 BY <1>1, <1>2, <1>5, <2>2
    <3>2. PICK q \in DOMAIN ly : ly[q].agg = a /\ ly[q].seq = lx[p].seq BY <3>1, LowerNumbers
    <3>3. g[q] \in DOMAIN w /\ w[g[q]] = ly[q] BY DEF Woven
    <3>4. g[q] = p BY <1>3, <3>2, <3>3 DEF Unique
    <3>5. CASE q \in DOMAIN l BY <3>4, <3>5 DEF Woven
    <3>6. CASE q \notin DOMAIN l BY <3>4, <3>6 DEF Woven
    <3> QED BY <3>5, <3>6
  <2> QED BY <2>1, <2>2
<1>6. CASE ~(lx[p].seq <= ly[r].seq)
  <2>1. ly[r].seq \in 1 .. lx[p].seq - 1 BY <1>1, <1>2, <1>6
  <2>2. PICK q \in DOMAIN lx : lx[q].agg = a /\ lx[q].seq = ly[r].seq BY <2>1, LowerNumbers
  <2>3. q \in DOMAIN w /\ w[q] = lx[q] BY DEF Woven
  <2>4. q = g[r] BY <1>4, <2>2, <2>3 DEF Unique
  <2> QED BY <1>4, <2>4
<1> QED BY <1>5, <1>6

\* So what one context appends does not come between what the other one loaded and what
\* it captured.
LEMMA ChainedBetween ==
  ASSUME NEW l, NEW lx \in Seq(Event), NEW ly \in Seq(Event), NEW w, NEW g, NEW a,
         Woven(l, lx, ly, w, g), Unique(w, a),
         Unique(lx, a) => Chained(lx, a), Unique(ly, a) => Chained(ly, a)
  PROVE  Overtaken(ly, w, a)
<1>1. Chained(lx, a)
  <2>1. Unique(lx, a) BY UniqueHead DEF Woven
  <2> QED BY <2>1
<1>2. Unique(ly, a) /\ Chained(ly, a)
  <2>1. /\ \A n \in DOMAIN ly : g[n] \in DOMAIN w /\ w[g[n]] = ly[n]
        /\ \A m, n \in DOMAIN ly : g[m] = g[n] => m = n
    BY DEF Woven
  <2>2. Unique(ly, a)
    <3> SUFFICES ASSUME NEW m \in DOMAIN ly, NEW n \in DOMAIN ly,
                        ly[m].agg = a, ly[n].agg = a, ly[m].seq = ly[n].seq
                 PROVE  m = n
      BY DEF Unique
    <3>1. g[m] = g[n] BY <2>1 DEF Unique
    <3> QED BY <2>1, <3>1
  <2> QED BY <2>2
<1>3. ASSUME NEW r \in DOMAIN ly, NEW q \in DOMAIN w, g[r] \notin DOMAIN lx, ly[r].agg = a,
             q < g[r], w[q].agg = a
      PROVE  \E u \in DOMAIN ly : u < r /\ ly[u] = w[q]
  <2>1. r \notin DOMAIN l BY <1>3 DEF Woven
  <2>2. CASE q \in DOMAIN lx
    <3>1. w[q] = lx[q] BY <2>2 DEF Woven
    <3>2. q \in DOMAIN l BY <1>1, <1>2, <1>3, <2>1, <2>2, <3>1, OneOfBoth
    <3>3. q \in DOMAIN ly /\ ly[q] = lx[q] BY <3>2 DEF Woven
    <3>4. q < r BY <2>1, <3>2 DEF Woven
    <3> QED BY <3>1, <3>3, <3>4
  <2>3. CASE q \notin DOMAIN lx
    <3>1. PICK u \in DOMAIN ly : u \notin DOMAIN l /\ q = g[u] BY <2>3 DEF Woven
    <3>2. w[q] = ly[u] BY <3>1 DEF Woven
    <3>3. u < r BY <1>3, <3>1 DEF Woven
    <3> QED BY <3>2, <3>3
  <2> QED BY <2>2, <2>3
<1>4. Chained(w, a)
  <2>1. Between(w, lx, ly, g, a) BY <1>3, Zenon DEF Woven, Between
  <2> QED BY <1>1, <1>2, <2>1, FitsBetween
<1>5. \A n \in DOMAIN ly : \E m \in DOMAIN w : w[m] = ly[n] BY DEF Woven
<1> QED BY <1>2, <1>4, <1>5 DEF Overtaken

-----------------------------------------------------------------------------
(* The invariant of contexts, step by step.                                 *)

\* append of one element to the second of two slices.
LEMMA AppendAtEnd ==
  ASSUME NEW S, NEW l \in Seq(S), NEW x \in Seq(S), NEW e \in S
  PROVE  l \o Append(x, e) = Append(l \o x, e) /\ l \o <<>> = l
OBVIOUS

\* A context that saves now adds what it captured to the log.
LEMMA ViewIs ==
  ASSUME TypeOK, NEW c \in Clients
  PROVE  /\ log \in Seq(Event) /\ captured[c] \in Seq(Event) /\ View(c) \in Seq(Event)
         /\ Joined(log, captured[c], View(c))
         /\ \A n \in DOMAIN log : n \in DOMAIN View(c) /\ View(c)[n] = log[n]
<1>1. log \in Seq(Event) /\ captured[c] \in Seq(Event) BY DEF TypeOK
<1>2. View(c) \in Seq(Event) /\ Joined(log, captured[c], View(c)) BY <1>1, JoinedAt DEF View
<1>3. \A n \in DOMAIN log : n \in DOMAIN View(c) /\ View(c)[n] = log[n] BY <1>2 DEF Joined
<1> QED BY <1>1, <1>2, <1>3

\* Numbers that a context's view uses once are used once in the log.
LEMMA UniqueInLog ==
  ASSUME TypeOK, NEW c \in Clients, NEW a, Unique(View(c), a)
  PROVE  Unique(log, a)
BY ViewIs, UniqueHead

\* An event of a view is in the log or captured.
LEMMA FromLogOrCaptured ==
  ASSUME TypeOK, NEW c \in Clients, NEW p \in DOMAIN View(c)
  PROVE  \/ \E i \in DOMAIN captured[c] : View(c)[p] = captured[c][i]
         \/ \E n \in DOMAIN log : View(c)[p] = log[n]
<1>1. Joined(log, captured[c], View(c)) BY ViewIs
<1> QED BY <1>1 DEF Joined

\* Steps that touch neither slices nor objects.
LEMMA QuietStep ==
  ASSUME ContextsInv, UNCHANGED <<log, captured, snapshots, staged, objects>>,
         Existing \subseteq Existing'
  PROVE  ContextsInv'
<1>1. \A c \in Clients : View(c)' = View(c) BY DEF View
<1>2. HoldersInv' BY DEF ContextsInv, HoldersInv
<1>3. StreamsInv' BY <1>1 DEF ContextsInv, StreamsInv
<1>4. ObjectsInv' BY <1>1 DEF ContextsInv, ObjectsInv
<1>5. SnapshotsInv' BY <1>1 DEF ContextsInv, SnapshotsInv
<1> QED BY <1>2, <1>3, <1>4, <1>5 DEF ContextsInv

\* Context c comes to hold o, a replay, as its aggregate a.
LEMMA HoldStep ==
  ASSUME TypeOK, ContextsInv, NEW c \in Clients, NEW a \in Ids, NEW o,
         objects' = [objects EXCEPT ![c][a] = o],
         UNCHANGED <<log, captured, snapshots, staged>>,
         Existing \subseteq Existing', a \in Existing',
         Unique(View(c), a) => Replayed(View(c), a, o)
  PROVE  ContextsInv'
<1>1. \A d \in Clients : View(d)' = View(d) BY DEF View
<1>2. \A d \in Clients, b \in Ids :
        IF d = c /\ b = a THEN objects'[d][b] = o ELSE objects'[d][b] = objects[d][b]
  BY DEF TypeOK
<1>3. HoldersInv'
  <2>1. ASSUME NEW d \in Clients, NEW b \in Ids, objects'[d][b] # NoObject PROVE b \in Existing'
    BY <1>2, <2>1 DEF ContextsInv, HoldersInv
  <2>2. /\ \A i \in DOMAIN log' : log'[i].agg \in Existing'
        /\ \A d \in Clients : \A i \in DOMAIN captured'[d] : captured'[d][i].agg \in Existing'
    BY DEF ContextsInv, HoldersInv
  <2> QED BY <2>1, <2>2 DEF HoldersInv
<1>4. StreamsInv' BY <1>1 DEF ContextsInv, StreamsInv
<1>5. ObjectsInv'
  <2>1. ASSUME NEW d \in Clients, NEW b \in Ids, objects'[d][b] # NoObject, Unique(View(d), b)
        PROVE  Replayed(View(d), b, objects'[d][b])
    <3>1. CASE d = c /\ b = a BY <1>2, <2>1, <3>1
    <3>2. CASE ~(d = c /\ b = a) BY <1>2, <2>1, <3>2 DEF ContextsInv, ObjectsInv
    <3> QED BY <3>1, <3>2
  <2> QED BY <1>1, <2>1 DEF ObjectsInv
<1>6. SnapshotsInv' BY <1>1 DEF ContextsInv, SnapshotsInv
<1> QED BY <1>3, <1>4, <1>5, <1>6 DEF ContextsInv

\* A new aggregate has no event yet.
LEMMA CreateStep ==
  ASSUME TypeOK, ContextsInv, NEW c \in Clients, Create(c)
  PROVE  ContextsInv'
<1> DEFINE a == NewId
<1>1. a \in Ids /\ a \in Existing' /\ Existing \subseteq Existing'
  <2>1. MaxAggregates \in Nat BY MemoryEngineAssumption DEF MemoryEngineAssumption
  <2>2. count \in 0 .. MaxAggregates BY DEF TypeOK
  <2> QED BY <2>1, <2>2 DEF Create, NewId, Ids, Existing
<1>2. /\ objects' = [objects EXCEPT ![c][a] = Fresh]
      /\ UNCHANGED <<log, captured, snapshots, staged>>
  BY DEF Create
<1> HIDE DEF a
<1>3. Replayed(View(c), a, Fresh) BY DEF Replayed, Fresh
<1> QED BY <1>1, <1>2, <1>3, HoldStep

\* What is loaded is in the log, which every view begins with.
LEMMA LoadStep ==
  ASSUME TypeOK, ContextsInv, NEW c \in Clients, NEW a \in Ids, Load(c, a)
  PROVE  ContextsInv'
<1>1. /\ objects' = [objects EXCEPT ![c][a] = Loaded(a)] /\ a \in Existing
      /\ UNCHANGED <<log, captured, snapshots, staged>> /\ Existing' = Existing
  BY DEF Load, engine, Existing
<1>2. ASSUME Unique(View(c), a) PROVE Replayed(View(c), a, Loaded(a))
  <2>1. Unique(log, a) BY <1>2, UniqueInLog
  <2>2. Replayed(log, a, Loaded(a)) BY <2>1, LoadedIs DEF ContextsInv
  <2>3. \A n \in DOMAIN log : \E m \in DOMAIN View(c) : View(c)[m] = log[n] BY ViewIs
  <2> QED BY <2>2, <2>3, ReplayedMoved
<1> QED BY <1>1, <1>2, HoldStep

\* An event is applied to an object, which is up to date if the event's number is new.
LEMMA ApplyStep ==
  ASSUME TypeOK, ContextsInv, NEW c \in Clients, NEW a \in Ids, NEW v \in Vals,
         ApplyEvent(c, a, v)
  PROVE  ContextsInv'
<1> DEFINE o == objects[c][a]
           n == [seq |-> o.seq + 1, state |-> Append(o.state, v)]
           e == [agg |-> a, seq |-> o.seq + 1, val |-> v, base |-> o.state]
           s == SnapshotFor(a, o, v)
           w == View(c)'
<1>1. /\ o # NoObject /\ o \in Object /\ UNCHANGED <<log, snapshots>> /\ Existing' = Existing
      /\ objects' = [objects EXCEPT ![c][a] = n] /\ captured' = [captured EXCEPT ![c] = Append(@, e)]
      /\ staged' = staged \/ staged' = [staged EXCEPT ![c] = Append(@, s)]
  BY DEF ApplyEvent, engine, Existing, TypeOK
<1>2. o.seq \in Nat /\ o.state \in Seq(Vals) BY <1>1 DEF Object, State
<1>3. e \in Event /\ e.agg = a /\ a \in Existing
  <2>1. a \in Existing BY <1>1 DEF ContextsInv, HoldersInv
  <2> QED BY <1>2, <2>1 DEF Event, State
<1>4. /\ s.agg = a /\ s.seq = n.seq /\ s.state = n.state /\ s \in Snapshot
  <2>1. o.seq + 1 \in Nat /\ Append(o.state, v) \in Seq(Vals) BY <1>2
  <2> QED BY <2>1 DEF SnapshotFor, Snapshot, State
<1>5. captured'[c] = Append(captured[c], e) /\ \A d \in Clients : d # c => captured'[d] = captured[d]
  <2>1. captured \in [Clients -> Seq(Event)] BY DEF TypeOK
  <2>2. captured' = [captured EXCEPT ![c] = Append(captured[c], e)] BY <1>1
  <2> HIDE DEF e
  <2> QED BY <2>1, <2>2
<1>6. w = Append(View(c), e)
  <2> HIDE DEF e
  <2>1. w = log \o Append(captured[c], e) BY <1>1, <1>5 DEF View
  <2> QED BY <1>3, <2>1, ViewIs, AppendAtEnd DEF View
<1>7. \A d \in Clients : d # c => View(d)' = View(d) BY <1>1, <1>5 DEF View
<1>8. /\ Unique(w, a) => Chained(w, a) /\ Replayed(w, a, n)
      /\ \A b \in Ids : b # a /\ Chained(View(c), b) => Chained(w, b)
      /\ \A b : Unique(w, b) => Unique(View(c), b)
      /\ \A i \in DOMAIN View(c) : \E m \in DOMAIN w : w[m] = View(c)[i]
  <2>1. View(c) \in Seq(Event) BY ViewIs
  <2>2. Unique(View(c), a) => Chained(View(c), a) /\ Replayed(View(c), a, o)
    BY <1>1 DEF ContextsInv, StreamsInv, ObjectsInv
  <2>3. /\ e = [agg |-> a, seq |-> o.seq + 1, val |-> v, base |-> o.state]
        /\ n = [seq |-> o.seq + 1, state |-> Append(o.state, v)]
    OBVIOUS
  <2>4. o \in Object BY <1>1
  <2> HIDE DEF o, n, e, w
  <2>5. Applied(View(c), w, a, n) BY <1>6, <2>1, <2>2, <2>3, <2>4, ChainedAppend
  <2> QED BY <2>5, UniqueHead DEF Applied
<1>9. \A d \in Clients, b \in Ids :
         IF d = c /\ b = a THEN objects'[d][b] = n ELSE objects'[d][b] = objects[d][b]
  <2> HIDE DEF n
  <2> QED BY <1>1 DEF TypeOK
<1> HIDE DEF n, e, s, w
<1>10. HoldersInv'
  <2>1. ASSUME NEW d \in Clients, NEW i \in DOMAIN captured'[d]
        PROVE  captured'[d][i].agg \in Existing
    <3>1. d # c => i \in DOMAIN captured[d] /\ captured'[d][i] = captured[d][i] BY <1>5, <2>1
    <3>2. d = c => \/ i \in DOMAIN captured[c] /\ captured'[c][i] = captured[c][i]
                   \/ captured'[c][i] = e
      <4>1. captured[c] \in Seq(Event) BY ViewIs
      <4> QED BY <1>3, <1>5, <2>1, <4>1
    <3> QED BY <1>3, <3>1, <3>2 DEF ContextsInv, HoldersInv
  <2>2. ASSUME NEW d \in Clients, NEW b \in Ids, objects'[d][b] # NoObject PROVE b \in Existing
    <3>1. objects[d][b] # NoObject BY <1>1, <1>9, <2>2
    <3> QED BY <3>1 DEF ContextsInv, HoldersInv
  <2>3. \A i \in DOMAIN log' : log'[i].agg \in Existing BY <1>1 DEF ContextsInv, HoldersInv
  <2> QED BY <1>1, <2>1, <2>2, <2>3 DEF HoldersInv
<1>11. StreamsInv'
  <2>1. ASSUME NEW b \in Ids, Unique(log', b) PROVE Chained(log', b)
    BY <1>1, <2>1 DEF ContextsInv, StreamsInv
  <2>2. ASSUME NEW b \in Ids, NEW d \in Clients, Unique(View(d)', b) PROVE Chained(View(d)', b)
    <3>1. CASE d = c
      <4>1. Unique(w, b) BY <2>2, <3>1 DEF w
      <4>2. Chained(w, b) BY <1>8, <4>1 DEF ContextsInv, StreamsInv
      <4> QED BY <3>1, <4>2 DEF w
    <3>2. CASE d # c BY <1>7, <2>2, <3>2 DEF ContextsInv, StreamsInv
    <3> QED BY <3>1, <3>2
  <2> QED BY <2>1, <2>2 DEF StreamsInv
<1>12. ObjectsInv'
  <2>1. ASSUME NEW d \in Clients, NEW b \in Ids, objects'[d][b] # NoObject, Unique(View(d)', b)
        PROVE  Replayed(View(d)', b, objects'[d][b])
    <3>1. CASE d = c /\ b = a
      <4>1. Unique(w, a) BY <2>1, <3>1 DEF w
      <4> QED BY <1>8, <1>9, <3>1, <4>1 DEF w
    <3>2. CASE d # c BY <1>7, <1>9, <2>1, <3>2 DEF ContextsInv, ObjectsInv
    <3>3. CASE d = c /\ b # a
      <4>1. objects'[d][b] = objects[c][b] BY <1>9, <3>3
      <4>2. Unique(w, b) BY <2>1, <3>3 DEF w
      <4>3. Replayed(View(c), b, objects[c][b])
        BY <1>8, <2>1, <4>1, <4>2 DEF ContextsInv, ObjectsInv
      <4>4. Replayed(w, b, objects[c][b]) BY <1>8, <4>3, ReplayedMoved
      <4> QED BY <3>3, <4>1, <4>4 DEF w
    <3> QED BY <3>1, <3>2, <3>3
  <2> QED BY <2>1 DEF ObjectsInv
<1>13. SnapshotsInv'
  <2>1. \A i \in DOMAIN snapshots' :
          Unique(log', snapshots'[i].agg) => Replayed(log', snapshots'[i].agg, snapshots'[i])
    BY <1>1 DEF ContextsInv, SnapshotsInv
  <2>2. ASSUME NEW d \in Clients, NEW i \in DOMAIN staged'[d], Unique(View(d)', staged'[d][i].agg)
        PROVE  Replayed(View(d)', staged'[d][i].agg, staged'[d][i])
    <3>1. CASE d # c /\ i \in DOMAIN staged[d] /\ staged'[d][i] = staged[d][i]
      BY <1>7, <2>2, <3>1 DEF ContextsInv, SnapshotsInv
    <3>2. CASE d = c /\ i \in DOMAIN staged[c] /\ staged'[c][i] = staged[c][i]
      <4>1. Unique(w, staged[c][i].agg) BY <2>2, <3>2 DEF w
      <4>2. Replayed(View(c), staged[c][i].agg, staged[c][i])
        BY <1>8, <3>2, <4>1 DEF ContextsInv, SnapshotsInv
      <4>3. Replayed(w, staged[c][i].agg, staged[c][i]) BY <1>8, <4>2, ReplayedMoved
      <4> QED BY <3>2, <4>3 DEF w
    <3>3. CASE d = c /\ staged'[c][i] = s
      <4>1. Unique(w, a) BY <1>4, <2>2, <3>3 DEF w
      <4>2. Replayed(w, a, s) BY <1>4, <1>8, <4>1 DEF Replayed
      <4> QED BY <1>4, <3>3, <4>2 DEF w
    <3>4. \/ i \in DOMAIN staged[d] /\ staged'[d][i] = staged[d][i]
          \/ d = c /\ staged'[d][i] = s
      <4>1. staged[d] \in Seq(Snapshot) /\ staged \in [Clients -> Seq(Snapshot)] BY DEF TypeOK
      <4>2. CASE staged'[d] = staged[d] BY <2>2, <4>2
      <4>3. CASE d = c /\ staged'[d] = Append(staged[d], s) BY <1>4, <2>2, <4>1, <4>3
      <4>4. staged'[d] = staged[d] \/ (d = c /\ staged'[d] = Append(staged[d], s))
        <5>1. staged' = staged \/ staged' = [staged EXCEPT ![c] = Append(staged[c], s)] BY <1>1
        <5> QED BY <4>1, <5>1
      <4> QED BY <4>2, <4>3, <4>4
    <3> QED BY <3>1, <3>2, <3>3, <3>4
  <2> QED BY <2>1, <2>2 DEF SnapshotsInv
<1> QED BY <1>10, <1>11, <1>12, <1>13 DEF ContextsInv

\* The memory of context c is gone, that of the others is not.
LEMMA DiscardIs ==
  ASSUME TypeOK, NEW c \in Clients, Discard(c)
  PROVE  /\ captured'[c] = <<>> /\ staged'[c] = <<>>
         /\ \A a \in Ids : objects'[c][a] = NoObject
         /\ \A d \in Clients : d # c =>
              captured'[d] = captured[d] /\ staged'[d] = staged[d] /\ objects'[d] = objects[d]
<1>1. /\ captured \in [Clients -> Seq(Event)] /\ staged \in [Clients -> Seq(Snapshot)]
      /\ objects \in [Clients -> [Ids -> Object \cup {NoObject}]]
  BY DEF TypeOK
<1>2. /\ objects' = [objects EXCEPT ![c] = [a \in Ids |-> NoObject]]
      /\ captured' = [captured EXCEPT ![c] = <<>>] /\ staged' = [staged EXCEPT ![c] = <<>>]
  BY DEF Discard
<1> QED BY <1>1, <1>2

\* A context that fails forgets what it captured.
LEMMA AbortStep ==
  ASSUME TypeOK, ContextsInv, NEW c \in Clients, Abort(c)
  PROVE  ContextsInv'
<1>1. UNCHANGED <<log, snapshots>> /\ Existing' = Existing BY DEF Abort, engine, Existing
<1>2. /\ captured'[c] = <<>> /\ staged'[c] = <<>>
      /\ \A a \in Ids : objects'[c][a] = NoObject
      /\ \A d \in Clients : d # c =>
           captured'[d] = captured[d] /\ staged'[d] = staged[d] /\ objects'[d] = objects[d]
  BY DiscardIs DEF Abort
<1>3. View(c)' = log
  <2>1. View(c)' = log \o <<>> BY <1>1, <1>2 DEF View
  <2> QED BY <2>1, ViewIs
<1>4. \A d \in Clients : d # c => View(d)' = View(d) BY <1>1, <1>2 DEF View
<1>5. HoldersInv'
  <2>1. ASSUME NEW d \in Clients, NEW i \in DOMAIN captured'[d]
        PROVE  captured'[d][i].agg \in Existing
    <3>1. d # c BY <1>2, <2>1
    <3> QED BY <1>2, <2>1, <3>1 DEF ContextsInv, HoldersInv
  <2>2. ASSUME NEW d \in Clients, NEW b \in Ids, objects'[d][b] # NoObject PROVE b \in Existing
    <3>1. d # c BY <1>2, <2>2
    <3> QED BY <1>2, <2>2, <3>1 DEF ContextsInv, HoldersInv
  <2>3. \A i \in DOMAIN log' : log'[i].agg \in Existing BY <1>1 DEF ContextsInv, HoldersInv
  <2> QED BY <1>1, <2>1, <2>2, <2>3 DEF HoldersInv
<1>6. StreamsInv'
  <2>1. ASSUME NEW b \in Ids, Unique(log', b) PROVE Chained(log', b)
    BY <1>1, <2>1 DEF ContextsInv, StreamsInv
  <2>2. ASSUME NEW b \in Ids, NEW d \in Clients, Unique(View(d)', b) PROVE Chained(View(d)', b)
    <3>1. CASE d = c BY <1>1, <1>3, <2>1, <2>2, <3>1
    <3>2. CASE d # c BY <1>4, <2>2, <3>2 DEF ContextsInv, StreamsInv
    <3> QED BY <3>1, <3>2
  <2> QED BY <2>1, <2>2 DEF StreamsInv
<1>7. ObjectsInv'
  <2>1. ASSUME NEW d \in Clients, NEW b \in Ids, objects'[d][b] # NoObject, Unique(View(d)', b)
        PROVE  Replayed(View(d)', b, objects'[d][b])
    <3>1. d # c BY <1>2, <2>1
    <3> QED BY <1>2, <1>4, <2>1, <3>1 DEF ContextsInv, ObjectsInv
  <2> QED BY <2>1 DEF ObjectsInv
<1>8. SnapshotsInv'
  <2>1. \A i \in DOMAIN snapshots' :
          Unique(log', snapshots'[i].agg) => Replayed(log', snapshots'[i].agg, snapshots'[i])
    BY <1>1 DEF ContextsInv, SnapshotsInv
  <2>2. ASSUME NEW d \in Clients, NEW i \in DOMAIN staged'[d], Unique(View(d)', staged'[d][i].agg)
        PROVE  Replayed(View(d)', staged'[d][i].agg, staged'[d][i])
    <3>1. d # c BY <1>2, <2>2
    <3> QED BY <1>2, <1>4, <2>2, <3>1 DEF ContextsInv, SnapshotsInv
  <2> QED BY <2>1, <2>2 DEF SnapshotsInv
<1> QED BY <1>5, <1>6, <1>7, <1>8 DEF ContextsInv

\* What a context saves comes after what others saved since it loaded.  What was a replay
\* still is one, unless a number is now used twice.
LEMMA WriteStep ==
  ASSUME TypeOK, ContextsInv, NEW c \in Clients, WriteState(c)
  PROVE  ContextsInv'
<1>1. log' = View(c) /\ snapshots' = snapshots \o staged[c] /\ Existing' = Existing
  BY DEF WriteState, Existing, View
<1>2. /\ captured'[c] = <<>> /\ staged'[c] = <<>>
      /\ \A a \in Ids : objects'[c][a] = NoObject
      /\ \A d \in Clients : d # c =>
           captured'[d] = captured[d] /\ staged'[d] = staged[d] /\ objects'[d] = objects[d]
  BY DiscardIs DEF WriteState
<1>3. HoldersInv /\ StreamsInv /\ ObjectsInv /\ SnapshotsInv BY DEF ContextsInv
<1>4. View(c)' = View(c)
  <2>1. View(c)' = View(c) \o <<>> BY <1>1, <1>2 DEF View
  <2>2. View(c) \in Seq(Event) BY ViewIs
  <2> QED BY <2>1, <2>2, AppendAtEnd
\* The view of another context, before and after.
<1>5. ASSUME NEW d \in Clients, d # c, NEW a \in Ids, Unique(View(d)', a)
      PROVE  Overtaken(View(d), View(d)', a)
  <2> DEFINE x == captured[c]
             y == captured[d]
             lx == View(c)
             ly == View(d)
             w == View(d)'
  <2>1. log \in Seq(Event) /\ x \in Seq(Event) /\ y \in Seq(Event) BY ViewIs
  <2>2. lx = log \o x /\ ly = log \o y /\ w = lx \o y BY <1>1, <1>2, <1>5 DEF View
  <2>3. /\ Unique(lx, a) => Chained(lx, a)
        /\ Unique(ly, a) => Chained(ly, a)
    BY <1>3 DEF StreamsInv
  <2>4. Unique(w, a) BY <1>5
  <2> HIDE DEF x, y, lx, ly, w
  <2>5. lx \in Seq(Event) /\ ly \in Seq(Event) /\ \E g : Woven(log, lx, ly, w, g)
    BY <2>1, <2>2, AppendedAre
  <2>6. Overtaken(ly, w, a) BY <2>3, <2>4, <2>5, ChainedBetween
  <2> QED BY <2>6 DEF ly, w
<1>6. HoldersInv'
  <2>1. ASSUME NEW d \in Clients, NEW i \in DOMAIN captured'[d]
        PROVE  captured'[d][i].agg \in Existing
    <3>1. d # c BY <1>2, <2>1
    <3> QED BY <1>2, <1>3, <2>1, <3>1 DEF HoldersInv
  <2>2. ASSUME NEW d \in Clients, NEW b \in Ids, objects'[d][b] # NoObject PROVE b \in Existing
    <3>1. d # c BY <1>2, <2>2
    <3> QED BY <1>2, <1>3, <2>2, <3>1 DEF HoldersInv
  <2>3. ASSUME NEW p \in DOMAIN log' PROVE log'[p].agg \in Existing
    <3>1. p \in DOMAIN View(c) /\ log'[p] = View(c)[p] BY <1>1, <2>3
    <3> QED BY <1>3, <3>1, FromLogOrCaptured DEF HoldersInv
  <2> QED BY <1>1, <2>1, <2>2, <2>3 DEF HoldersInv
<1>7. StreamsInv'
  <2>1. ASSUME NEW b \in Ids, Unique(log', b) PROVE Chained(log', b)
    BY <1>1, <1>3, <2>1 DEF StreamsInv
  <2>2. ASSUME NEW b \in Ids, NEW d \in Clients, Unique(View(d)', b) PROVE Chained(View(d)', b)
    <3>1. CASE d = c BY <1>3, <1>4, <2>2, <3>1 DEF StreamsInv
    <3>2. CASE d # c BY <1>5, <2>2, <3>2 DEF Overtaken
    <3> QED BY <3>1, <3>2
  <2> QED BY <2>1, <2>2 DEF StreamsInv
<1>8. ObjectsInv'
  <2>1. ASSUME NEW d \in Clients, NEW b \in Ids, objects'[d][b] # NoObject, Unique(View(d)', b)
        PROVE  Replayed(View(d)', b, objects'[d][b])
    <3> DEFINE o == objects[d][b]
               ly == View(d)
               w == View(d)'
    <3>1. d # c /\ objects'[d][b] = o /\ o # NoObject BY <1>2, <2>1
    <3>2. Overtaken(ly, w, b) BY <1>5, <2>1, <3>1
    <3>3. Replayed(ly, b, o) BY <1>3, <3>1, <3>2 DEF ObjectsInv, Overtaken
    <3> HIDE DEF o, ly, w
    <3>4. Replayed(w, b, o) BY <3>2, <3>3, ReplayedMoved DEF Overtaken
    <3> QED BY <3>1, <3>4 DEF w
  <2> QED BY <2>1 DEF ObjectsInv
<1>9. SnapshotsInv'
  <2>1. ASSUME NEW i \in DOMAIN snapshots', Unique(View(c), snapshots'[i].agg)
        PROVE  Replayed(View(c), snapshots'[i].agg, snapshots'[i])
    <3>1. CASE \E n \in DOMAIN snapshots : snapshots'[i] = snapshots[n]
      <4>1. PICK n \in DOMAIN snapshots : snapshots'[i] = snapshots[n] BY <3>1
      <4>2. Unique(log, snapshots[n].agg) BY <2>1, <4>1, UniqueInLog
      <4>3. Replayed(log, snapshots[n].agg, snapshots[n]) BY <1>3, <4>2 DEF SnapshotsInv
      <4>4. \A k \in DOMAIN log : \E m \in DOMAIN View(c) : View(c)[m] = log[k] BY ViewIs
      <4> QED BY <4>1, <4>3, <4>4, ReplayedMoved
    <3>2. CASE \E n \in DOMAIN staged[c] : snapshots'[i] = staged[c][n]
      BY <1>3, <2>1, <3>2 DEF SnapshotsInv
    <3>3. snapshots \in Seq(Snapshot) /\ staged[c] \in Seq(Snapshot) BY DEF TypeOK
    <3>4. Joined(snapshots, staged[c], snapshots') BY <1>1, <3>3, JoinedAt
    <3>5. \/ \E n \in DOMAIN snapshots : snapshots'[i] = snapshots[n]
          \/ \E n \in DOMAIN staged[c] : snapshots'[i] = staged[c][n]
      BY <3>4 DEF Joined
    <3> QED BY <3>1, <3>2, <3>5
  <2>2. ASSUME NEW d \in Clients, NEW i \in DOMAIN staged'[d], Unique(View(d)', staged'[d][i].agg)
        PROVE  Replayed(View(d)', staged'[d][i].agg, staged'[d][i])
    <3> DEFINE p == staged[d][i]
               ly == View(d)
               w == View(d)'
    <3>1. d # c /\ staged'[d][i] = p /\ i \in DOMAIN staged[d] BY <1>2, <2>2
    <3>2. p.agg \in Ids
      <4>1. staged[d] \in Seq(Snapshot) BY DEF TypeOK
      <4>2. p \in Snapshot BY <3>1, <4>1
      <4> QED BY <4>2 DEF Snapshot
    <3>3. Overtaken(ly, w, p.agg) BY <1>5, <2>2, <3>1, <3>2
    <3>4. Replayed(ly, p.agg, p) BY <1>3, <3>1, <3>3 DEF SnapshotsInv, Overtaken
    <3> HIDE DEF p, ly, w
    <3>5. Replayed(w, p.agg, p) BY <3>3, <3>4, ReplayedMoved DEF Overtaken
    <3> QED BY <3>1, <3>5 DEF w
  <2> QED BY <1>1, <2>1, <2>2 DEF SnapshotsInv
<1> QED BY <1>6, <1>7, <1>8, <1>9 DEF ContextsInv

\* The engine starts empty.
LEMMA InitContexts == Init => ContextsInv
<1> SUFFICES ASSUME Init PROVE ContextsInv OBVIOUS
<1>1. /\ log = <<>> /\ snapshots = <<>> /\ \A c \in Clients : captured[c] = <<>> /\ staged[c] = <<>>
      /\ \A c \in Clients, a \in Ids : objects[c][a] = NoObject
  BY DEF Init
<1>2. \A c \in Clients : View(c) = <<>> BY <1>1 DEF View
<1> QED BY <1>1, <1>2 DEF ContextsInv, HoldersInv, StreamsInv, ObjectsInv, SnapshotsInv, Chained

\* Every step of contexts.
LEMMA NextContexts == TypeOK /\ ContextsInv /\ [Next]_vars => ContextsInv'
<1> SUFFICES ASSUME TypeOK, ContextsInv, [Next]_vars PROVE ContextsInv' OBVIOUS
<1>1. ASSUME NEW c \in Clients, Begin(c) PROVE ContextsInv'
  BY <1>1, QuietStep DEF Begin, engine, context, Existing
<1>2. ASSUME NEW c \in Clients, Create(c) PROVE ContextsInv' BY <1>2, CreateStep
<1>3. ASSUME NEW c \in Clients, NEW a, Load(c, a) PROVE ContextsInv'
  <2>1. a \in Ids
    <3>1. MaxAggregates \in Nat BY MemoryEngineAssumption DEF MemoryEngineAssumption
    <3>2. count \in 0 .. MaxAggregates BY DEF TypeOK
    <3> QED BY <1>3, <3>1, <3>2 DEF Load, Existing, Ids
  <2> QED BY <1>3, <2>1, LoadStep
<1>4. ASSUME NEW c \in Clients, NEW a \in Ids, NEW k \in Keys, ChangeAggregateNaturalKey(c, a, k)
      PROVE  ContextsInv'
  BY <1>4, QuietStep DEF ChangeAggregateNaturalKey, context, Existing
<1>5. CASE UNCHANGED vars BY <1>5, QuietStep DEF vars, engine, context, Existing
<1>6. ASSUME NEW c \in Clients, NEW k \in Keys,
             LoadByKey(c, k) \/ LoadOrCreateAggregate(c, k) \/ NewAggregateWithKey(c, k)
      PROVE  ContextsInv'
  BY <1>2, <1>3, <1>6 DEF LoadByKey, LoadOrCreateAggregate, NewAggregateWithKey
<1>7. ASSUME NEW c \in Clients, NewAggregate(c) PROVE ContextsInv' BY <1>2, <1>7 DEF NewAggregate
<1> QED BY <1>1, <1>3, <1>4, <1>5, <1>6, <1>7, ApplyStep, WriteStep, AbortStep DEF Next

\* Aggregates that exist have one of the ids.
LEMMA ExistingAreIds == ASSUME TypeOK PROVE Existing \subseteq Ids
<1>1. MaxAggregates \in Nat BY MemoryEngineAssumption DEF MemoryEngineAssumption
<1>2. count \in 0 .. MaxAggregates BY DEF TypeOK
<1> QED BY <1>1, <1>2 DEF Existing, Ids

\* Contexts over the memory engine (context.go ApplyEventTo, memory.go WriteState), with
\* no restriction on how they overlap or load: if no number is used twice in a stream,
\* each of its events was computed from exactly the events that precede it.
THEOREM NoUpdateIsLost == Spec => []NoLostUpdate
<1>1. ASSUME TypeOK, ContextsInv PROVE NoLostUpdate
  <2> SUFFICES ASSUME NEW a \in Existing, Unique(log, a), NEW i \in 1 .. Len(StreamOf(a))
               PROVE  /\ StreamOf(a)[i].seq = i
                      /\ StreamOf(a)[i].base = [j \in 1 .. i - 1 |-> StreamOf(a)[j].val]
    BY DEF NoLostUpdate, Chain
  <2> DEFINE N == Cardinality(After(log, a, 0))
             whole == StreamOf(a)
             e == whole[i]
  <2>1. a \in Ids BY <1>1, ExistingAreIds
  <2>2. log \in Seq(Event) /\ Chained(log, a) BY <1>1, <2>1 DEF TypeOK, ContextsInv, StreamsInv
  <2>3. /\ N \in Nat /\ Len(whole) = N
        /\ \A k \in 1 .. N :
             \E p \in DOMAIN log : whole[k] = log[p] /\ log[p].agg = a /\ log[p].seq = k
    BY <1>1, <2>1, <2>2, StreamPayloads
  <2> HIDE DEF whole, N
  <2>4. i \in 1 .. N BY <2>3 DEF whole
  <2>5. PICK p \in DOMAIN log : e = log[p] /\ log[p].agg = a /\ log[p].seq = i BY <2>3, <2>4
  <2>6. /\ log[p].base \in Seq(Vals) /\ Len(log[p].base) = i - 1
        /\ \A n \in 1 .. i - 1 :
             \E q \in DOMAIN log : log[q].agg = a /\ log[q].seq = n /\ log[q].val = log[p].base[n]
    <3>1. log[p] \in Event BY <2>2, <2>5, ChainedAt
    <3>2. log[p].base \in Seq(Vals) BY <3>1 DEF Event, State
    <3>3. log[p].seq = Len(log[p].base) + 1 BY <2>2, <2>5 DEF Chained, Fits
    <3>4. Len(log[p].base) = i - 1 BY <2>3, <2>4, <2>5, <3>2, <3>3
    <3> QED BY <2>2, <2>5, <3>2, <3>4, ChainedAt
  <2>7. ASSUME NEW j \in 1 .. i - 1 PROVE log[p].base[j] = whole[j].val
    <3>1. PICK q \in DOMAIN log : log[q].agg = a /\ log[q].seq = j /\ log[q].val = log[p].base[j]
      BY <2>6
    <3>2. j \in 1 .. N BY <2>3, <2>4
    <3>3. PICK r \in DOMAIN log : whole[j] = log[r] /\ log[r].agg = a /\ log[r].seq = j
      BY <2>3, <3>2
    <3>4. q = r BY <2>2, <3>1, <3>3, OneOfANumber
    <3> QED BY <3>1, <3>3, <3>4
  <2>8. log[p].base = [j \in 1 .. i - 1 |-> whole[j].val]
    <3>1. DOMAIN log[p].base = 1 .. i - 1 BY <2>6
    <3>2. log[p].base = [j \in 1 .. i - 1 |-> log[p].base[j]] BY <2>6, <3>1
    <3> QED BY <2>7, <3>2
  <2> QED BY <2>5, <2>8 DEF whole
<1> QED BY <1>1, InitTypes, NextTypes, InitContexts, NextContexts, PTL DEF Spec

\* In such a stream a load through a snapshot and the events after it gives what
\* replaying the whole of it gives (eventstore.go loadState; memory.go
\* GetSnapshotForAggregate and GetEventsForAggregate).
THEOREM LoadsReplay == Spec => []LoadsAreReplays
<1>1. ASSUME TypeOK, ContextsInv PROVE LoadsAreReplays
  BY <1>1, ExistingAreIds, LoadedIs DEF ContextsInv, LoadsAreReplays
<1> QED BY <1>1, InitTypes, NextTypes, InitContexts, NextContexts, PTL DEF Spec

-----------------------------------------------------------------------------
(* Subscriptions.                                                           *)

\* A Subscription value, and what a name that leads to it has as a row.
Value ==
  [aggType : {c.filter.aggType : c \in Calls}, key : {c.filter.key : c \in Calls},
   type : {TypePointer(c.filter.types) : c \in Calls}, start : {c.start : c \in Calls},
   LastEventID : Nat, Active : BOOLEAN,
   LeaseOwner : {c.owner : c \in Calls} \cup {Nil}, LeaseExpiresAt : Nat]

ValuesInv ==
  /\ SubscriptionByID \in Seq(Value)
  /\ SubscriptionEventTypes \in Seq(SUBSET EventTypes)
  /\ Len(SubscriptionEventTypes) = Len(SubscriptionByID)
  /\ CapturedEvents \in Seq(Events)
  /\ now \in Nat

\* A name leads to a value, and no two names to the same one.
NamesInv ==
  /\ Subscriptions \in [Names -> 0 .. Len(SubscriptionByID)]
  /\ \A m, n \in Names : Subscriptions[m] = Subscriptions[n] => m = n \/ Subscriptions[m] = 0

SubscriptionsInv == ValuesInv /\ NamesInv

\* There are no subscriptions yet.
LEMMA InitSubscriptions ==
  SubscriptionsInit => SubscriptionsInv /\ \A n \in Names : Table(n)!TableInit
<1> SUFFICES ASSUME SubscriptionsInit PROVE SubscriptionsInv /\ \A n \in Names : Table(n)!TableInit
  OBVIOUS
<1>1. SubscriptionsInv BY DEF SubscriptionsInit, SubscriptionsInv, ValuesInv, NamesInv
<1>2. ASSUME NEW n \in Names PROVE Table(n)!TableInit
  BY DEF SubscriptionsInit, Exists, RowOf, Table!TableInit, Table!AbsentRow, Table!NoColumns,
         Table!FromBeginning
<1> QED BY <1>1, <1>2

\* What a name leads to.
LEMMA ValueOf ==
  ASSUME SubscriptionsInv, NEW n \in Names, Exists(n)
  PROVE  /\ Subscriptions[n] \in 1 .. Len(SubscriptionByID)
         /\ At(n) \in Value
         /\ SubscriptionEventTypes[Subscriptions[n]] \in SUBSET EventTypes
<1>1. Subscriptions[n] \in 1 .. Len(SubscriptionByID)
  BY DEF SubscriptionsInv, ValuesInv, NamesInv, Exists
<1>2. \A i \in 1 .. Len(SubscriptionByID) :
        SubscriptionByID[i] \in Value /\ SubscriptionEventTypes[i] \in SUBSET EventTypes
  BY DEF SubscriptionsInv, ValuesInv
<1> QED BY <1>1, <1>2 DEF At

\* An assignment through one map is seen through the other one, and by no other name.
LEMMA UpdateIs ==
  ASSUME SubscriptionsInv, NEW n \in Names, Exists(n), NEW s \in Value, Update(n, s)
  PROVE  /\ SubscriptionsInv'
         /\ Exists(n)' /\ At(n)' = s
         /\ SubscriptionEventTypes[Subscriptions[n]]' = SubscriptionEventTypes[Subscriptions[n]]
         /\ \A m \in Names \ {n} : RowOf(m)' = RowOf(m)
<1>1. Subscriptions[n] \in 1 .. Len(SubscriptionByID) BY ValueOf
<1>2. /\ SubscriptionByID' = [SubscriptionByID EXCEPT ![Subscriptions[n]] = s]
      /\ UNCHANGED <<Subscriptions, SubscriptionEventTypes, CapturedEvents, AggregateInv, now>>
  BY DEF Update
<1>3. SubscriptionByID \in Seq(Value) BY DEF SubscriptionsInv, ValuesInv
<1>4. /\ SubscriptionByID' \in Seq(Value) /\ Len(SubscriptionByID') = Len(SubscriptionByID)
      /\ SubscriptionByID'[Subscriptions[n]] = s
      /\ \A i \in 1 .. Len(SubscriptionByID) :
           i # Subscriptions[n] => SubscriptionByID'[i] = SubscriptionByID[i]
  BY <1>1, <1>2, <1>3
<1>5. ValuesInv' BY <1>2, <1>4 DEF SubscriptionsInv, ValuesInv
<1>6. NamesInv' BY <1>2, <1>4 DEF SubscriptionsInv, NamesInv
<1>7. ASSUME NEW m \in Names \ {n} PROVE RowOf(m)' = RowOf(m)
  <2>1. Exists(m)' <=> Exists(m) BY <1>2 DEF Exists
  <2>2. CASE ~Exists(m) BY <2>1, <2>2 DEF RowOf
  <2>3. CASE Exists(m)
    <3>1. Subscriptions[m] \in 1 .. Len(SubscriptionByID) BY <2>3, ValueOf
    <3>2. Subscriptions[m] # Subscriptions[n] BY <1>7, <1>1, <3>1 DEF SubscriptionsInv, NamesInv
    <3>3. At(m)' = At(m) BY <1>2, <1>4, <3>1, <3>2 DEF At
    <3> QED BY <1>2, <2>1, <3>3 DEF RowOf, Ended
  <2> QED BY <2>2, <2>3
<1> QED BY <1>2, <1>4, <1>5, <1>6, <1>7 DEF SubscriptionsInv, Exists, At

\* The row of a name that leads to value s, as a set with one element.
RowOfValue(s, types) ==
  [exists : {TRUE}, cursor : {s.LastEventID}, active : {s.Active}, owner : {s.LeaseOwner},
   expired : {s.LeaseOwner # Nil /\ Ended(s)},
   columns : {[aggType |-> s.aggType, key |-> s.key, type |-> s.type]},
   start : {s.start}, types : {types}]

\* It has one element.
LEMMA OneRow ==
  ASSUME NEW s, NEW types, NEW q \in RowOfValue(s, types), NEW r \in RowOfValue(s, types)
  PROVE  q = r
<1> DEFINE row == [exists |-> TRUE, cursor |-> s.LastEventID, active |-> s.Active,
                   owner |-> s.LeaseOwner, expired |-> s.LeaseOwner # Nil /\ Ended(s),
                   columns |-> [aggType |-> s.aggType, key |-> s.key, type |-> s.type],
                   start |-> s.start, types |-> types]
<1>1. q = row BY DEF RowOfValue
<1>2. r = row BY DEF RowOfValue
<1> QED BY <1>1, <1>2

\* RowOf gives that row.
LEMMA RowIs ==
  ASSUME NEW n \in Names, Exists(n)
  PROVE  RowOf(n) \in RowOfValue(At(n), SubscriptionEventTypes[Subscriptions[n]])
BY DEF RowOf, RowOfValue

\* The same in the next state, after an assignment.
LEMMA UpdatedRowIs ==
  ASSUME SubscriptionsInv, NEW n \in Names, Exists(n), NEW s \in Value, Update(n, s)
  PROVE  RowOf(n)' \in RowOfValue(s, SubscriptionEventTypes[Subscriptions[n]])
<1>1. /\ Exists(n)' /\ At(n)' = s
      /\ SubscriptionEventTypes[Subscriptions[n]]' = SubscriptionEventTypes[Subscriptions[n]]
  BY UpdateIs
<1>2. now' = now BY DEF Update
<1> QED BY <1>1, <1>2 DEF RowOf, Ended, RowOfValue

\* The table's module counts sets as this one does.
LEMMA TableCounts == ASSUME NEW n, NEW S PROVE Table(n)!Cardinality(S) = Cardinality(S)
BY DEF Table!Cardinality, Cardinality

\* One event type goes where TypePointer puts it.
LEMMA ColumnsAre ==
  ASSUME NEW n, NEW f
  PROVE  Table(n)!Columns(f) = [aggType |-> f.aggType, key |-> f.key, type |-> TypePointer(f.types)]
<1> DEFINE types == f.types
<1>1. Table(n)!Cardinality(types) = Cardinality(types) BY TableCounts
<1>2. Table(n)!TypeColumn(types) = TypePointer(types) BY <1>1 DEF Table!TypeColumn, TypePointer
<1> QED BY <1>2 DEF Table!Columns

\* A new value is not what another name leads to.
LEMMA UpsertMatches ==
  ASSUME SubscriptionsInv, NEW n \in Names, NEW c \in Calls, UpsertSubscription(n, c)
  PROVE  /\ SubscriptionsInv'
         /\ Table(n)!UpsertSubscription(c)
         /\ \A m \in Names \ {n} : RowOf(m)' = RowOf(m)
<1> DEFINE L == Len(SubscriptionByID)
           s == [aggType |-> c.filter.aggType, key |-> c.filter.key,
                 type |-> TypePointer(c.filter.types), start |-> c.start,
                 LastEventID |-> 0, Active |-> TRUE, LeaseOwner |-> Nil, LeaseExpiresAt |-> 0]
           u == [At(n) EXCEPT !.aggType = c.filter.aggType, !.key = c.filter.key,
                              !.type = TypePointer(c.filter.types), !.start = c.start]
<1>1. CASE ~Exists(n) /\ NewSubscription(n, c)
  <2>1. /\ SubscriptionByID \in Seq(Value) /\ SubscriptionEventTypes \in Seq(SUBSET EventTypes)
        /\ Len(SubscriptionEventTypes) = L /\ L \in Nat
    BY DEF SubscriptionsInv, ValuesInv
  <2>2. /\ Subscriptions' = [Subscriptions EXCEPT ![n] = L + 1]
        /\ SubscriptionByID' = Append(SubscriptionByID, s)
        /\ SubscriptionEventTypes' = Append(SubscriptionEventTypes, {})
        /\ UNCHANGED <<CapturedEvents, AggregateInv, now>>
    BY <1>1 DEF NewSubscription
  <2>3. s \in Value BY DEF Value
  <2> HIDE DEF s
  <2>4. /\ SubscriptionByID' \in Seq(Value) /\ Len(SubscriptionByID') = L + 1
        /\ SubscriptionByID'[L + 1] = s
        /\ \A i \in 1 .. L : SubscriptionByID'[i] = SubscriptionByID[i]
    BY <2>1, <2>2, <2>3
  <2>5. /\ SubscriptionEventTypes' \in Seq(SUBSET EventTypes)
        /\ Len(SubscriptionEventTypes') = L + 1
        /\ SubscriptionEventTypes'[L + 1] = {}
        /\ \A i \in 1 .. L : SubscriptionEventTypes'[i] = SubscriptionEventTypes[i]
    BY <2>1, <2>2
  <2>6. ValuesInv' BY <2>2, <2>4, <2>5 DEF SubscriptionsInv, ValuesInv
  <2>7. Subscriptions \in [Names -> 0 .. L] BY DEF SubscriptionsInv, NamesInv
  <2>8. /\ Subscriptions'[n] = L + 1
        /\ \A m \in Names \ {n} :
             Subscriptions'[m] = Subscriptions[m] /\ Subscriptions[m] \in 0 .. L
    BY <2>2, <2>7
  <2>9. NamesInv'
    <3>1. Subscriptions' \in [Names -> 0 .. L + 1] BY <2>1, <2>2, <2>7
    <3>2. ASSUME NEW m \in Names, NEW k \in Names, Subscriptions'[m] = Subscriptions'[k]
          PROVE  m = k \/ Subscriptions'[m] = 0
      BY <2>1, <2>8, <3>2 DEF SubscriptionsInv, NamesInv
    <3> QED BY <2>4, <3>1, <3>2 DEF NamesInv
  <2>10. Exists(n)' /\ At(n)' = s /\ SubscriptionEventTypes[Subscriptions[n]]' = {}
    BY <2>1, <2>4, <2>5, <2>8 DEF Exists, At
  <2>11. RowOf(n)' = [RowOf(n) EXCEPT !.exists = TRUE, !.columns = Table(n)!Columns(c.filter),
                                      !.start = c.start]
    <3>1. /\ s.LastEventID = 0 /\ s.Active = TRUE /\ s.LeaseOwner = Nil /\ s.start = c.start
          /\ s.aggType = c.filter.aggType /\ s.key = c.filter.key
          /\ s.type = TypePointer(c.filter.types)
      BY DEF s
    <3>2. RowOf(n)' \in RowOfValue(s, {}) BY <2>10, <3>1 DEF RowOf, RowOfValue
    <3>3. RowOf(n) \in [exists : {FALSE}, cursor : {0}, active : {TRUE}, owner : {Nil},
                        expired : {FALSE},
                        columns : {[aggType |-> Nil, key |-> Nil, type |-> Nil]},
                        start : {[kind |-> "beginning", id |-> 0, time |-> 0]}, types : {{}}]
      BY <1>1 DEF RowOf
    <3>4. [RowOf(n) EXCEPT !.exists = TRUE, !.columns = Table(n)!Columns(c.filter),
                           !.start = c.start] \in RowOfValue(s, {})
      BY <3>1, <3>3, ColumnsAre DEF RowOfValue
    <3> QED BY <3>2, <3>4, OneRow
  <2>12. ASSUME NEW m \in Names \ {n} PROVE RowOf(m)' = RowOf(m)
    <3>1. Exists(m)' <=> Exists(m) BY <2>8 DEF Exists
    <3>2. CASE ~Exists(m) BY <3>1, <3>2 DEF RowOf
    <3>3. CASE Exists(m)
      <4>1. Subscriptions[m] \in 1 .. L BY <3>3, ValueOf
      <4>2. At(m)' = At(m) BY <2>4, <2>8, <4>1 DEF At
      <4>3. SubscriptionEventTypes[Subscriptions[m]]' = SubscriptionEventTypes[Subscriptions[m]]
        BY <2>5, <2>8, <4>1
      <4> QED BY <2>2, <3>1, <4>2, <4>3 DEF RowOf, Ended
    <3> QED BY <3>2, <3>3
  <2> QED BY <2>6, <2>9, <2>11, <2>12 DEF SubscriptionsInv, Table!UpsertSubscription
<1>2. CASE Exists(n) /\ Update(n, u)
  <2>1. At(n) \in Value BY <1>2, ValueOf
  <2>2. u \in Value BY <2>1 DEF Value
  <2>3. RowOf(n)' = [RowOf(n) EXCEPT !.exists = TRUE, !.columns = Table(n)!Columns(c.filter),
                                     !.start = c.start]
    <3>1. /\ u.LastEventID = At(n).LastEventID /\ u.Active = At(n).Active
          /\ u.LeaseOwner = At(n).LeaseOwner /\ u.LeaseExpiresAt = At(n).LeaseExpiresAt
          /\ u.aggType = c.filter.aggType /\ u.key = c.filter.key
          /\ u.type = TypePointer(c.filter.types) /\ u.start = c.start
      BY <2>1 DEF Value
    <3> HIDE DEF u
    <3>2. Ended(u) <=> Ended(At(n)) BY <3>1 DEF Ended
    <3>3. RowOf(n)' \in RowOfValue(u, SubscriptionEventTypes[Subscriptions[n]])
      BY <1>2, <2>2, UpdatedRowIs
    <3>4. RowOf(n) \in RowOfValue(At(n), SubscriptionEventTypes[Subscriptions[n]])
      BY <1>2, RowIs
    <3>5. [RowOf(n) EXCEPT !.exists = TRUE, !.columns = Table(n)!Columns(c.filter),
                           !.start = c.start]
            \in RowOfValue(u, SubscriptionEventTypes[Subscriptions[n]])
      BY <3>1, <3>2, <3>4, ColumnsAre DEF RowOfValue
    <3> QED BY <3>3, <3>5, OneRow
  <2> HIDE DEF u
  <2> QED BY <1>2, <2>2, <2>3, UpdateIs DEF Table!UpsertSubscription
<1> QED BY <1>1, <1>2 DEF UpsertSubscription

\* Another type for its set; no other set changes.
LEMMA AddTypeMatches ==
  ASSUME SubscriptionsInv, NEW n \in Names, NEW t \in EventTypes, AddSubscriptionEventType(n, t)
  PROVE  /\ SubscriptionsInv'
         /\ Table(n)!AddSubscriptionEventType(t)
         /\ \A m \in Names \ {n} : RowOf(m)' = RowOf(m)
<1> DEFINE x == Subscriptions[n]
<1>1. /\ Exists(n)
      /\ SubscriptionEventTypes' =
           [SubscriptionEventTypes EXCEPT ![x] = SubscriptionEventTypes[x] \cup {t}]
      /\ UNCHANGED <<Subscriptions, SubscriptionByID, CapturedEvents, AggregateInv, now>>
  BY DEF AddSubscriptionEventType
<1>2. /\ x \in 1 .. Len(SubscriptionByID) /\ At(n) \in Value
      /\ SubscriptionEventTypes[x] \in SUBSET EventTypes
  BY <1>1, ValueOf
<1>3. /\ SubscriptionEventTypes \in Seq(SUBSET EventTypes)
      /\ Len(SubscriptionEventTypes) = Len(SubscriptionByID)
  BY DEF SubscriptionsInv, ValuesInv
<1>4. /\ SubscriptionEventTypes' \in Seq(SUBSET EventTypes)
      /\ Len(SubscriptionEventTypes') = Len(SubscriptionByID)
      /\ SubscriptionEventTypes'[x] = SubscriptionEventTypes[x] \cup {t}
      /\ \A i \in 1 .. Len(SubscriptionByID) :
           i # x => SubscriptionEventTypes'[i] = SubscriptionEventTypes[i]
  BY <1>1, <1>2, <1>3
<1>5. SubscriptionsInv' BY <1>1, <1>4 DEF SubscriptionsInv, ValuesInv, NamesInv
<1>6. Table(n)!AddSubscriptionEventType(t)
  <2> DEFINE types == SubscriptionEventTypes[x]
  <2>1. RowOf(n) \in RowOfValue(At(n), types) BY <1>1, RowIs
  <2>2. RowOf(n)' \in RowOfValue(At(n), types \cup {t})
    <3>1. Exists(n)' /\ At(n)' = At(n) BY <1>1 DEF Exists, At
    <3> QED BY <1>1, <1>4, <3>1 DEF RowOf, RowOfValue, Ended
  <2>3. [RowOf(n) EXCEPT !.types = RowOf(n).types \cup {t}] \in RowOfValue(At(n), types \cup {t})
    BY <2>1 DEF RowOfValue
  <2> QED BY <2>2, <2>3, OneRow DEF Table!AddSubscriptionEventType
<1>7. ASSUME NEW m \in Names \ {n} PROVE RowOf(m)' = RowOf(m)
  <2>1. Exists(m)' <=> Exists(m) BY <1>1 DEF Exists
  <2>2. CASE ~Exists(m) BY <2>1, <2>2 DEF RowOf
  <2>3. CASE Exists(m)
    <3>1. Subscriptions[m] \in 1 .. Len(SubscriptionByID) BY <2>3, ValueOf
    <3>2. Subscriptions[m] # x BY <1>7, <1>2, <3>1 DEF SubscriptionsInv, NamesInv
    <3>3. At(m)' = At(m) BY <1>1 DEF At
    <3>4. SubscriptionEventTypes[Subscriptions[m]]' = SubscriptionEventTypes[Subscriptions[m]]
      BY <1>1, <1>4, <3>1, <3>2
    <3> QED BY <1>1, <2>1, <3>3, <3>4 DEF RowOf, Ended
  <2> QED BY <2>2, <2>3
<1> QED BY <1>5, <1>6, <1>7

\* Active changes what the flag says.
LEMMA SetActiveMatches ==
  ASSUME SubscriptionsInv, NEW n \in Names, NEW active \in BOOLEAN, SetSubscriptionActive(n, active)
  PROVE  /\ SubscriptionsInv'
         /\ Table(n)!SetSubscriptionActive(active)
         /\ \A m \in Names \ {n} : RowOf(m)' = RowOf(m)
<1> DEFINE s == [At(n) EXCEPT !.Active = active]
           types == SubscriptionEventTypes[Subscriptions[n]]
<1>1. Exists(n) /\ Update(n, s) BY DEF SetSubscriptionActive
<1>2. At(n) \in Value BY <1>1, ValueOf
<1>3. s \in Value BY <1>2 DEF Value
<1>4. /\ s.LastEventID = At(n).LastEventID /\ s.Active = active
      /\ s.LeaseOwner = At(n).LeaseOwner /\ s.LeaseExpiresAt = At(n).LeaseExpiresAt
      /\ s.aggType = At(n).aggType /\ s.key = At(n).key
      /\ s.type = At(n).type /\ s.start = At(n).start
  BY <1>2 DEF Value
<1> HIDE DEF s
<1>5. RowOf(n)' \in RowOfValue(s, types) BY <1>1, <1>3, UpdatedRowIs
<1>6. RowOf(n) \in RowOfValue(At(n), types) BY <1>1, RowIs
<1>7. RowOf(n).exists /\ [RowOf(n) EXCEPT !.active = active] \in RowOfValue(s, types)
  BY <1>4, <1>6 DEF RowOfValue, Ended
<1>8. Table(n)!SetSubscriptionActive(active)
  BY <1>5, <1>7, OneRow DEF Table!SetSubscriptionActive
<1> QED BY <1>1, <1>3, <1>8, UpdateIs

\* A claim finds the lease free or ended and starts one.
LEMMA ClaimMatches ==
  ASSUME SubscriptionsInv, NEW n \in Names, NEW c \in Calls, NEW lease \in Leases,
         ClaimSubscription(n, c.owner, lease)
  PROVE  /\ SubscriptionsInv'
         /\ Table(n)!ClaimSubscription(c.owner)
         /\ \A m \in Names \ {n} : RowOf(m)' = RowOf(m)
<1> DEFINE s == [At(n) EXCEPT !.LeaseOwner = c.owner, !.LeaseExpiresAt = now + lease]
           types == SubscriptionEventTypes[Subscriptions[n]]
<1>1. /\ Exists(n) /\ At(n).Active /\ Update(n, s)
      /\ At(n).LeaseOwner = Nil \/ Ended(At(n))
  BY DEF ClaimSubscription
<1>2. At(n) \in Value BY <1>1, ValueOf
<1>a. now \in Nat /\ lease \in Nat /\ now + lease \in Nat
  BY MemorySubscriptionsAssumption DEF MemorySubscriptionsAssumption, SubscriptionsInv, ValuesInv
<1>3. s \in Value BY <1>2, <1>a DEF Value
<1>4. /\ s.LastEventID = At(n).LastEventID /\ s.Active = At(n).Active
      /\ s.LeaseOwner = c.owner /\ s.LeaseExpiresAt = now + lease
      /\ s.aggType = At(n).aggType /\ s.key = At(n).key
      /\ s.type = At(n).type /\ s.start = At(n).start
  BY <1>2 DEF Value
<1> HIDE DEF s
<1>b. ~Ended(s) BY <1>4, <1>a DEF Ended
<1>5. RowOf(n)' \in RowOfValue(s, types) BY <1>1, <1>3, UpdatedRowIs
<1>6. RowOf(n) \in RowOfValue(At(n), types) BY <1>1, RowIs
<1>7. [RowOf(n) EXCEPT !.owner = c.owner, !.expired = FALSE] \in RowOfValue(s, types)
  BY <1>4, <1>b, <1>6 DEF RowOfValue
<1>8. Table(n)!Free(c.owner) BY <1>1, <1>6 DEF Table!Free, RowOfValue
<1>9. Table(n)!ClaimSubscription(c.owner)
  BY <1>5, <1>7, <1>8, OneRow DEF Table!ClaimSubscription
<1> QED BY <1>1, <1>3, <1>9, UpdateIs

\* A renewal moves the end of the caller's own lease behind the present.
LEMMA RenewMatches ==
  ASSUME SubscriptionsInv, NEW n \in Names, NEW c \in Calls, NEW lease \in Leases,
         RenewSubscription(n, c.owner, lease)
  PROVE  /\ SubscriptionsInv'
         /\ Table(n)!RenewSubscription(c.owner)
         /\ \A m \in Names \ {n} : RowOf(m)' = RowOf(m)
<1> DEFINE s == [At(n) EXCEPT !.LeaseExpiresAt = now + lease]
           types == SubscriptionEventTypes[Subscriptions[n]]
<1>1. Exists(n) /\ At(n).Active /\ At(n).LeaseOwner = c.owner /\ Update(n, s)
  BY DEF RenewSubscription
<1>2. At(n) \in Value BY <1>1, ValueOf
<1>a. now \in Nat /\ lease \in Nat /\ now + lease \in Nat
  BY MemorySubscriptionsAssumption DEF MemorySubscriptionsAssumption, SubscriptionsInv, ValuesInv
<1>3. s \in Value BY <1>2, <1>a DEF Value
<1>4. /\ s.LastEventID = At(n).LastEventID /\ s.Active = At(n).Active
      /\ s.LeaseOwner = At(n).LeaseOwner /\ s.LeaseExpiresAt = now + lease
      /\ s.aggType = At(n).aggType /\ s.key = At(n).key
      /\ s.type = At(n).type /\ s.start = At(n).start
  BY <1>2 DEF Value
<1> HIDE DEF s
<1>b. ~Ended(s) BY <1>4, <1>a DEF Ended
<1>5. RowOf(n)' \in RowOfValue(s, types) BY <1>1, <1>3, UpdatedRowIs
<1>6. RowOf(n) \in RowOfValue(At(n), types) BY <1>1, RowIs
<1>7. [RowOf(n) EXCEPT !.expired = FALSE] \in RowOfValue(s, types)
  BY <1>4, <1>b, <1>6 DEF RowOfValue
<1>8. RowOf(n).owner = c.owner /\ RowOf(n).active BY <1>1, <1>6 DEF RowOfValue
<1>9. Table(n)!RenewSubscription(c.owner)
  BY <1>5, <1>7, <1>8, OneRow DEF Table!RenewSubscription
<1> QED BY <1>1, <1>3, <1>9, UpdateIs

\* A release ends the caller's own lease.
LEMMA ReleaseMatches ==
  ASSUME SubscriptionsInv, NEW n \in Names, NEW c \in Calls, ReleaseSubscription(n, c.owner)
  PROVE  /\ SubscriptionsInv'
         /\ Table(n)!ReleaseSubscription(c.owner)
         /\ \A m \in Names \ {n} : RowOf(m)' = RowOf(m)
<1> DEFINE s == [At(n) EXCEPT !.LeaseOwner = Nil, !.LeaseExpiresAt = 0]
           types == SubscriptionEventTypes[Subscriptions[n]]
<1>1. Exists(n) /\ At(n).LeaseOwner = c.owner /\ Update(n, s) BY DEF ReleaseSubscription
<1>2. At(n) \in Value BY <1>1, ValueOf
<1>3. s \in Value BY <1>2 DEF Value
<1>4. /\ s.LastEventID = At(n).LastEventID /\ s.Active = At(n).Active
      /\ s.LeaseOwner = Nil /\ s.LeaseExpiresAt = 0
      /\ s.aggType = At(n).aggType /\ s.key = At(n).key
      /\ s.type = At(n).type /\ s.start = At(n).start
  BY <1>2 DEF Value
<1> HIDE DEF s
<1>5. RowOf(n)' \in RowOfValue(s, types) BY <1>1, <1>3, UpdatedRowIs
<1>6. RowOf(n) \in RowOfValue(At(n), types) BY <1>1, RowIs
<1>7. /\ RowOf(n).owner = c.owner
      /\ [RowOf(n) EXCEPT !.owner = Nil, !.expired = FALSE] \in RowOfValue(s, types)
  BY <1>1, <1>4, <1>6 DEF RowOfValue
<1>8. Table(n)!ReleaseSubscription(c.owner)
  BY <1>5, <1>7, OneRow DEF Table!ReleaseSubscription
<1> QED BY <1>1, <1>3, <1>8, UpdateIs

\* The cursor goes where the caller says.
LEMMA AdvanceMatches ==
  ASSUME SubscriptionsInv, NEW n \in Names, NEW i \in Nat, AdvanceSubscriptionCursor(n, i)
  PROVE  /\ SubscriptionsInv'
         /\ Table(n)!AdvanceSubscriptionCursor(i)
         /\ \A m \in Names \ {n} : RowOf(m)' = RowOf(m)
<1> DEFINE s == [At(n) EXCEPT !.LastEventID = i]
           types == SubscriptionEventTypes[Subscriptions[n]]
<1>1. Exists(n) /\ Update(n, s) BY DEF AdvanceSubscriptionCursor
<1>2. At(n) \in Value BY <1>1, ValueOf
<1>3. s \in Value BY <1>2 DEF Value
<1>4. /\ s.LastEventID = i /\ s.Active = At(n).Active
      /\ s.LeaseOwner = At(n).LeaseOwner /\ s.LeaseExpiresAt = At(n).LeaseExpiresAt
      /\ s.aggType = At(n).aggType /\ s.key = At(n).key
      /\ s.type = At(n).type /\ s.start = At(n).start
  BY <1>2 DEF Value
<1> HIDE DEF s
<1>5. RowOf(n)' \in RowOfValue(s, types) BY <1>1, <1>3, UpdatedRowIs
<1>6. RowOf(n) \in RowOfValue(At(n), types) BY <1>1, RowIs
<1>7. [RowOf(n) EXCEPT !.cursor = i] \in RowOfValue(s, types)
  BY <1>4, <1>6 DEF RowOfValue, Ended
<1>8. Table(n)!AdvanceSubscriptionCursor(i)
  BY <1>5, <1>7, OneRow DEF Table!AdvanceSubscriptionCursor
<1> QED BY <1>1, <1>3, <1>8, UpdateIs

\* The clock ends leases, and begins none.
LEMMA TickMatches ==
  ASSUME SubscriptionsInv, Tick
  PROVE  SubscriptionsInv' /\ \A n \in Names : UNCHANGED RowOf(n) \/ Table(n)!LeaseExpires
<1>1. now' = now + 1 /\ UNCHANGED <<memoryVars, CapturedEvents, AggregateInv>> BY DEF Tick
<1>2. now \in Nat BY DEF SubscriptionsInv, ValuesInv
<1>3. SubscriptionsInv' BY <1>1, <1>2 DEF SubscriptionsInv, ValuesInv, NamesInv, memoryVars
<1>4. ASSUME NEW n \in Names PROVE UNCHANGED RowOf(n) \/ Table(n)!LeaseExpires
  <2> DEFINE s == At(n)
             types == SubscriptionEventTypes[Subscriptions[n]]
  <2>1. Exists(n)' <=> Exists(n) BY <1>1 DEF Exists, memoryVars
  <2>2. CASE ~Exists(n) BY <2>1, <2>2 DEF RowOf
  <2>3. CASE Exists(n)
    <3>1. s \in Value BY <2>3, ValueOf
    <3>2. s' = s /\ types' = types BY <1>1 DEF At, memoryVars
    <3>3. Ended(s)' <=> s.LeaseExpiresAt < now + 1 BY <1>1, <3>2 DEF Ended
    <3>4. Ended(s) => Ended(s)' BY <1>2, <3>1, <3>3 DEF Ended, Value
    <3>5. RowOf(n) \in RowOfValue(s, types) BY <2>3, RowIs
    <3>6. CASE (s.LeaseOwner # Nil /\ Ended(s)') = (s.LeaseOwner # Nil /\ Ended(s))
      BY <2>1, <2>3, <3>2, <3>6 DEF RowOf
    <3>7. CASE s.LeaseOwner # Nil /\ ~Ended(s) /\ Ended(s)'
      <4>1. /\ RowOf(n).owner # Nil /\ RowOf(n).expired = FALSE
        BY <3>5, <3>7 DEF RowOfValue
      <4>2. RowOf(n)' \in [exists : {TRUE}, cursor : {s.LastEventID}, active : {s.Active},
                           owner : {s.LeaseOwner}, expired : {TRUE},
                           columns : {[aggType |-> s.aggType, key |-> s.key, type |-> s.type]},
                           start : {s.start}, types : {types}]
        BY <2>1, <2>3, <3>2, <3>7 DEF RowOf
      <4> DEFINE row == [exists |-> TRUE, cursor |-> s.LastEventID, active |-> s.Active,
                         owner |-> s.LeaseOwner, expired |-> TRUE,
                         columns |-> [aggType |-> s.aggType, key |-> s.key, type |-> s.type],
                         start |-> s.start, types |-> types]
      <4>3. RowOf(n)' = row BY <4>2
      <4> DEFINE q == [RowOf(n) EXCEPT !.expired = TRUE]
      <4>4. q \in [exists : {TRUE}, cursor : {s.LastEventID}, active : {s.Active},
                   owner : {s.LeaseOwner}, expired : {TRUE},
                   columns : {[aggType |-> s.aggType, key |-> s.key, type |-> s.type]},
                   start : {s.start}, types : {types}]
        BY <3>5 DEF RowOfValue
      <4> HIDE DEF q
      <4>5. q = row BY <4>4
      <4> QED BY <4>1, <4>3, <4>5 DEF q, Table!LeaseExpires
    <3> QED BY <3>4, <3>6, <3>7
  <2> QED BY <2>2, <2>3
<1> QED BY <1>3, <1>4

\* Each statement keeps the invariant, leaves other rows alone and does what the SQL
\* statement of its name does.
LEMMA StatementMatches ==
  ASSUME SubscriptionsInv, NEW n \in Names, Statement(n)
  PROVE  SubscriptionsInv' /\ \A m \in Names \ {n} : RowOf(m)' = RowOf(m)
<1>0. \A i \in 0 .. Len(CapturedEvents) : i \in Nat OBVIOUS
<1> QED BY <1>0, UpsertMatches, ReleaseMatches, ClaimMatches, RenewMatches, AddTypeMatches,
           SetActiveMatches, AdvanceMatches DEF Statement

\* Every step keeps the invariant and does nothing to rows that a statement would not do.
LEMMA NextMatches ==
  ASSUME SubscriptionsInv, [SubscriptionsNext]_subscriptionVars
  PROVE  /\ SubscriptionsInv'
         /\ [\A n \in Names : Matches(n)]_subscriptionVars
<1>0. CASE UNCHANGED subscriptionVars
  BY <1>0 DEF subscriptionVars, memoryVars, SubscriptionsInv, ValuesInv, NamesInv
<1> SUFFICES ASSUME SubscriptionsNext PROVE SubscriptionsInv' /\ \A n \in Names : Matches(n)
  BY <1>0
<1>1. UNCHANGED memoryVars /\ UNCHANGED now => \A n \in Names : UNCHANGED RowOf(n)
  <2> SUFFICES ASSUME UNCHANGED memoryVars, UNCHANGED now, NEW n \in Names PROVE UNCHANGED RowOf(n)
    OBVIOUS
  <2>1. (Exists(n)' <=> Exists(n)) /\ At(n)' = At(n) BY DEF memoryVars, Exists, At
  <2>2. SubscriptionEventTypes[Subscriptions[n]]' = SubscriptionEventTypes[Subscriptions[n]]
    BY DEF memoryVars
  <2> QED BY <2>1, <2>2 DEF RowOf, Ended
<1>2. Tick \/ UNCHANGED now
  BY DEF SubscriptionsNext, Statement, UpsertSubscription, NewSubscription, Update,
         ReleaseSubscription, ClaimSubscription, RenewSubscription, AddSubscriptionEventType,
         SetSubscriptionActive, AdvanceSubscriptionCursor, CaptureEvent, ChangeKey
<1>3. SubscriptionsInv'
  <2>1. ASSUME NEW n \in Names, Statement(n) PROVE SubscriptionsInv' BY <2>1, StatementMatches
  <2>2. CASE CaptureEvent
    BY <2>2 DEF CaptureEvent, memoryVars, SubscriptionsInv, ValuesInv, NamesInv
  <2>3. CASE \E a \in Aggregates, k \in AggregateKeys : ChangeKey(a, k)
    BY <2>3 DEF ChangeKey, memoryVars, SubscriptionsInv, ValuesInv, NamesInv
  <2>4. CASE Tick BY <2>4, TickMatches
  <2> QED BY <2>1, <2>2, <2>3, <2>4 DEF SubscriptionsNext
<1>4. ASSUME NEW n \in Names PROVE Matches(n)
  <2>1. ASSUME NEW c \in Calls
        PROVE  /\ UpsertSubscription(n, c) => Table(n)!UpsertSubscription(c)
               /\ ReleaseSubscription(n, c.owner) => Table(n)!ReleaseSubscription(c.owner)
               /\ \A lease \in Leases :
                    /\ ClaimSubscription(n, c.owner, lease) => Table(n)!ClaimSubscription(c.owner)
                    /\ RenewSubscription(n, c.owner, lease) => Table(n)!RenewSubscription(c.owner)
    BY UpsertMatches, ReleaseMatches, ClaimMatches, RenewMatches
  <2>2. \A t \in EventTypes :
          AddSubscriptionEventType(n, t) => Table(n)!AddSubscriptionEventType(t)
    BY AddTypeMatches
  <2>3. \A active \in BOOLEAN :
          SetSubscriptionActive(n, active) => Table(n)!SetSubscriptionActive(active)
    BY SetActiveMatches
  <2>4. \A i \in 0 .. Len(CapturedEvents) :
          AdvanceSubscriptionCursor(n, i) => Table(n)!AdvanceSubscriptionCursor(i)
    <3>1. \A i \in 0 .. Len(CapturedEvents) : i \in Nat OBVIOUS
    <3> QED BY <3>1, AdvanceMatches
  <2>5. Tick => UNCHANGED RowOf(n) \/ Table(n)!LeaseExpires BY TickMatches
  <2>6. \A m \in Names \ {n} : Statement(m) => UNCHANGED RowOf(n) BY StatementMatches
  <2>7. UNCHANGED memoryVars /\ ~Tick => UNCHANGED RowOf(n) BY <1>1, <1>2
  <2> QED BY <2>1, <2>2, <2>3, <2>4, <2>5, <2>6, <2>7 DEF Matches
<1> QED BY <1>3, <1>4

\* The subscription methods of base/memory.go do to each subscription what the SQL
\* statements of the same names do to its row, and nothing to any other one, for any
\* names, callers, filters and leases (base/storage.go: one interface for all engines).
THEOREM SubscriptionsAreRows == SubscriptionsSpec => ImplementsTable
<1>1. SubscriptionsInit => SubscriptionsInv /\ \A n \in Names : Table(n)!TableInit
  BY InitSubscriptions
<1>2. SubscriptionsInv /\ [SubscriptionsNext]_subscriptionVars => SubscriptionsInv'
  BY NextMatches
<1>3. SubscriptionsInv /\ [SubscriptionsNext]_subscriptionVars
        => [\A n \in Names : Matches(n)]_subscriptionVars
  BY NextMatches
<1> QED BY <1>1, <1>2, <1>3, PTL DEF SubscriptionsSpec, ImplementsTable

-----------------------------------------------------------------------------
(* Their queries.                                                           *)

\* One turn of the loop of GetEventsForSubscription, from the results f before it.
LoopStep(s, types, i, f) ==
  IF i = 0 THEN <<>>
  ELSE IF Len(f[i - 1]) >= Limit \/ Skipped(s, types, i) THEN f[i - 1]
  ELSE Append(f[i - 1], i)
Loops(f, s, types, k) == f = [i \in 0 .. k |-> LoopStep(s, types, i, f)]

\* The recursion has a solution, however many events there are.
LEMMA LoopExists ==
  ASSUME NEW s, NEW types, NEW k \in Nat
  PROVE  \E f : Loops(f, s, types, k)
<1> DEFINE S == {m \in Nat : ~\E f : Loops(f, s, types, m)}
<1>1. SUFFICES ASSUME S # {} PROVE FALSE OBVIOUS
<1>2. PICK m \in S : \A j \in S : m <= j BY <1>1, LeastNumber
<1>3. m \in Nat /\ ~\E f : Loops(f, s, types, m) BY <1>2
<1>4. CASE m = 0
  <2> DEFINE f == [i \in 0 .. 0 |-> <<>>]
  <2>1. \A i \in 0 .. 0 : LoopStep(s, types, i, f) = <<>> BY DEF LoopStep
  <2>2. Loops(f, s, types, 0) BY <2>1 DEF Loops
  <2> QED BY <1>3, <1>4, <2>2
<1>5. CASE m # 0
  <2>1. m - 1 \in Nat /\ m - 1 < m BY <1>3, <1>5
  <2>2. m - 1 \notin S BY <1>2, <1>3, <2>1
  <2>3. PICK f : Loops(f, s, types, m - 1) BY <2>1, <2>2
  <2> DEFINE g == [i \in 0 .. m |-> IF i <= m - 1 THEN f[i] ELSE LoopStep(s, types, i, f)]
  <2>4. \A i \in 0 .. m - 1 : f[i] = LoopStep(s, types, i, f) BY <2>3 DEF Loops
  <2>5. ASSUME NEW i \in 0 .. m PROVE g[i] = LoopStep(s, types, i, g)
    <3>1. g[i] = LoopStep(s, types, i, f)
      <4>1. CASE i <= m - 1
        <5>1. i \in 0 .. m - 1 BY <2>1, <4>1
        <5> QED BY <2>4, <4>1, <5>1
      <4> QED BY <4>1
    <3>2. CASE i = 0 BY <3>1, <3>2 DEF LoopStep
    <3>3. CASE i # 0
      <4>1. i - 1 \in 0 .. m /\ i - 1 <= m - 1 BY <1>3, <3>3
      <4>2. g[i - 1] = f[i - 1] BY <4>1
      <4> HIDE DEF g
      <4> QED BY <3>1, <4>2 DEF LoopStep
    <3> QED BY <3>2, <3>3
  <2>6. g = [i \in 0 .. m |-> g[i]] OBVIOUS
  <2> HIDE DEF g
  <2>7. Loops(g, s, types, m) BY <2>5, <2>6 DEF Loops
  <2> QED BY <1>3, <2>7
<1> QED BY <1>4, <1>5

\* The results are the last value of such a loop.
LEMMA ResultsAre ==
  ASSUME NEW s, NEW types, Len(CapturedEvents) \in Nat
  PROVE  \E f : /\ Loops(f, s, types, Len(CapturedEvents))
                /\ GetEventsForSubscription(s, types) = f[Len(CapturedEvents)]
<1> DEFINE f == CHOOSE f : Loops(f, s, types, Len(CapturedEvents))
<1>1. Loops(f, s, types, Len(CapturedEvents)) BY LoopExists
<1>2. GetEventsForSubscription(s, types) = f[Len(CapturedEvents)]
  BY DEF GetEventsForSubscription, Loops, LoopStep
<1> QED BY <1>1, <1>2

\* The ids up to k that the loop does not skip, and those below id i.
Found(s, types, k) == {i \in 1 .. k : ~Skipped(s, types, i)}
Before(S, i) == {j \in S : j < i}

\* After k events the results are the first ones of those not skipped, in their order,
\* and fewer than Limit only if there are no more.
FirstOnes(r, S) ==
  /\ r \in Seq(Nat)
  /\ Len(r) = IF Cardinality(S) <= Limit THEN Cardinality(S) ELSE Limit
  /\ ToSet(r) = {i \in S : Cardinality(Before(S, i)) < Limit}
  /\ \A i, j \in 1 .. Len(r) : i < j => r[i] < r[j]

\* One more event.
LEMMA LoopTurn ==
  ASSUME NEW s, NEW types, NEW k \in Nat, k # 0, NEW f,
         FirstOnes(f[k - 1], Found(s, types, k - 1))
  PROVE  FirstOnes(LoopStep(s, types, k, f), Found(s, types, k))
<1> DEFINE S == Found(s, types, k - 1)
           T == Found(s, types, k)
           r == f[k - 1]
<1>0. Limit \in Nat /\ Limit # 0
  BY MemorySubscriptionsAssumption DEF MemorySubscriptionsAssumption
<1>1. k - 1 \in Nat OBVIOUS
<1>2. S \in SUBSET (1 .. k - 1) /\ T \in SUBSET (1 .. k) BY DEF Found
<1>3. IsFiniteSet(S) /\ Cardinality(S) \in Nat BY <1>1, <1>2, PositionsCount
<1>4. \A i \in S : i \in Nat /\ i < k BY <1>1, <1>2
<1>5. CASE Skipped(s, types, k)
  <2>1. T = S
    <3>1. \A i \in 1 .. k : i = k \/ i \in 1 .. k - 1 BY <1>1
    <3>2. \A i \in 1 .. k - 1 : i \in 1 .. k BY <1>1
    <3> QED BY <1>5, <3>1, <3>2 DEF Found
  <2>2. LoopStep(s, types, k, f) = r BY <1>5 DEF LoopStep
  <2> QED BY <2>1, <2>2
<1>6. CASE ~Skipped(s, types, k)
  <2>1. T = S \cup {k} /\ k \notin S
    <3>1. \A i \in 1 .. k : i = k \/ i \in 1 .. k - 1 BY <1>1
    <3>2. \A i \in 1 .. k - 1 : i \in 1 .. k /\ i # k BY <1>1
    <3>3. k \in 1 .. k OBVIOUS
    <3> QED BY <1>6, <3>1, <3>2, <3>3 DEF Found
  <2>2. Cardinality(T) = Cardinality(S) + 1 BY <1>3, <2>1, FS_AddElement
  <2>3. Before(T, k) = S /\ \A i \in S : Before(T, i) = Before(S, i)
    <3>1. \A i \in S : ~(k < i) BY <1>4
    <3>2. Before(T, k) = S BY <1>4, <2>1 DEF Before
    <3>3. \A i \in S : Before(T, i) = Before(S, i) BY <2>1, <3>1 DEF Before
    <3> QED BY <3>2, <3>3
  <2>4. {i \in T : Cardinality(Before(T, i)) < Limit}
          = {i \in S : Cardinality(Before(S, i)) < Limit}
              \cup (IF Cardinality(S) < Limit THEN {k} ELSE {})
    BY <2>1, <2>3
  <2> DEFINE first == {i \in S : Cardinality(Before(S, i)) < Limit}
             firstOfT == {i \in T : Cardinality(Before(T, i)) < Limit}
  <2>5. /\ r \in Seq(Nat)
        /\ Len(r) = IF Cardinality(S) <= Limit THEN Cardinality(S) ELSE Limit
        /\ ToSet(r) = first
        /\ \A i, j \in 1 .. Len(r) : i < j => r[i] < r[j]
    BY DEF FirstOnes
  <2>6. first \in SUBSET S OBVIOUS
  <2>7. firstOfT = first \cup (IF Cardinality(S) < Limit THEN {k} ELSE {}) BY <2>4
  <2> HIDE DEF S, T, r, first, firstOfT
  <2>8. CASE Cardinality(S) < Limit
    <3>1. Len(r) = Cardinality(S) /\ ~(Len(r) >= Limit) BY <1>0, <1>3, <2>5, <2>8
    <3>2. LoopStep(s, types, k, f) = Append(r, k) BY <1>6, <3>1 DEF LoopStep, r
    <3>3. /\ Append(r, k) \in Seq(Nat) /\ Len(Append(r, k)) = Len(r) + 1
          /\ Append(r, k)[Len(r) + 1] = k
          /\ \A i \in 1 .. Len(r) : Append(r, k)[i] = r[i]
      BY <2>5
    <3>4. ToSet(Append(r, k)) = ToSet(r) \cup {k}
      <4>1. DOMAIN Append(r, k) = 1 .. Len(r) + 1 /\ DOMAIN r = 1 .. Len(r) BY <2>5
      <4>2. \A i \in 1 .. Len(r) + 1 : i = Len(r) + 1 \/ i \in 1 .. Len(r) BY <2>5
      <4>3. \A i \in 1 .. Len(r) : i \in 1 .. Len(r) + 1 BY <2>5
      <4>4. Len(r) + 1 \in 1 .. Len(r) + 1 BY <2>5
      <4> QED BY <3>3, <4>1, <4>2, <4>3, <4>4 DEF ToSet
    <3>5. \A i \in 1 .. Len(r) : r[i] \in S BY <2>5, <2>6 DEF ToSet
    <3>6. \A i, j \in 1 .. Len(r) + 1 : i < j => Append(r, k)[i] < Append(r, k)[j]
      <4> SUFFICES ASSUME NEW i \in 1 .. Len(r) + 1, NEW j \in 1 .. Len(r) + 1, i < j
                   PROVE  Append(r, k)[i] < Append(r, k)[j]
        OBVIOUS
      <4>1. i \in 1 .. Len(r) BY <2>5
      <4>2. CASE j = Len(r) + 1 BY <1>4, <3>3, <3>5, <4>1, <4>2
      <4>3. CASE j # Len(r) + 1
        <5>1. j \in Nat /\ 1 <= j /\ j <= Len(r) + 1 /\ Len(r) \in Nat BY <2>5
        <5>2. j \in 1 .. Len(r) BY <4>3, <5>1
        <5> QED BY <2>5, <3>3, <4>1, <5>2
      <4> QED BY <4>2, <4>3
    <3>7. Len(Append(r, k)) = IF Cardinality(T) <= Limit THEN Cardinality(T) ELSE Limit
      BY <1>0, <1>3, <2>2, <2>8, <3>1, <3>3
    <3>8. ToSet(Append(r, k)) = firstOfT BY <2>5, <2>7, <2>8, <3>4
    <3> QED BY <3>2, <3>3, <3>6, <3>7, <3>8 DEF FirstOnes, firstOfT, T
  <2>9. CASE ~(Cardinality(S) < Limit)
    <3>1. Len(r) >= Limit BY <1>0, <1>3, <2>5, <2>9
    <3>2. LoopStep(s, types, k, f) = r BY <3>1 DEF LoopStep, r
    <3>3. Len(r) = IF Cardinality(T) <= Limit THEN Cardinality(T) ELSE Limit
      BY <1>0, <1>3, <2>2, <2>5, <2>9
    <3>4. ToSet(r) = firstOfT BY <2>5, <2>7, <2>9
    <3> QED BY <2>5, <3>2, <3>3, <3>4 DEF FirstOnes, firstOfT, T
  <2> QED BY <2>8, <2>9
<1> QED BY <1>5, <1>6

\* After every event: by a least counterexample.
LEMMA LoopFinds ==
  ASSUME NEW s, NEW types, NEW n \in Nat, NEW f, Loops(f, s, types, n)
  PROVE  FirstOnes(f[n], Found(s, types, n))
<1> DEFINE S == {m \in 0 .. n : ~FirstOnes(f[m], Found(s, types, m))}
<1>1. SUFFICES ASSUME S # {} PROVE FALSE
  <2>1. n \in 0 .. n OBVIOUS
  <2> QED BY <1>1, <2>1
<1>2. PICK m \in S : \A j \in S : m <= j
  <2>1. S \in SUBSET Nat OBVIOUS
  <2> HIDE DEF S
  <2> QED BY <1>1, <2>1, LeastNumber
<1>3. m \in Nat /\ m <= n /\ ~FirstOnes(f[m], Found(s, types, m)) BY <1>2
<1>4. f[m] = LoopStep(s, types, m, f) BY <1>3 DEF Loops
<1>5. CASE m = 0
  <2>1. f[m] = <<>> BY <1>4, <1>5 DEF LoopStep
  <2>2. Found(s, types, m) = {} BY <1>5 DEF Found
  <2>3. Cardinality({}) = 0 BY FS_EmptySet
  <2>4. Limit \in Nat BY MemorySubscriptionsAssumption DEF MemorySubscriptionsAssumption
  <2>5. FirstOnes(<<>>, {}) BY <2>3, <2>4 DEF FirstOnes, ToSet
  <2> QED BY <1>3, <2>1, <2>2, <2>5
<1>6. CASE m # 0
  <2>1. m - 1 \in 0 .. n /\ m - 1 < m BY <1>3, <1>6
  <2>2. m - 1 \notin S BY <1>2, <1>3, <2>1
  <2>3. FirstOnes(f[m - 1], Found(s, types, m - 1)) BY <2>1, <2>2
  <2> QED BY <1>3, <1>4, <1>6, <2>3, LoopTurn
<1> QED BY <1>5, <1>6

\* The loop skips what the WHERE clause does not select.
LEMMA SkippedIsNotSelected ==
  ASSUME SubscriptionsInv, NEW n \in Names, Exists(n), NEW i \in 1 .. Len(CapturedEvents)
  PROVE  LET r == RowOf(n)
         IN ~Skipped(At(n), r.types, i) <=> i > r.cursor /\ Table(n)!Selects(r.columns, r.types, i)
<1> DEFINE s == At(n)
           types == SubscriptionEventTypes[Subscriptions[n]]
<1>1. s \in Value BY ValueOf
<1>2. RowOf(n) \in RowOfValue(s, types) BY RowIs
<1>3. /\ RowOf(n).types = types /\ RowOf(n).cursor = s.LastEventID
      /\ RowOf(n).columns = [aggType |-> s.aggType, key |-> s.key, type |-> s.type]
  BY <1>2 DEF RowOfValue
<1>4. i > s.LastEventID <=> ~(i <= s.LastEventID) BY <1>1 DEF Value
<1> QED BY <1>3, <1>4 DEF Skipped, Table!Selects

\* GetEventsForSubscription and GetFirstEventIdFromTimestamp of base/memory.go find what
\* the SQL queries find, in the order of ids, for any events, filters, keys and limit.
THEOREM LoopsFindWhatQueriesFind == SubscriptionsSpec => []QueriesAgree
<1>1. SubscriptionsInit => SubscriptionsInv BY InitSubscriptions
<1>2. SubscriptionsInv /\ [SubscriptionsNext]_subscriptionVars => SubscriptionsInv'
  BY NextMatches
<1>3. ASSUME SubscriptionsInv PROVE QueriesAgree
  <2> DEFINE L == Len(CapturedEvents)
  <2>0. L \in Nat BY <1>3 DEF SubscriptionsInv, ValuesInv
  <2>1. ASSUME NEW n \in Names, Exists(n)
        PROVE  LET r == RowOf(n)
                   found == GetEventsForSubscription(At(n), r.types)
               IN /\ ToSet(found) = Table(n)!EventsFor(r.cursor, r.columns, r.types)
                  /\ IsSorted(found, <)
    <3> DEFINE r == RowOf(n)
               found == GetEventsForSubscription(At(n), r.types)
               S == Found(At(n), r.types, L)
               later == {i \in PositionsOf :
                           i > r.cursor /\ Table(n)!Selects(r.columns, r.types, i)}
    <3>1. PICK f : Loops(f, At(n), r.types, L) /\ found = f[L] BY <2>0, ResultsAre
    <3>2. FirstOnes(found, S) BY <2>0, <3>1, LoopFinds
    <3>3. later = S BY <1>3, <2>1, SkippedIsNotSelected DEF Found, PositionsOf
    <3>4. \A i \in later :
            Table(n)!Cardinality({j \in later : j < i}) = Cardinality(Before(later, i))
      BY TableCounts DEF Before
    <3>5. Table(n)!EventsFor(r.cursor, r.columns, r.types)
            = {i \in later : Table(n)!Cardinality({j \in later : j < i}) < Limit}
      BY DEF Table!EventsFor
    <3>6. ToSet(found) = Table(n)!EventsFor(r.cursor, r.columns, r.types)
      BY <3>2, <3>3, <3>4, <3>5 DEF FirstOnes
    <3>7. IsSorted(found, <) BY <3>2 DEF FirstOnes, IsSorted
    <3> QED BY <3>6, <3>7
  <2>2. ASSUME NEW n \in Names, NEW t \in 0 .. MaxTime + 1
        PROVE  GetFirstEventIdFromTimestamp(t) = Table(n)!FirstIdFrom(t)
    BY DEF GetFirstEventIdFromTimestamp, SelectInSeq, Table!FirstIdFrom, PositionsOf, Min, Table!Min
  <2> QED BY <2>1, <2>2 DEF QueriesAgree
<1> QED BY <1>1, <1>2, <1>3, PTL DEF SubscriptionsSpec
=============================================================================
