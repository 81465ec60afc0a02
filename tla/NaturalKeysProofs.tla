-------------------------- MODULE NaturalKeysProofs --------------------------
(***************************************************************************)
(* Natural keys are unique and load-or-create agrees, for any number of    *)
(* transactions, aggregates and keys.                                      *)
(***************************************************************************)
EXTENDS NaturalKeys, TLAPS

-----------------------------------------------------------------------------
(* The invariant.                                                           *)

\* The arguments of a statement are what the code has put there.
ArgumentsOK ==
  \A c \in Clients :
    /\ pc[c] \in {"create", "create_or_load", "load", "change"} => want[c] \in Want
    /\ pc[c] \in {"create", "create_or_load", "load"} => want[c].type \in Types
    /\ pc[c] \in {"create", "create_or_load"} => want[c].id = NoRow
    /\ pc[c] \in {"create_or_load", "load", "change"} => want[c].key \in Keys
    /\ pc[c] = "change" => want[c].id \in Ids

TypeInv == TypeOK /\ ArgumentsOK

\* The lock of a row belongs to one transaction, and so does a key that is new.
LocksInv ==
  \A c, d \in Clients : c # d =>
    /\ Changed(c) \cap Changed(d) = {}
    /\ \A a \in Changed(c), b \in Changed(d) : ~SameKey(own[c][a], own[d][b])

Unique(table) ==
  \A a, b \in Ids : table[a] # NoRow /\ table[b] # NoRow /\ table[a].key = table[b].key
                      => a = b \/ table[a].key = NoKey

UniqueInv == Unique(rows) /\ \A c \in Clients : Unique(View(c))

\* No statement takes the key away from a row that others can see.
KeyedInv ==
  \A c \in Clients : \A a \in Changed(c) : rows[a] # NoRow => own[c][a].key # NoKey

HasKey(a, k) == rows[a] # NoRow /\ rows[a].key = k

\* An answer holds in the table, or its row is c's own, or history knows that the key
\* was changed.
AnswersInv ==
  /\ \A t \in told : HasKey(t.id, t.key)
  /\ \A c \in Clients : \A t \in answers[c] :
       \/ t.id \in moved
       \/ t.id \in Changed(c) /\ own[c][t.id].key # NoKey
       \/ t.id \notin Changed(c) /\ HasKey(t.id, t.key)

KeysInv == TypeInv /\ LocksInv /\ UniqueInv /\ KeyedInv /\ AnswersInv

\* The empty database.
LEMMA InitKeys == Init => KeysInv
<1> SUFFICES ASSUME Init PROVE KeysInv OBVIOUS
<1>1. TypeInv BY DEF Init, NoRows, TypeInv, TypeOK, ArgumentsOK
<1>2. \A c \in Clients : Changed(c) = {} BY DEF Init, NoRows, Changed
<1>3. \A c \in Clients : \A a \in Ids : View(c)[a] = NoRow BY DEF Init, NoRows, View
<1>4. UniqueInv BY <1>3 DEF Init, NoRows, UniqueInv, Unique
<1> QED BY <1>1, <1>2, <1>4 DEF KeysInv, LocksInv, KeyedInv, AnswersInv, Init

\* What a statement is about to write is a row.
LEMMA NewRowType ==
  ASSUME TypeInv, NEW c \in Clients, Writes(c)
  PROVE  /\ NewRow(c) \in Row /\ NewRow(c) # NoRow /\ NewRow(c).key = want[c].key
         /\ pc[c] # "create" => NewRow(c).key # NoKey
<1>a. NoKey \notin Keys /\ NoRow \notin Row
  BY NaturalKeysAssumption DEF NaturalKeysAssumption, Row
<1>1. CASE pc[c] \in {"create", "create_or_load"}
  <2>1. want[c] \in Want /\ want[c].type \in Types BY <1>1 DEF TypeInv, ArgumentsOK
  <2>2. NewRow(c) = [type |-> want[c].type, key |-> want[c].key] BY <1>1 DEF NewRow
  <2>3. pc[c] = "create_or_load" => want[c].key \in Keys BY <1>1 DEF TypeInv, ArgumentsOK
  <2> QED BY <1>1, <1>a, <2>1, <2>2, <2>3 DEF Want, Row
<1>2. CASE pc[c] = "change"
  <2>1. want[c].id \in Ids /\ want[c].key \in Keys BY <1>2 DEF TypeInv, ArgumentsOK
  <2>2. View(c)[want[c].id] # NoRow BY <1>2 DEF Writes
  <2>3. View(c)[want[c].id] \in Row BY <2>1, <2>2 DEF TypeInv, TypeOK, View
  <2>4. NewRow(c) = [View(c)[want[c].id] EXCEPT !.key = want[c].key] BY <1>2 DEF NewRow
  <2> QED BY <1>2, <1>a, <2>1, <2>3, <2>4 DEF Row
<1> QED BY <1>1, <1>2 DEF Writes

\* A row that is written where no other transaction has written, with a key that
\* none has and c does not see elsewhere.
LEMMA WriteKeepsUnique ==
  ASSUME TypeInv, LocksInv, UniqueInv, KeyedInv, NEW c \in Clients, NEW a \in Ids, NEW r \in Row,
         r # NoRow,
         \A d \in Clients \ {c} : a \notin Changed(d) /\ \A b \in Changed(d) : ~SameKey(own[d][b], r),
         \A b \in Ids \ {a} : View(c)[b] # NoRow => ~SameKey(View(c)[b], r),
         rows[a] # NoRow => r.key # NoKey,
         own' = [own EXCEPT ![c][a] = r], rows' = rows
  PROVE  LocksInv' /\ UniqueInv' /\ KeyedInv'
<1>1. /\ \A b \in Ids : own'[c][b] = IF b = a THEN r ELSE own[c][b]
      /\ \A d \in Clients \ {c} : own'[d] = own[d]
  BY DEF TypeInv, TypeOK
<1>2. Changed(c)' = Changed(c) \cup {a} BY <1>1 DEF Changed
<1>3. \A d \in Clients \ {c} : Changed(d)' = Changed(d) BY <1>1 DEF Changed
<1>4. /\ \A b \in Ids : View(c)'[b] = IF b = a THEN r ELSE View(c)[b]
      /\ \A d \in Clients \ {c} : View(d)' = View(d)
  BY <1>1 DEF View
<1>5. LocksInv'
  <2>1. ASSUME NEW d \in Clients, d # c
        PROVE  /\ Changed(c)' \cap Changed(d)' = {}
               /\ \A b \in Changed(c)', e \in Changed(d)' : ~SameKey(own'[c][b], own'[d][e])
               /\ \A b \in Changed(d)', e \in Changed(c)' : ~SameKey(own'[d][b], own'[c][e])
    <3>1. Changed(c)' \cap Changed(d)' = {} BY <1>2, <1>3, <2>1 DEF LocksInv
    <3>2. \A b \in Changed(c), e \in Changed(d) : ~SameKey(own[c][b], own[d][e])
      BY <2>1 DEF LocksInv
    <3>3. \A e \in Changed(d) : ~SameKey(own[d][e], r) /\ ~SameKey(r, own[d][e])
      BY <2>1 DEF SameKey
    <3>4. \A b \in Changed(c)', e \in Changed(d)' : ~SameKey(own'[c][b], own'[d][e])
      BY <1>1, <1>2, <1>3, <2>1, <3>2, <3>3 DEF Changed
    <3>5. \A b \in Changed(d)', e \in Changed(c)' : ~SameKey(own'[d][b], own'[c][e])
      BY <3>4 DEF SameKey
    <3> QED BY <3>1, <3>4, <3>5
  <2>2. ASSUME NEW d \in Clients, NEW e \in Clients, d # e, d # c, e # c
        PROVE  /\ Changed(d)' \cap Changed(e)' = {}
               /\ \A b \in Changed(d)', f \in Changed(e)' : ~SameKey(own'[d][b], own'[e][f])
    BY <1>1, <1>3, <2>2 DEF LocksInv
  <2> QED BY <2>1, <2>2 DEF LocksInv
<1>6. UniqueInv'
  <2>1. Unique(View(c))'
    <3>1. Unique(View(c)) BY DEF UniqueInv
    <3> QED BY <1>4, <3>1 DEF Unique, SameKey
  <2>2. \A d \in Clients \ {c} : Unique(View(d))' BY <1>4 DEF UniqueInv, Unique
  <2>3. Unique(rows)' BY DEF UniqueInv, Unique
  <2> QED BY <2>1, <2>2, <2>3 DEF UniqueInv
<1>7. KeyedInv'
  <2>1. \A b \in Changed(c)' : rows'[b] # NoRow => own'[c][b].key # NoKey
    BY <1>1, <1>2 DEF KeyedInv, Changed
  <2>2. \A d \in Clients \ {c} : \A b \in Changed(d)' : rows'[b] # NoRow => own'[d][b].key # NoKey
    BY <1>1, <1>3 DEF KeyedInv
  <2> QED BY <2>1, <2>2 DEF KeyedInv
<1> QED BY <1>5, <1>6, <1>7

\* A step that writes no row.
LEMMA NoWriteKeeps ==
  ASSUME LocksInv, UniqueInv, KeyedInv, UNCHANGED <<rows, own>>
  PROVE  /\ LocksInv' /\ UniqueInv' /\ KeyedInv'
         /\ \A d \in Clients : Changed(d)' = Changed(d) /\ View(d)' = View(d)
BY DEF LocksInv, UniqueInv, Unique, KeyedInv, Changed, View

\* Statements start.
LEMMA StartKeepsKeys ==
  ASSUME KeysInv, NEW c \in Clients, NEW l \in {"create", "create_or_load", "load", "change"},
         NEW w \in Want, Start(c, l, w), UNCHANGED <<rows, own, answers, history>>,
         l # "change" => w.type \in Types,
         l \in {"create", "create_or_load"} => w.id = NoRow,
         l # "create" => w.key \in Keys,
         l = "change" => w.id \in Ids
  PROVE  KeysInv'
<1>1. LocksInv' /\ UniqueInv' /\ KeyedInv' /\ \A d \in Clients : Changed(d)' = Changed(d)
  BY NoWriteKeeps DEF KeysInv
<1>2. TypeOK' BY DEF KeysInv, TypeInv, TypeOK, Start, history
<1>3. /\ pc'[c] = l /\ want'[c] = w
      /\ \A d \in Clients \ {c} : pc'[d] = pc[d] /\ want'[d] = want[d]
  BY DEF KeysInv, TypeInv, TypeOK, Start
<1>4. ArgumentsOK'
  <2>1. ASSUME NEW d \in Clients, d # c
        PROVE  /\ pc'[d] \in {"create", "create_or_load", "load", "change"} => want'[d] \in Want
               /\ pc'[d] \in {"create", "create_or_load", "load"} => want'[d].type \in Types
               /\ pc'[d] \in {"create", "create_or_load"} => want'[d].id = NoRow
               /\ pc'[d] \in {"create_or_load", "load", "change"} => want'[d].key \in Keys
               /\ pc'[d] = "change" => want'[d].id \in Ids
    BY <1>3, <2>1 DEF KeysInv, TypeInv, ArgumentsOK
  <2> QED BY <1>3, <2>1 DEF ArgumentsOK
<1>5. AnswersInv' BY <1>1 DEF KeysInv, AnswersInv, HasKey, history
<1> QED BY <1>1, <1>2, <1>4, <1>5 DEF KeysInv, TypeInv

\* A statement is over; c is in its callback or out of its context.
LEMMA EndTypes ==
  ASSUME TypeInv, NEW c \in Clients, Return(c) \/ Leave(c)
  PROVE  /\ pc' \in [Clients -> {"idle", "open", "create", "create_or_load", "load", "change"}]
         /\ want' \in [Clients -> Want \cup {NoStatement}]
         /\ ArgumentsOK'
<1>1. /\ pc'[c] \in {"idle", "open"}
      /\ \A d \in Clients \ {c} : pc'[d] = pc[d] /\ want'[d] = want[d]
  BY DEF TypeInv, TypeOK, Return, Leave
<1>2. ArgumentsOK' BY <1>1 DEF TypeInv, ArgumentsOK
<1> QED BY <1>2 DEF TypeInv, TypeOK, Return, Leave

\* INSERT INTO aggregates.
LEMMA InsertKeepsKeys == ASSUME KeysInv, NEW c \in Clients, Insert(c) PROVE KeysInv'
<1>a. /\ TypeInv /\ LocksInv /\ UniqueInv /\ KeyedInv /\ AnswersInv
      /\ own \in [Clients -> [Ids -> Row \cup {NoRow}]] /\ answers \in [Clients -> SUBSET Answer]
  BY DEF KeysInv, TypeInv, TypeOK
<1>b. Writes(c) /\ want[c].id = NoRow /\ NoRow \notin Ids
  BY <1>a, NaturalKeysAssumption DEF Insert, Writes, TypeInv, ArgumentsOK, NaturalKeysAssumption
<1>1. PICK a \in Unused :
        /\ own' = [own EXCEPT ![c][a] = NewRow(c)]
        /\ \/ pc[c] = "create" /\ UNCHANGED answers
           \/ pc[c] = "create_or_load" /\ Remember(c, a)
  BY DEF Insert
<1> DEFINE r == NewRow(c)
<1>2. r \in Row /\ r # NoRow /\ r.key = want[c].key /\ (pc[c] # "create" => r.key # NoKey)
  BY <1>a, <1>b, NewRowType
<1>3. a \in Ids /\ rows[a] = NoRow /\ \A d \in Clients : a \notin Changed(d)
  BY <1>1 DEF Unused, Changed
<1>4. \A d \in Clients \ {c} : \A b \in Changed(d) : ~SameKey(own[d][b], r)
  BY <1>b DEF Insert, Runs, WaitsFor
<1>5. \A b \in Ids \ {a} : View(c)[b] # NoRow => ~SameKey(View(c)[b], r)
  BY <1>b DEF Insert, Taken
<1>6. rows' = rows /\ told' = told /\ moved' = moved BY DEF Insert, history
<1>7. LocksInv' /\ UniqueInv' /\ KeyedInv'
  BY <1>a, <1>1, <1>2, <1>3, <1>4, <1>5, <1>6, WriteKeepsUnique
<1>8. own' \in [Clients -> [Ids -> Row \cup {NoRow}]] BY <1>a, <1>1, <1>2, <1>3
<1>9. answers' \in [Clients -> SUBSET Answer]
  <2>1. pc[c] = "create_or_load" => want[c].key \in Keys BY <1>a DEF TypeInv, ArgumentsOK
  <2> QED BY <1>a, <1>1, <1>3, <2>1 DEF Remember, Answer
<1>10. TypeInv'
  BY <1>a, <1>6, <1>8, <1>9, EndTypes DEF Insert, TypeInv, TypeOK
<1>11. /\ \A b \in Ids : own'[c][b] = IF b = a THEN r ELSE own[c][b]
       /\ \A d \in Clients \ {c} : own'[d] = own[d] /\ answers'[d] = answers[d]
       /\ \A t \in answers'[c] : t \in answers[c] \/ (t.id = a /\ pc[c] = "create_or_load")
  BY <1>a, <1>1, <1>3 DEF Remember
<1>12. /\ Changed(c)' = Changed(c) \cup {a}
       /\ \A d \in Clients \ {c} : Changed(d)' = Changed(d)
  BY <1>2, <1>3, <1>11 DEF Changed
<1>13. ASSUME NEW t \in answers[c]
       PROVE  \/ t.id \in moved
              \/ t.id \in Changed(c)' /\ own'[c][t.id].key # NoKey
              \/ t.id \notin Changed(c)' /\ HasKey(t.id, t.key)
  <2>1. t.id \in Ids BY <1>a DEF Answer
  <2>2. \/ t.id \in moved
        \/ t.id \in Changed(c) /\ own[c][t.id].key # NoKey
        \/ t.id \notin Changed(c) /\ HasKey(t.id, t.key)
    BY <1>a DEF AnswersInv
  <2> QED BY <1>3, <1>11, <1>12, <2>1, <2>2 DEF HasKey
<1>14. AnswersInv'
  <2>1. \A t \in told' : HasKey(t.id, t.key)' BY <1>a, <1>6 DEF AnswersInv, HasKey
  <2>2. ASSUME NEW t \in answers'[c]
        PROVE  \/ t.id \in moved'
               \/ t.id \in Changed(c)' /\ own'[c][t.id].key # NoKey
               \/ t.id \notin Changed(c)' /\ HasKey(t.id, t.key)'
    <3>1. CASE t \in answers[c] BY <3>1, <1>6, <1>13 DEF HasKey
    <3>2. CASE t.id = a /\ pc[c] = "create_or_load" BY <3>2, <1>2, <1>3, <1>11, <1>12
    <3> QED BY <2>2, <3>1, <3>2, <1>11
  <2>3. ASSUME NEW d \in Clients, d # c, NEW t \in answers'[d]
        PROVE  \/ t.id \in moved'
               \/ t.id \in Changed(d)' /\ own'[d][t.id].key # NoKey
               \/ t.id \notin Changed(d)' /\ HasKey(t.id, t.key)'
    <3>1. t \in answers[d] BY <2>3, <1>11
    <3> QED BY <2>3, <3>1, <1>a, <1>6, <1>11, <1>12 DEF AnswersInv, HasKey
  <2> QED BY <2>1, <2>2, <2>3 DEF AnswersInv
<1> QED BY <1>7, <1>10, <1>14 DEF KeysInv

\* The load by key that follows a load-or-create.
LEMMA LoadKeepsKeys == ASSUME KeysInv, NEW c \in Clients, LoadByKey(c) PROVE KeysInv'
<1>a. /\ TypeInv /\ LocksInv /\ UniqueInv /\ KeyedInv /\ AnswersInv
      /\ answers \in [Clients -> SUBSET Answer] /\ want[c].key \in Keys /\ NoKey \notin Keys
  BY NaturalKeysAssumption
     DEF KeysInv, TypeInv, TypeOK, LoadByKey, ArgumentsOK, NaturalKeysAssumption
<1>1. PICK b \in WithKey(c, want[c].type, want[c].key) : Remember(c, b) BY DEF LoadByKey
<1>2. rows' = rows /\ own' = own /\ told' = told /\ moved' = moved BY DEF LoadByKey, history
<1>3. LocksInv' /\ UniqueInv' /\ KeyedInv' /\ \A d \in Clients : Changed(d)' = Changed(d)
  BY <1>a, <1>2, NoWriteKeeps
<1>4. b \in Ids /\ View(c)[b] = [type |-> want[c].type, key |-> want[c].key]
  BY <1>1 DEF WithKey
<1>5. answers' \in [Clients -> SUBSET Answer] BY <1>a, <1>1, <1>4 DEF Remember, Answer
<1>6. TypeInv' BY <1>a, <1>2, <1>5, EndTypes DEF LoadByKey, TypeInv, TypeOK
<1>7. /\ \A d \in Clients \ {c} : answers'[d] = answers[d]
      /\ \A t \in answers'[c] : t \in answers[c] \/ (t.id = b /\ t.key = want[c].key)
  BY <1>a, <1>1 DEF Remember
<1>8. View(c)[b] # NoRow /\ View(c)[b].key = want[c].key
  <2>1. want[c].type \in Types BY DEF KeysInv, TypeInv, ArgumentsOK, LoadByKey
  <2> QED BY <1>a, <1>4, <2>1, NaturalKeysAssumption DEF NaturalKeysAssumption
<1>9. AnswersInv'
  <2>1. \A t \in told' : HasKey(t.id, t.key)' BY <1>a, <1>2 DEF AnswersInv, HasKey
  <2>2. ASSUME NEW t \in answers'[c]
        PROVE  \/ t.id \in moved'
               \/ t.id \in Changed(c)' /\ own'[c][t.id].key # NoKey
               \/ t.id \notin Changed(c)' /\ HasKey(t.id, t.key)'
    <3>1. CASE t \in answers[c] BY <3>1, <1>a, <1>2, <1>3 DEF AnswersInv, HasKey
    <3>2. CASE t.id = b /\ t.key = want[c].key
      <4>1. CASE b \in Changed(c) BY <3>2, <4>1, <1>a, <1>2, <1>3, <1>4, <1>8 DEF Changed, View
      <4>2. CASE b \notin Changed(c)
        BY <3>2, <4>2, <1>a, <1>2, <1>3, <1>4, <1>8 DEF Changed, View, HasKey
      <4> QED BY <4>1, <4>2
    <3> QED BY <2>2, <3>1, <3>2, <1>7
  <2>3. ASSUME NEW d \in Clients, d # c, NEW t \in answers'[d]
        PROVE  \/ t.id \in moved'
               \/ t.id \in Changed(d)' /\ own'[d][t.id].key # NoKey
               \/ t.id \notin Changed(d)' /\ HasKey(t.id, t.key)'
    <3>1. t \in answers[d] BY <2>3, <1>7
    <3> QED BY <2>3, <3>1, <1>a, <1>2, <1>3 DEF AnswersInv, HasKey
  <2> QED BY <2>1, <2>2, <2>3 DEF AnswersInv
<1> QED BY <1>3, <1>6, <1>9 DEF KeysInv

\* UPDATE aggregates SET natural_key.
LEMMA UpdateKeepsKeys == ASSUME KeysInv, NEW c \in Clients, Update(c) PROVE KeysInv'
<1> DEFINE a == want[c].id
           r == NewRow(c)
<1>a. /\ TypeInv /\ LocksInv /\ UniqueInv /\ KeyedInv /\ AnswersInv
      /\ own \in [Clients -> [Ids -> Row \cup {NoRow}]] /\ answers \in [Clients -> SUBSET Answer]
  BY DEF KeysInv, TypeInv, TypeOK
<1>b. pc[c] = "change" /\ a \in Ids /\ want[c].key \in Keys
  BY <1>a DEF Update, TypeInv, ArgumentsOK
<1>c. rows' = rows /\ told' = told /\ moved' = moved /\ answers' = answers BY DEF Update, history
<1>1. CASE own' = own
  <2>1. LocksInv' /\ UniqueInv' /\ KeyedInv' /\ \A d \in Clients : Changed(d)' = Changed(d)
    BY <1>1, <1>a, <1>c, NoWriteKeeps
  <2>2. TypeInv' BY <1>1, <1>a, <1>c, EndTypes DEF Update, TypeInv, TypeOK
  <2>3. AnswersInv' BY <1>1, <1>a, <1>c, <2>1 DEF AnswersInv, HasKey
  <2> QED BY <2>1, <2>2, <2>3 DEF KeysInv
<1>2. CASE Writes(c) /\ ~Taken(c) /\ own' = [own EXCEPT ![c][a] = r]
  <2>1. r \in Row /\ r # NoRow /\ r.key # NoKey BY <1>2, <1>a, <1>b, NewRowType
  <2>2. \A d \in Clients \ {c} : a \notin Changed(d) /\ \A b \in Changed(d) : ~SameKey(own[d][b], r)
    BY <1>2 DEF Update, Runs, WaitsFor
  <2>3. \A b \in Ids \ {a} : View(c)[b] # NoRow => ~SameKey(View(c)[b], r) BY <1>2 DEF Taken
  <2>4. LocksInv' /\ UniqueInv' /\ KeyedInv'
    BY <1>2, <1>a, <1>b, <1>c, <2>1, <2>2, <2>3, WriteKeepsUnique
  <2>5. own' \in [Clients -> [Ids -> Row \cup {NoRow}]] BY <1>2, <1>a, <1>b, <2>1
  <2>6. TypeInv' BY <1>a, <1>c, <2>5, EndTypes DEF Update, TypeInv, TypeOK
  <2>7. /\ \A b \in Ids : own'[c][b] = IF b = a THEN r ELSE own[c][b]
        /\ \A d \in Clients \ {c} : own'[d] = own[d]
    BY <1>2, <1>a, <1>b
  <2>8. /\ Changed(c)' = Changed(c) \cup {a}
        /\ \A d \in Clients \ {c} : Changed(d)' = Changed(d)
    BY <1>b, <2>1, <2>7 DEF Changed
  <2>9. AnswersInv'
    <3>1. \A t \in told' : HasKey(t.id, t.key)' BY <1>a, <1>c DEF AnswersInv, HasKey
    <3>2. ASSUME NEW t \in answers[c]
          PROVE  \/ t.id \in moved
                 \/ t.id \in Changed(c)' /\ own'[c][t.id].key # NoKey
                 \/ t.id \notin Changed(c)' /\ HasKey(t.id, t.key)'
      <4>1. t.id \in Ids BY <1>a DEF Answer
      <4>2. \/ t.id \in moved
            \/ t.id \in Changed(c) /\ own[c][t.id].key # NoKey
            \/ t.id \notin Changed(c) /\ HasKey(t.id, t.key)
        BY <1>a DEF AnswersInv
      <4> QED BY <1>b, <1>c, <2>1, <2>7, <2>8, <4>1, <4>2 DEF HasKey
    <3>3. ASSUME NEW d \in Clients, d # c, NEW t \in answers[d]
          PROVE  \/ t.id \in moved
                 \/ t.id \in Changed(d)' /\ own'[d][t.id].key # NoKey
                 \/ t.id \notin Changed(d)' /\ HasKey(t.id, t.key)'
      BY <3>3, <1>a, <1>c, <2>7, <2>8 DEF AnswersInv, HasKey
    <3> QED BY <1>c, <3>1, <3>2, <3>3 DEF AnswersInv
  <2> QED BY <2>4, <2>6, <2>9 DEF KeysInv
<1> QED BY <1>1, <1>2 DEF Update

\* A context begins.
LEMMA BeginKeepsKeys == ASSUME KeysInv, NEW c \in Clients, Begin(c) PROVE KeysInv'
<1>1. /\ UNCHANGED <<rows, own, want, answers, told, moved>>
      /\ pc'[c] = "open" /\ \A d \in Clients \ {c} : pc'[d] = pc[d]
  BY DEF Begin, KeysInv, TypeInv, TypeOK, history
<1>2. LocksInv' /\ UniqueInv' /\ KeyedInv' /\ \A d \in Clients : Changed(d)' = Changed(d)
  BY <1>1, NoWriteKeeps DEF KeysInv
<1>3. TypeInv'
  <2>1. TypeOK' BY <1>1 DEF Begin, KeysInv, TypeInv, TypeOK
  <2>2. ArgumentsOK' BY <1>1 DEF KeysInv, TypeInv, ArgumentsOK
  <2> QED BY <2>1, <2>2 DEF TypeInv
<1>4. AnswersInv' BY <1>1, <1>2 DEF KeysInv, AnswersInv, HasKey
<1> QED BY <1>2, <1>3, <1>4 DEF KeysInv

\* The rows of c are gone, or have become the table's.
LEMMA LeaveTypes ==
  ASSUME TypeInv, NEW c \in Clients, Leave(c)
  PROVE  /\ own' \in [Clients -> [Ids -> Row \cup {NoRow}]] /\ answers' \in [Clients -> SUBSET Answer]
         /\ Changed(c)' = {} /\ answers'[c] = {} /\ \A b \in Ids : own'[c][b] = NoRow
         /\ \A d \in Clients \ {c} :
              own'[d] = own[d] /\ answers'[d] = answers[d] /\ Changed(d)' = Changed(d)
<1>1. /\ own' \in [Clients -> [Ids -> Row \cup {NoRow}]] /\ answers' \in [Clients -> SUBSET Answer]
      /\ answers'[c] = {} /\ \A b \in Ids : own'[c][b] = NoRow
      /\ \A d \in Clients \ {c} : own'[d] = own[d] /\ answers'[d] = answers[d]
  BY DEF Leave, TypeInv, TypeOK, NoRows
<1> QED BY <1>1 DEF Changed

\* COMMIT.  A row of d that its own transaction has not written changes under it.
LEMMA CommitKeepsKeys == ASSUME KeysInv, NEW c \in Clients, Commit(c) PROVE KeysInv'
<1>a. /\ TypeInv /\ LocksInv /\ UniqueInv /\ KeyedInv /\ AnswersInv
      /\ told \in SUBSET Answer /\ moved \in SUBSET Ids /\ answers \in [Clients -> SUBSET Answer]
      /\ rows \in [Ids -> Row \cup {NoRow}] /\ own \in [Clients -> [Ids -> Row \cup {NoRow}]]
  BY DEF KeysInv, TypeInv, TypeOK
<1>b. /\ Leave(c) /\ rows' = View(c) /\ moved' = moved \cup Renamed(c)
      /\ told' = {t \in told \cup answers[c] : t.id \notin moved'}
  BY DEF Commit
<1>c. /\ own' \in [Clients -> [Ids -> Row \cup {NoRow}]] /\ answers' \in [Clients -> SUBSET Answer]
      /\ Changed(c)' = {} /\ answers'[c] = {} /\ \A b \in Ids : own'[c][b] = NoRow
      /\ \A d \in Clients \ {c} :
           own'[d] = own[d] /\ answers'[d] = answers[d] /\ Changed(d)' = Changed(d)
  BY <1>a, <1>b, LeaveTypes
<1>d. \A b \in Ids : rows'[b] = IF b \in Changed(c) THEN own[c][b] ELSE rows[b]
  BY <1>b DEF View, Changed
<1>1. TypeInv'
  <2>1. rows' \in [Ids -> Row \cup {NoRow}] BY <1>a, <1>b DEF View
  <2>2. told' \in SUBSET Answer /\ moved' \in SUBSET Ids BY <1>a, <1>b DEF Renamed, Changed
  <2> QED BY <1>a, <1>b, <1>c, <2>1, <2>2, EndTypes DEF TypeInv, TypeOK
<1>2. LocksInv' BY <1>a, <1>c DEF LocksInv
<1>3. KeyedInv'
  <2>1. ASSUME NEW d \in Clients, d # c, NEW b \in Changed(d), rows'[b] # NoRow
        PROVE  own'[d][b].key # NoKey
    <3>1. b \in Ids /\ b \notin Changed(c) BY <1>a, <2>1 DEF LocksInv, Changed
    <3> QED BY <1>a, <1>c, <1>d, <2>1, <3>1 DEF KeyedInv
  <2> QED BY <1>c, <2>1 DEF KeyedInv
<1>4. UniqueInv'
  <2>1. Unique(rows)' BY <1>a, <1>b DEF UniqueInv, Unique
  <2>2. ASSUME NEW d \in Clients PROVE Unique(View(d))'
    <3>1. CASE d = c
      <4>1. \A b \in Ids : View(d)'[b] = rows'[b] BY <1>c, <3>1 DEF View
      <4> QED BY <2>1, <4>1 DEF Unique
    <3>2. CASE d # c
      <4>1. \A b \in Ids : View(d)'[b] = IF b \in Changed(d) THEN own[d][b] ELSE rows'[b]
        BY <1>c, <3>2 DEF View, Changed
      <4>2. \A b \in Ids : View(d)[b] = IF b \in Changed(d) THEN own[d][b] ELSE rows[b]
        BY DEF View, Changed
      <4>3. ASSUME NEW b \in Changed(d), NEW e \in Ids, e \notin Changed(d),
                   own[d][b] # NoRow, rows'[e] # NoRow, own[d][b].key = rows'[e].key
            PROVE  own[d][b].key = NoKey
        <5>1. CASE e \in Changed(c)
          <6>1. ~SameKey(own[d][b], own[c][e]) BY <1>a, <3>2, <5>1, <4>3 DEF LocksInv
          <6> QED BY <1>d, <4>3, <5>1, <6>1 DEF SameKey
        <5>2. CASE e \notin Changed(c)
          <6>1. b \in Ids /\ b # e BY <4>3 DEF Changed
          <6>2. Unique(View(d)) BY <1>a DEF UniqueInv
          <6> QED BY <1>d, <4>2, <4>3, <5>2, <6>1, <6>2 DEF Unique
        <5> QED BY <5>1, <5>2
      <4>4. Unique(View(d)) BY <1>a DEF UniqueInv
      <4>5. ASSUME NEW b \in Ids, NEW e \in Ids, View(d)'[b] # NoRow, View(d)'[e] # NoRow,
                   View(d)'[b].key = View(d)'[e].key, b # e
            PROVE  View(d)'[b].key = NoKey
        <5>1. CASE b \in Changed(d) /\ e \in Changed(d)
          BY <4>1, <4>2, <4>4, <4>5, <5>1 DEF Unique
        <5>2. CASE b \in Changed(d) /\ e \notin Changed(d) BY <4>1, <4>3, <4>5, <5>2
        <5>3. CASE b \notin Changed(d) /\ e \in Changed(d) BY <4>1, <4>3, <4>5, <5>3
        <5>4. CASE b \notin Changed(d) /\ e \notin Changed(d) BY <2>1, <4>1, <4>5, <5>4 DEF Unique
        <5> QED BY <5>1, <5>2, <5>3, <5>4
      <4> QED BY <4>5 DEF Unique
    <3> QED BY <3>1, <3>2
  <2> QED BY <2>1, <2>2 DEF UniqueInv
<1>5. \A t \in Answer : HasKey(t.id, t.key) /\ t.id \notin moved' => HasKey(t.id, t.key)'
  <2> SUFFICES ASSUME NEW t \in Answer, HasKey(t.id, t.key), t.id \notin moved'
               PROVE  HasKey(t.id, t.key)'
    OBVIOUS
  <2>1. t.id \in Ids BY DEF Answer
  <2>2. CASE t.id \notin Changed(c) BY <1>d, <2>1, <2>2 DEF HasKey
  <2>3. CASE t.id \in Changed(c)
    <3>1. own[c][t.id].key # NoKey /\ own[c][t.id] # NoRow BY <1>a, <2>3 DEF KeyedInv, HasKey, Changed
    <3>2. own[c][t.id].key = t.key BY <1>b, <2>3, <3>1 DEF Renamed, HasKey
    <3> QED BY <1>d, <2>1, <2>3, <3>1, <3>2 DEF HasKey
  <2> QED BY <2>2, <2>3
<1>6. AnswersInv'
  <2>1. ASSUME NEW t \in told' PROVE HasKey(t.id, t.key)'
    <3>1. t \in Answer /\ t.id \notin moved' /\ t.id \notin moved BY <1>a, <1>b, <2>1
    <3>2. CASE t \in told BY <1>5, <1>a, <3>1, <3>2 DEF AnswersInv
    <3>3. CASE t \in answers[c]
      <4>1. CASE t.id \in Changed(c) /\ own[c][t.id].key # NoKey
        <5>1. t.id \in Ids /\ own[c][t.id] # NoRow BY <4>1 DEF Changed
        <5>2. own[c][t.id].key = t.key BY <1>b, <3>1, <3>3, <4>1 DEF Renamed
        <5> QED BY <1>d, <4>1, <5>1, <5>2 DEF HasKey
      <4>2. CASE t.id \notin Changed(c) /\ HasKey(t.id, t.key) BY <1>5, <3>1, <4>2
      <4> QED BY <1>a, <3>1, <3>3, <4>1, <4>2 DEF AnswersInv
    <3> QED BY <1>b, <2>1, <3>2, <3>3
  <2>2. ASSUME NEW d \in Clients, d # c, NEW t \in answers[d]
        PROVE  \/ t.id \in moved'
               \/ t.id \in Changed(d) /\ own[d][t.id].key # NoKey
               \/ t.id \notin Changed(d) /\ HasKey(t.id, t.key)'
    <3>1. t \in Answer BY <1>a
    <3> QED BY <1>5, <1>a, <1>b, <2>2, <3>1 DEF AnswersInv
  <2> QED BY <1>c, <2>1, <2>2 DEF AnswersInv
<1> QED BY <1>1, <1>2, <1>3, <1>4, <1>6 DEF KeysInv

\* ROLLBACK.
LEMMA FailKeepsKeys == ASSUME KeysInv, NEW c \in Clients, Fail(c) PROVE KeysInv'
<1>a. TypeInv /\ LocksInv /\ UniqueInv /\ KeyedInv /\ AnswersInv BY DEF KeysInv
<1>b. Leave(c) /\ rows' = rows /\ told' = told /\ moved' = moved BY DEF Fail, history
<1>c. /\ own' \in [Clients -> [Ids -> Row \cup {NoRow}]] /\ answers' \in [Clients -> SUBSET Answer]
      /\ Changed(c)' = {} /\ answers'[c] = {} /\ \A b \in Ids : own'[c][b] = NoRow
      /\ \A d \in Clients \ {c} :
           own'[d] = own[d] /\ answers'[d] = answers[d] /\ Changed(d)' = Changed(d)
  BY <1>a, <1>b, LeaveTypes
<1>1. TypeInv' BY <1>a, <1>b, <1>c, EndTypes DEF TypeInv, TypeOK
<1>2. LocksInv' BY <1>a, <1>c DEF LocksInv
<1>3. KeyedInv' BY <1>a, <1>b, <1>c DEF KeyedInv
<1>4. UniqueInv'
  <2>1. \A d \in Clients \ {c} : View(d)' = View(d) BY <1>b, <1>c DEF View
  <2>2. \A b \in Ids : View(c)'[b] = rows[b] BY <1>b, <1>c DEF View
  <2> QED BY <1>a, <1>b, <2>1, <2>2 DEF UniqueInv, Unique
<1>5. AnswersInv' BY <1>a, <1>b, <1>c DEF AnswersInv, HasKey
<1> QED BY <1>1, <1>2, <1>3, <1>4, <1>5 DEF KeysInv

\* Every step.
LEMMA NextKeys == KeysInv /\ [Next]_vars => KeysInv'
<1> SUFFICES ASSUME KeysInv, [Next]_vars PROVE KeysInv' OBVIOUS
<1>1. CASE UNCHANGED vars
  <2>1. UNCHANGED <<rows, own, pc, want, answers, told, moved>> BY <1>1 DEF vars, history
  <2>2. LocksInv' /\ UniqueInv' /\ KeyedInv' /\ \A d \in Clients : Changed(d)' = Changed(d)
    BY <2>1, NoWriteKeeps DEF KeysInv
  <2>3. TypeInv' BY <2>1 DEF KeysInv, TypeInv, TypeOK, ArgumentsOK
  <2>4. AnswersInv' BY <2>1, <2>2 DEF KeysInv, AnswersInv, HasKey
  <2> QED BY <2>2, <2>3, <2>4 DEF KeysInv
<1>2. ASSUME NEW c \in Clients, NEW t \in Types, NewAggregate(c, t) PROVE KeysInv'
  <2>1. [type |-> t, key |-> NoKey, id |-> NoRow] \in Want BY DEF Want
  <2> QED BY <1>2, <2>1, StartKeepsKeys DEF NewAggregate
<1>3. ASSUME NEW c \in Clients, NEW t \in Types, NEW k \in Keys, NewAggregateWithKey(c, t, k)
      PROVE  KeysInv'
  <2>1. [type |-> t, key |-> k, id |-> NoRow] \in Want BY DEF Want
  <2> QED BY <1>3, <2>1, StartKeepsKeys DEF NewAggregateWithKey
<1>4. ASSUME NEW c \in Clients, NEW t \in Types, NEW k \in Keys, GetOrCreate(c, t, k)
      PROVE  KeysInv'
  <2>1. [type |-> t, key |-> k, id |-> NoRow] \in Want BY DEF Want
  <2> DEFINE l == IF WithKey(c, t, k) = {} THEN "create_or_load" ELSE "load"
  <2>2. l \in {"create_or_load", "load"} OBVIOUS
  <2>3. Start(c, l, [type |-> t, key |-> k, id |-> NoRow]) /\ UNCHANGED <<rows, own, answers, history>>
    BY <1>4 DEF GetOrCreate
  <2> HIDE DEF l
  <2> QED BY <2>1, <2>2, <2>3, StartKeepsKeys
<1>5. ASSUME NEW c \in Clients, NEW a \in Ids, NEW k \in Keys, ChangeAggregateNaturalKey(c, a, k)
      PROVE  KeysInv'
  <2>1. [type |-> NoRow, key |-> k, id |-> a] \in Want BY DEF Want
  <2> QED BY <1>5, <2>1, StartKeepsKeys DEF ChangeAggregateNaturalKey
<1>6. ASSUME NEW c \in Clients,
             \/ Begin(c) \/ Commit(c) \/ Fail(c)
             \/ Insert(c) \/ LoadByKey(c) \/ Update(c)
      PROVE  KeysInv'
  BY <1>6, BeginKeepsKeys, CommitKeepsKeys, FailKeepsKeys, InsertKeepsKeys, LoadKeepsKeys,
     UpdateKeepsKeys
<1> QED BY <1>1, <1>2, <1>3, <1>4, <1>5, <1>6 DEF Next

\* The inductive invariant holds in every state.
LEMMA KeysInvariant == Spec => []KeysInv
BY InitKeys, NextKeys, PTL DEF Spec

-----------------------------------------------------------------------------
(* The theorems.                                                            *)

\* Variables of NaturalKeys.tla keep their types.
THEOREM TypeCorrectness == Spec => []TypeOK
<1>1. KeysInv => TypeOK BY DEF KeysInv, TypeInv
<1> QED BY <1>1, KeysInvariant, PTL

\* natural_key is unique in the table and in what every transaction sees.
THEOREM UniqueKeys == Spec => []KeysUnique
<1>1. KeysInv => KeysUnique BY DEF KeysInv, UniqueInv, Unique, KeysUnique
<1> QED BY <1>1, KeysInvariant, PTL

\* All successful contexts are told one aggregate for one key by load-or-create.
THEOREM SameAggregate == Spec => []GetOrCreateAgrees
<1>1. ASSUME KeysInv PROVE GetOrCreateAgrees
  <2> SUFFICES ASSUME NEW t \in told, NEW u \in told, t.key = u.key PROVE t.id = u.id
    BY DEF GetOrCreateAgrees
  <2>1. t \in Answer /\ u \in Answer BY <1>1 DEF KeysInv, TypeInv, TypeOK
  <2>2. t.id \in Ids /\ u.id \in Ids /\ t.key # NoKey
    BY <2>1, NaturalKeysAssumption DEF Answer, NaturalKeysAssumption
  <2>3. HasKey(t.id, t.key) /\ HasKey(u.id, u.key) BY <1>1 DEF KeysInv, AnswersInv
  <2>4. Unique(rows) BY <1>1 DEF KeysInv, UniqueInv
  <2> QED BY <2>2, <2>3, <2>4 DEF HasKey, Unique
<1> QED BY <1>1, KeysInvariant, PTL
=============================================================================
