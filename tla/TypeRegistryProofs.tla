------------------------- MODULE TypeRegistryProofs -------------------------
(***************************************************************************)
(* An id of a type stands for one name, for any number of processes and    *)
(* names, where ids come from sequences (PostgreSQL).  SQLite gives the    *)
(* ids of rolled back types again, while maps still hold them: there the   *)
(* theorems do not hold (README).                                          *)
(***************************************************************************)
EXTENDS TypeRegistry, TLAPS, WellFoundedInduction

-----------------------------------------------------------------------------
(* The invariants.                                                          *)

\* Where c is, what it looks up, and which job it does.  The list of types belongs to
\* the kind on which Warmup works.
JobOK(c) ==
  /\ pc[c] = "idle" => job[c] = "none"
  /\ pc[c] = "open" => job[c] = "context"
  /\ pc[c] \in {"list", "adding", "leaked"} => job[c] = "warmup"
  /\ pc[c] \in {"select", "insert"} =>
       job[c] # "none" /\ want[c] \in [kind : Kinds, name : Names]
  /\ pc[c] \in {"list", "adding"} => want[c] \in Want
  /\ job[c] # "warmup" \/ pc[c] \in {"list", "leaked"} => listed[c] = {}

JobsOK == \A c \in Clients : JobOK(c)

TypeInv == TypeOK /\ JobsOK

\* Somebody holds that id i of kind k is name n: the table, a transaction, a map, a
\* stored row, one not yet committed, or Warmup's list.
Holds(k, i, n) ==
  \/ \E t \in types[k] : t.id = i /\ t.name = n
  \/ \E c \in Clients : \E t \in added[c][k] : t.id = i /\ t.name = n
  \/ \E s \in Stores : cache[s][k][n] = i
  \/ \E r \in rows : r.kind = k /\ r.id = i /\ r.name = n
  \/ \E c \in Clients : \E u \in uses[c] : u.kind = k /\ u.id = i /\ u.name = n
  \/ \E c \in Clients : \E t \in listed[c] : want[c].kind = k /\ t.id = i /\ t.name = n

\* The sequence has passed every id that anybody holds.
Issued == \A k \in Kinds, i \in Ids, n \in Names : Holds(k, i, n) => i <= lastId[k]

\* An id of a kind stands for one name.
OneName ==
  \A k \in Kinds, i \in Ids, m, n \in Names : Holds(k, i, m) /\ Holds(k, i, n) => m = n

IdsInv == TypeInv /\ Issued /\ OneName

\* Events are stored under ids of the table.
ReferencesInv ==
  EventForeignKeys =>
    \A r \in rows : r.kind = "event" => \E t \in types["event"] : t.id = r.id
-----------------------------------------------------------------------------
(* Types.                                                                   *)

\* The other goroutines are where they were.
LEMMA OneJob ==
  ASSUME TypeInv, NEW c \in Clients, JobOK(c)',
         \A d \in Clients \ {c} : /\ pc'[d] = pc[d] /\ job'[d] = job[d]
                                 /\ want'[d] = want[d] /\ listed'[d] = listed[d]
  PROVE  JobsOK'
<1> SUFFICES ASSUME NEW d \in Clients, d # c PROVE JobOK(d)' BY DEF JobsOK
<1> QED BY DEF TypeInv, JobsOK, JobOK

\* MapNameToId gives every name of a list an id it has there, and the others 0.
LEMMA ToIdOf ==
  ASSUME NEW T \in SUBSET TypeRow
  PROVE  /\ ToId(T) \in [Names -> 0 .. MaxId]
         /\ \A n \in Names : ToId(T)[n] = 0 \/ \E t \in T : t.name = n /\ t.id = ToId(T)[n]
<1>0. MaxId \in Nat BY TypeRegistryAssumption DEF TypeRegistryAssumption
<1> SUFFICES ASSUME NEW n \in Names
             PROVE  /\ ToId(T)[n] \in 0 .. MaxId
                    /\ ToId(T)[n] = 0 \/ \E t \in T : t.name = n /\ t.id = ToId(T)[n]
  BY DEF ToId
<1> DEFINE S == {0} \cup {t.id : t \in {u \in T : u.name = n}}
           R == {MaxId - i : i \in S}
<1>1. S \in SUBSET (0 .. MaxId)
  <2>1. \A t \in T : t.id \in 0 .. MaxId BY <1>0 DEF TypeRow, Ids
  <2> QED BY <1>0, <2>1
<1>2. R \in SUBSET Nat /\ R # {}
  <2>1. \A i \in S : MaxId - i \in Nat BY <1>0, <1>1
  <2> QED BY <2>1
<1>3. PICK m \in R : \A x \in R : ~(<<x, m>> \in OpToRel(<, Nat))
  BY <1>2, NatLessThanWellFounded, WFMin
<1>4. PICK i \in S : m = MaxId - i OBVIOUS
<1>5. \A j \in S : i >= j
  <2> SUFFICES ASSUME NEW j \in S PROVE i >= j OBVIOUS
  <2>1. ~(MaxId - j < m) BY <1>2, <1>3 DEF OpToRel
  <2> QED BY <1>0, <1>1, <1>4, <2>1
<1>6. Max(S) \in S BY <1>5 DEF Max
<1>7. ToId(T)[n] = Max(S) BY DEF ToId
<1> QED BY <1>1, <1>6, <1>7

\* What a transaction sees are rows of types.
LEMMA VisibleTypes ==
  ASSUME TypeInv, NEW c \in Clients
  PROVE  \A k \in Kinds : Visible(c, k) \in SUBSET TypeRow
BY DEF TypeInv, TypeOK, Visible

\* The end of a transaction.
LEMMA LeaveTypes ==
  ASSUME TypeInv, NEW c \in Clients, Leave(c)
  PROVE  /\ added' \in [Clients -> [Kinds -> SUBSET TypeRow]] /\ uses' \in [Clients -> SUBSET UseRow]
         /\ job' \in [Clients -> {"none", "context", "readonly", "warmup"}]
         /\ pc' \in [Clients -> {"idle", "open", "select", "insert", "list", "adding", "leaked"}]
         /\ want' \in [Clients -> Want \cup {NoType}] /\ listed' \in [Clients -> SUBSET TypeRow]
         /\ todo' \in [Clients -> SUBSET Known] /\ dirty' \in [Clients -> BOOLEAN]
         /\ JobsOK'
<1>1. JobOK(c)' BY DEF Leave, Goto, TypeInv, TypeOK, JobOK
<1>2. JobsOK' BY <1>1, OneJob DEF Leave, Goto, TypeInv, TypeOK
<1> QED BY <1>2 DEF Leave, Goto, TypeInv, TypeOK, NoTypes

\* A row goes into a transaction.
LEMMA PutRowTypes ==
  ASSUME TypeInv, NEW c \in Clients, NEW k \in Kinds, NEW n \in Names, NEW id \in Ids,
         PutRow(c, k, n, id)
  PROVE  uses' \in [Clients -> SUBSET UseRow]
<1>1. [kind |-> k, name |-> n, id |-> id] \in UseRow BY DEF UseRow
<1> QED BY <1>1 DEF PutRow, TypeInv, TypeOK

\* The caller goes on with an id.
LEMMA ResolveTypes ==
  ASSUME TypeInv, NEW c \in Clients, pc[c] \in {"select", "insert"}, NEW id \in Ids, Resolve(c, id)
  PROVE  /\ cache' \in [Stores -> [Kinds -> [Names -> 0 .. MaxId]]]
         /\ uses' \in [Clients -> SUBSET UseRow]
         /\ job' \in [Clients -> {"none", "context", "readonly", "warmup"}]
         /\ pc' \in [Clients -> {"idle", "open", "select", "insert", "list", "adding", "leaked"}]
         /\ want' \in [Clients -> Want \cup {NoType}] /\ listed' \in [Clients -> SUBSET TypeRow]
         /\ todo' \in [Clients -> SUBSET Known] /\ dirty' \in [Clients -> BOOLEAN]
         /\ JobsOK'
<1>1. want[c] \in [kind : Kinds, name : Names] /\ job[c] \in {"context", "readonly", "warmup"}
  BY DEF TypeInv, TypeOK, JobsOK, JobOK
<1>2. cache' \in [Stores -> [Kinds -> [Names -> 0 .. MaxId]]]
  <2>1. id \in 0 .. MaxId BY TypeRegistryAssumption DEF TypeRegistryAssumption, Ids
  <2> QED BY <1>1, <2>1 DEF Resolve, TypeInv, TypeOK
<1>3. CASE job[c] = "context"
  <2>1. PutRow(c, want[c].kind, want[c].name, id) /\ want' = [want EXCEPT ![c] = NoType]
        /\ Goto(c, "open") /\ UNCHANGED <<job, warm>>
    BY <1>3 DEF Resolve
  <2>2. uses' \in [Clients -> SUBSET UseRow] BY <1>1, <2>1, PutRowTypes
  <2>3. JobOK(c)' BY <1>3, <2>1 DEF Goto, TypeInv, TypeOK, JobsOK, JobOK, warm
  <2>4. JobsOK' BY <2>1, <2>3, OneJob DEF Goto, TypeInv, TypeOK, warm
  <2> QED BY <1>2, <2>1, <2>2, <2>4 DEF Goto, TypeInv, TypeOK, warm
<1>4. CASE job[c] = "readonly"
  <2>1. want' = [want EXCEPT ![c] = NoType] /\ job' = [job EXCEPT ![c] = "none"]
        /\ Goto(c, "idle") /\ UNCHANGED <<uses, warm>>
    BY <1>4 DEF Resolve
  <2>3. JobOK(c)' BY <1>4, <2>1 DEF Goto, TypeInv, TypeOK, JobsOK, JobOK, warm
  <2>4. JobsOK' BY <2>1, <2>3, OneJob DEF Goto, TypeInv, TypeOK, warm
  <2> QED BY <1>2, <2>1, <2>4 DEF Goto, TypeInv, TypeOK, warm
<1>5. CASE job[c] = "warmup"
  <2>1. /\ todo' = [todo EXCEPT ![c] = @ \ {want[c].name}] /\ dirty' = [dirty EXCEPT ![c] = TRUE]
        /\ want' = [want EXCEPT ![c] = [want[c] EXCEPT !.name = NoType]]
        /\ Goto(c, "adding") /\ UNCHANGED <<uses, job, listed>>
    BY <1>5 DEF Resolve
  <2>2. [want[c] EXCEPT !.name = NoType] \in Want BY <1>1 DEF Want
  <2>3. JobOK(c)' BY <1>5, <2>1, <2>2 DEF Goto, TypeInv, TypeOK, JobsOK, JobOK
  <2>4. JobsOK' BY <2>1, <2>3, OneJob DEF Goto, TypeInv, TypeOK
  <2> QED BY <1>2, <2>1, <2>2, <2>4 DEF Goto, TypeInv, TypeOK
<1> QED BY <1>1, <1>3, <1>4, <1>5

\* Steps of lookups.
LEMMA LookupTypes ==
  ASSUME TypeInv, NEW c \in Clients,
         \/ Begin(c)
         \/ \E k \in Kinds, n \in Names : LookupCached(c, k, n) \/ LookupMiss(c, k, n)
  PROVE  TypeInv'
<1>1. CASE Begin(c)
  <2>1. JobOK(c)' BY <1>1 DEF Begin, Goto, TypeInv, TypeOK, JobsOK, JobOK, warm
  <2>2. JobsOK' BY <1>1, <2>1, OneJob DEF Begin, Goto, TypeInv, TypeOK, warm
  <2> QED BY <1>1, <2>2 DEF Begin, Goto, TypeInv, TypeOK, db, warm
<1>2. ASSUME NEW k \in Kinds, NEW n \in Names, LookupCached(c, k, n) PROVE TypeInv'
  <2>1. Cached(c, k)[n] \in Ids
    <3>1. Cached(c, k)[n] \in 0 .. MaxId /\ Cached(c, k)[n] # 0
      BY <1>2, TypeRegistryAssumption DEF LookupCached, Cached, TypeInv, TypeOK, TypeRegistryAssumption
    <3> QED BY <3>1, TypeRegistryAssumption DEF Ids, TypeRegistryAssumption
  <2>2. uses' \in [Clients -> SUBSET UseRow] BY <1>2, <2>1, PutRowTypes DEF LookupCached
  <2> QED BY <1>2, <2>2 DEF LookupCached, TypeInv, TypeOK, JobsOK, JobOK, db, warm
<1>3. ASSUME NEW k \in Kinds, NEW n \in Names, LookupMiss(c, k, n) PROVE TypeInv'
  <2>1. /\ want' = [want EXCEPT ![c] = [kind |-> k, name |-> n]] /\ pc' = [pc EXCEPT ![c] = "select"]
        /\ job' \in [Clients -> {"none", "context", "readonly", "warmup"}]
        /\ job'[c] \in {"context", "readonly"} /\ listed' = listed /\ listed[c] = {}
        /\ \A d \in Clients \ {c} : job'[d] = job[d]
    BY <1>3 DEF LookupMiss, Goto, TypeInv, TypeOK, JobsOK, JobOK, warm
  <2>2. JobOK(c)' BY <2>1 DEF TypeInv, TypeOK, JobOK
  <2>3. JobsOK' BY <2>1, <2>2, OneJob DEF TypeInv, TypeOK
  <2> QED BY <1>3, <2>1, <2>3 DEF LookupMiss, TypeInv, TypeOK, db, warm, Want
<1> QED BY <1>1, <1>2, <1>3

\* SELECT and INSERT of a type.
LEMMA StatementTypes == ASSUME TypeInv, NEW c \in Clients, Select(c) \/ Insert(c) PROVE TypeInv'
<1>0. pc[c] \in {"select", "insert"} BY DEF Select, Insert
<1>a. want[c] \in [kind : Kinds, name : Names] BY <1>0 DEF TypeInv, JobsOK, JobOK
<1>1. ASSUME Select(c), NEW t \in Visible(c, want[c].kind), Resolve(c, t.id) PROVE TypeInv'
  <2>1. t.id \in Ids BY <1>1, <1>a, VisibleTypes DEF TypeRow
  <2> QED BY <1>0, <1>1, <2>1, ResolveTypes DEF Select, TypeInv, TypeOK, db
<1>2. CASE Select(c) /\ Goto(c, "insert") /\ UNCHANGED <<cache, uses, job, want, warm>>
  <2>1. JobOK(c)' BY <1>0, <1>2, <1>a DEF Select, Goto, TypeInv, TypeOK, JobsOK, JobOK, warm
  <2>2. JobsOK' BY <1>2, <2>1, OneJob DEF Goto, TypeInv, TypeOK, warm
  <2> QED BY <1>2, <2>2 DEF Select, Goto, TypeInv, TypeOK, db, warm
<1>3. CASE Insert(c)
  <2> DEFINE k == want[c].kind
             t == [id |-> NextId(c, k), name |-> want[c].name]
  <2>1. t \in TypeRow /\ t.id \in Ids BY <1>3, <1>a DEF Insert, TypeRow
  <2>2. lastId' \in [Kinds -> 0 .. MaxId]
    <3>1. t.id \in 0 .. MaxId BY <2>1, TypeRegistryAssumption DEF TypeRegistryAssumption, Ids
    <3>2. lastId' = [lastId EXCEPT ![k] = IF SerialWriters THEN @ ELSE t.id] BY <1>3 DEF Insert
    <3> HIDE DEF t
    <3> QED BY <1>a, <3>1, <3>2 DEF TypeInv, TypeOK
  <2>3. types' \in [Kinds -> SUBSET TypeRow] /\ added' \in [Clients -> [Kinds -> SUBSET TypeRow]]
    <3>1. \/ types' = [types EXCEPT ![k] = @ \cup {t}] /\ added' = added
          \/ added' = [added EXCEPT ![c][k] = @ \cup {t}] /\ types' = types
      BY <1>3 DEF Insert
    <3> HIDE DEF t
    <3>2. k \in Kinds BY <1>a
    <3>3. types[k] \cup {t} \in SUBSET TypeRow /\ added[c][k] \cup {t} \in SUBSET TypeRow
      BY <2>1, <3>2 DEF TypeInv, TypeOK
    <3>4. CASE types' = [types EXCEPT ![k] = types[k] \cup {t}] /\ added' = added
      BY <3>3, <3>4 DEF TypeInv, TypeOK
    <3>5. CASE added' = [added EXCEPT ![c][k] = added[c][k] \cup {t}] /\ types' = types
      BY <3>3, <3>5 DEF TypeInv, TypeOK
    <3> QED BY <3>1, <3>4, <3>5
  <2>4. Resolve(c, t.id) /\ rows' = rows BY <1>3 DEF Insert
  <2> HIDE DEF t
  <2> QED BY <1>0, <2>1, <2>2, <2>3, <2>4, ResolveTypes DEF TypeInv, TypeOK
<1> QED BY <1>0, <1>1, <1>2, <1>3 DEF Select

\* Transactions end.
LEMMA EndTypes ==
  ASSUME TypeInv, NEW c \in Clients, Commit(c) \/ Fail(c) \/ EndWarmup(c)
  PROVE  TypeInv'
<1>a. [k \in Kinds |-> Visible(c, k)] \in [Kinds -> SUBSET TypeRow] BY VisibleTypes
<1>1. CASE Commit(c)
  <2>1. rows' \in SUBSET UseRow BY <1>1 DEF Commit, TypeInv, TypeOK
  <2> QED BY <1>1, <1>a, <2>1, LeaveTypes DEF Commit, TypeInv, TypeOK
<1>2. CASE Fail(c) /\ Leave(c)
  BY <1>2, LeaveTypes DEF Fail, TypeInv, TypeOK, db
<1>3. CASE Fail(c) /\ ~Leave(c)
  <2>1. /\ job[c] = "warmup" /\ Goto(c, "leaked") /\ want' = [want EXCEPT ![c] = NoType]
        /\ listed' = [listed EXCEPT ![c] = {}] /\ todo' = [todo EXCEPT ![c] = {}]
        /\ UNCHANGED <<added, uses, job, dirty, cache, db>>
    BY <1>3 DEF Fail
  <2>2. JobOK(c)' BY <2>1 DEF Goto, TypeInv, TypeOK, JobOK
  <2>3. JobsOK' BY <2>1, <2>2, OneJob DEF Goto, TypeInv, TypeOK
  <2> QED BY <2>1, <2>3 DEF Goto, TypeInv, TypeOK, db
<1>4. CASE EndWarmup(c)
  BY <1>4, <1>a, LeaveTypes DEF EndWarmup, TypeInv, TypeOK
<1> QED BY <1>1, <1>2, <1>3, <1>4

\* Steps of Warmup.
LEMMA WarmupTypes ==
  ASSUME TypeInv, NEW c \in Clients, StartWarmup(c) \/ List(c) \/ AddKnown(c) \/ ListedEvents(c)
  PROVE  TypeInv'
<1>s. StoreOf[c] \in Stores BY TypeRegistryAssumption DEF TypeRegistryAssumption
<1>1. CASE StartWarmup(c)
  <2>1. JobOK(c)' BY <1>1 DEF StartWarmup, Goto, TypeInv, TypeOK, JobsOK, JobOK, warm, Want, Kinds
  <2>2. JobsOK' BY <1>1, <2>1, OneJob DEF StartWarmup, Goto, TypeInv, TypeOK, warm
  <2> QED BY <1>1, <2>2 DEF StartWarmup, Goto, TypeInv, TypeOK, db, warm, Want, Kinds
<1>2. CASE List(c)
  <2> DEFINE k == want[c].kind
  <2>0. want[c] \in Want /\ job[c] = "warmup" BY <1>2 DEF List, TypeInv, JobsOK, JobOK
  <2>1. k \in Kinds BY <2>0 DEF Want
  <2>a. PICK T \in TypesListed(c, k) :
          /\ listed' = [listed EXCEPT ![c] = T]
          /\ todo' = [todo EXCEPT ![c] = Known \ NamesIn(T)]
          /\ cache' = IF k = "aggregate" THEN [cache EXCEPT ![StoreOf[c]][k] = ToId(T)] ELSE cache
    BY <1>2 DEF List
  <2>2. T \in SUBSET TypeRow BY <2>1, <2>a, VisibleTypes DEF TypesListed
  <2>3. cache' \in [Stores -> [Kinds -> [Names -> 0 .. MaxId]]]
    <3>1. ToId(T) \in [Names -> 0 .. MaxId] BY <2>2, ToIdOf
    <3>2. cache' = cache \/ cache' = [cache EXCEPT ![StoreOf[c]][k] = ToId(T)] BY <2>a
    <3>3. CASE cache' = [cache EXCEPT ![StoreOf[c]][k] = ToId(T)]
      BY <1>s, <2>1, <3>1, <3>3 DEF TypeInv, TypeOK
    <3> QED BY <3>2, <3>3 DEF TypeInv, TypeOK
  <2>4. /\ pc' = [pc EXCEPT ![c] = "adding"] /\ listed' = [listed EXCEPT ![c] = T]
        /\ todo' = [todo EXCEPT ![c] = Known \ NamesIn(T)]
        /\ UNCHANGED <<types, lastId, rows, added, uses, job, want, dirty>>
    BY <1>2, <2>a DEF List, Goto, db
  <2>5. JobOK(c)' BY <2>0, <2>4 DEF TypeInv, TypeOK, JobOK
  <2>6. JobsOK' BY <2>4, <2>5, OneJob DEF TypeInv, TypeOK
  <2> QED BY <2>2, <2>3, <2>4, <2>6 DEF TypeInv, TypeOK
<1>3. CASE AddKnown(c)
  <2>0. want[c] \in Want /\ job[c] = "warmup" BY <1>3 DEF AddKnown, TypeInv, JobsOK, JobOK
  <2>1. PICK n \in todo[c] : want' = [want EXCEPT ![c] = [want[c] EXCEPT !.name = n]]
    BY <1>3 DEF AddKnown
  <2>2. n \in Names BY TypeRegistryAssumption DEF TypeRegistryAssumption, TypeInv, TypeOK
  <2>3. [want[c] EXCEPT !.name = n] \in [kind : Kinds, name : Names] BY <2>0, <2>2 DEF Want
  <2>4. [want[c] EXCEPT !.name = n] \in Want BY <2>3 DEF Want
  <2>5. JobOK(c)' BY <1>3, <2>0, <2>1, <2>3 DEF AddKnown, Goto, TypeInv, TypeOK, JobOK, warm
  <2>6. JobsOK' BY <1>3, <2>1, <2>5, OneJob DEF AddKnown, Goto, TypeInv, TypeOK, warm
  <2> QED BY <1>3, <2>1, <2>4, <2>6 DEF AddKnown, Goto, TypeInv, TypeOK, db, warm
<1>4. CASE ListedEvents(c)
  <2>0. want[c] \in Want /\ job[c] = "warmup" BY <1>4 DEF ListedEvents, TypeInv, JobsOK, JobOK
  <2>1. cache' \in [Stores -> [Kinds -> [Names -> 0 .. MaxId]]]
    <3>1. listed[c] \in SUBSET TypeRow BY DEF TypeInv, TypeOK
    <3>2. AfterEvents(c) \in [Names -> 0 .. MaxId] BY <3>1, ToIdOf DEF AfterEvents
    <3>3. cache' = cache \/ cache' = [cache EXCEPT ![StoreOf[c]]["event"] = AfterEvents(c)]
      BY <1>4 DEF ListedEvents
    <3>4. CASE cache' = [cache EXCEPT ![StoreOf[c]]["event"] = AfterEvents(c)]
      BY <1>s, <3>2, <3>4 DEF TypeInv, TypeOK, Kinds
    <3> QED BY <3>3, <3>4 DEF TypeInv, TypeOK
  <2>2. want' = [want EXCEPT ![c] = [want[c] EXCEPT !.kind = "aggregate"]] BY <1>4 DEF ListedEvents
  <2>3. [want[c] EXCEPT !.kind = "aggregate"] \in Want BY <2>0 DEF Want, Kinds
  <2>4. JobOK(c)' BY <1>4, <2>0, <2>2, <2>3 DEF ListedEvents, Goto, TypeInv, TypeOK, JobOK
  <2>5. JobsOK' BY <1>4, <2>2, <2>4, OneJob DEF ListedEvents, Goto, TypeInv, TypeOK
  <2> QED BY <1>4, <2>1, <2>2, <2>3, <2>5 DEF ListedEvents, Goto, TypeInv, TypeOK, db
<1> QED BY <1>1, <1>2, <1>3, <1>4

\* The process dies.
LEMMA RestartTypes == ASSUME TypeInv, NEW s \in Stores, Restart(s) PROVE TypeInv'
<1>1. /\ cache' = [cache EXCEPT ![s] = NoCache]
      /\ added' = [c \in Clients |-> IF StoreOf[c] = s THEN NoTypes ELSE added[c]]
      /\ uses' = [c \in Clients |-> IF StoreOf[c] = s THEN {} ELSE uses[c]]
      /\ job' = [c \in Clients |-> IF StoreOf[c] = s THEN "none" ELSE job[c]]
      /\ pc' = [c \in Clients |-> IF StoreOf[c] = s THEN "idle" ELSE pc[c]]
      /\ want' = [c \in Clients |-> IF StoreOf[c] = s THEN NoType ELSE want[c]]
      /\ listed' = [c \in Clients |-> IF StoreOf[c] = s THEN {} ELSE listed[c]]
      /\ todo' = [c \in Clients |-> IF StoreOf[c] = s THEN {} ELSE todo[c]]
      /\ dirty' = [c \in Clients |-> IF StoreOf[c] = s THEN FALSE ELSE dirty[c]]
      /\ UNCHANGED <<types, lastId, rows>>
  BY DEF Restart, db
<1>2. NoCache \in [Kinds -> [Names -> 0 .. MaxId]] /\ NoTypes \in [Kinds -> SUBSET TypeRow]
  BY TypeRegistryAssumption DEF NoCache, NoTypes, TypeRegistryAssumption
<1>3. ASSUME NEW c \in Clients PROVE JobOK(c)'
  <2>1. CASE StoreOf[c] = s BY <1>1, <2>1 DEF JobOK
  <2>2. CASE StoreOf[c] # s BY <1>1, <2>2 DEF JobOK, TypeInv, JobsOK
  <2> QED BY <2>1, <2>2
<1>4. cache' \in [Stores -> [Kinds -> [Names -> 0 .. MaxId]]] BY <1>1, <1>2 DEF TypeInv, TypeOK
<1>5. /\ added' \in [Clients -> [Kinds -> SUBSET TypeRow]] /\ uses' \in [Clients -> SUBSET UseRow]
      /\ job' \in [Clients -> {"none", "context", "readonly", "warmup"}]
      /\ pc' \in [Clients -> {"idle", "open", "select", "insert", "list", "adding", "leaked"}]
      /\ want' \in [Clients -> Want \cup {NoType}]
  BY <1>1, <1>2 DEF TypeInv, TypeOK
<1>6. /\ listed' \in [Clients -> SUBSET TypeRow]
      /\ todo' \in [Clients -> SUBSET Known] /\ dirty' \in [Clients -> BOOLEAN]
  BY <1>1 DEF TypeInv, TypeOK
<1> QED BY <1>1, <1>3, <1>4, <1>5, <1>6 DEF TypeInv, TypeOK, JobsOK

\* The empty database and empty maps.
LEMMA InitTypes == Init => TypeInv
<1> SUFFICES ASSUME Init PROVE TypeInv OBVIOUS
<1>1. 0 \in 0 .. MaxId BY TypeRegistryAssumption DEF TypeRegistryAssumption
<1>2. NoCache \in [Kinds -> [Names -> 0 .. MaxId]] /\ NoTypes \in [Kinds -> SUBSET TypeRow]
  BY <1>1 DEF NoCache, NoTypes
<1> QED BY <1>1, <1>2 DEF Init, TypeInv, TypeOK, JobsOK, JobOK

\* Every step.
LEMMA NextTypes == TypeInv /\ [Next]_vars => TypeInv'
<1> SUFFICES ASSUME TypeInv, [Next]_vars PROVE TypeInv' OBVIOUS
<1>1. CASE UNCHANGED vars BY <1>1 DEF vars, db, warm, TypeInv, TypeOK, JobsOK, JobOK
<1>2. CASE \E s \in Stores : Restart(s) BY <1>2, RestartTypes
<1>3. ASSUME NEW c \in Clients,
             \/ Begin(c)
             \/ \E k \in Kinds, n \in Names : LookupCached(c, k, n) \/ LookupMiss(c, k, n)
             \/ Select(c) \/ Insert(c) \/ Commit(c) \/ Fail(c)
             \/ StartWarmup(c) \/ List(c) \/ AddKnown(c) \/ ListedEvents(c) \/ EndWarmup(c)
      PROVE  TypeInv'
  BY <1>3, LookupTypes, StatementTypes, EndTypes, WarmupTypes
<1> QED BY <1>1, <1>2, <1>3 DEF Next

\* Variables of TypeRegistry.tla keep their types, with either engine.
THEOREM TypeCorrectness == Spec => []TypeOK
<1>1. TypeInv => TypeOK BY DEF TypeInv
<1> QED BY <1>1, InitTypes, NextTypes, PTL DEF Spec
-----------------------------------------------------------------------------
(* Ids and names.                                                           *)

\* What a step leaves in the tables and in transactions, and in maps and lists, was
\* held before, but for the triples <<kind, id, name>> of new.
RowsFrom(new) ==
  /\ \A k \in Kinds : \A t \in types'[k] : Holds(k, t.id, t.name) \/ <<k, t.id, t.name>> \in new
  /\ \A c \in Clients, k \in Kinds : \A t \in added'[c][k] :
       Holds(k, t.id, t.name) \/ <<k, t.id, t.name>> \in new
  /\ \A r \in rows' : Holds(r.kind, r.id, r.name) \/ <<r.kind, r.id, r.name>> \in new

MapsFrom(new) ==
  /\ \A s \in Stores, k \in Kinds, n \in Names : cache'[s][k][n] # 0 =>
       Holds(k, cache'[s][k][n], n) \/ <<k, cache'[s][k][n], n>> \in new
  /\ \A c \in Clients : \A u \in uses'[c] :
       Holds(u.kind, u.id, u.name) \/ <<u.kind, u.id, u.name>> \in new
  /\ \A c \in Clients : \A t \in listed'[c] :
       Holds(want'[c].kind, t.id, t.name) \/ <<want'[c].kind, t.id, t.name>> \in new

\* All the places in which an id is held.
LEMMA Held ==
  ASSUME TypeInv
  PROVE  /\ \A k \in Kinds : \A t \in types[k] : Holds(k, t.id, t.name)
         /\ \A c \in Clients, k \in Kinds : \A t \in added[c][k] : Holds(k, t.id, t.name)
         /\ \A c \in Clients, k \in Kinds : \A t \in Visible(c, k) : Holds(k, t.id, t.name)
         /\ \A r \in rows : Holds(r.kind, r.id, r.name)
         /\ \A s \in Stores, k \in Kinds, n \in Names : Holds(k, cache[s][k][n], n)
         /\ \A c \in Clients : \A u \in uses[c] : Holds(u.kind, u.id, u.name)
         /\ \A c \in Clients : \A t \in listed[c] : Holds(want[c].kind, t.id, t.name)
BY DEF Holds, Visible

\* Nothing is held after the step but what was held before, and what is new.
LEMMA HeldBefore ==
  ASSUME NEW new, RowsFrom(new), MapsFrom(new),
         NEW k \in Kinds, NEW i \in Ids, NEW n \in Names, Holds(k, i, n)'
  PROVE  Holds(k, i, n) \/ <<k, i, n>> \in new
<1>0. i # 0 BY TypeRegistryAssumption DEF Ids, TypeRegistryAssumption
<1>1. \A t \in types'[k] : t.id = i /\ t.name = n => Holds(k, i, n) \/ <<k, i, n>> \in new
  BY DEF RowsFrom
<1>2. \A c \in Clients : \A t \in added'[c][k] :
        t.id = i /\ t.name = n => Holds(k, i, n) \/ <<k, i, n>> \in new
  BY DEF RowsFrom
<1>3. \A r \in rows' :
        r.kind = k /\ r.id = i /\ r.name = n => Holds(k, i, n) \/ <<k, i, n>> \in new
  BY DEF RowsFrom
<1>4. \A s \in Stores : cache'[s][k][n] = i => Holds(k, i, n) \/ <<k, i, n>> \in new
  BY <1>0 DEF MapsFrom
<1>5. \A c \in Clients : \A u \in uses'[c] :
        u.kind = k /\ u.id = i /\ u.name = n => Holds(k, i, n) \/ <<k, i, n>> \in new
  BY DEF MapsFrom
<1>6. \A c \in Clients : \A t \in listed'[c] :
        want'[c].kind = k /\ t.id = i /\ t.name = n => Holds(k, i, n) \/ <<k, i, n>> \in new
  BY DEF MapsFrom
<1>7. \/ \E t \in types'[k] : t.id = i /\ t.name = n
      \/ \E c \in Clients : \E t \in added'[c][k] : t.id = i /\ t.name = n
      \/ \E s \in Stores : cache'[s][k][n] = i
      \/ \E r \in rows' : r.kind = k /\ r.id = i /\ r.name = n
      \/ \E c \in Clients : \E u \in uses'[c] : u.kind = k /\ u.id = i /\ u.name = n
      \/ \E c \in Clients : \E t \in listed'[c] : want'[c].kind = k /\ t.id = i /\ t.name = n
  BY DEF Holds
<1> QED BY <1>1, <1>2, <1>3, <1>4, <1>5, <1>6, <1>7

\* A step that hands on what is held.
LEMMA HandedOn ==
  ASSUME IdsInv, RowsFrom({}), MapsFrom({}), lastId' = lastId
  PROVE  Issued' /\ OneName'
<1>1. ASSUME NEW k \in Kinds, NEW i \in Ids, NEW n \in Names, Holds(k, i, n)' PROVE Holds(k, i, n)
  <2> DEFINE new == {}
  <2>1. RowsFrom(new) /\ MapsFrom(new) OBVIOUS
  <2> HIDE DEF new
  <2>2. Holds(k, i, n) \/ <<k, i, n>> \in new BY <1>1, <2>1, HeldBefore
  <2> QED BY <2>2 DEF new
<1>2. Issued' BY <1>1 DEF IdsInv, Issued
<1>3. OneName' BY <1>1 DEF IdsInv, OneName
<1> QED BY <1>2, <1>3

\* A step that gives a name the next id of the sequence.
LEMMA HandedOut ==
  ASSUME IdsInv, NEW K \in Kinds, NEW N \in Names,
         RowsFrom({<<K, lastId[K] + 1, N>>}), MapsFrom({<<K, lastId[K] + 1, N>>}),
         lastId' = [lastId EXCEPT ![K] = lastId[K] + 1]
  PROVE  Issued' /\ OneName'
<1>a. lastId \in [Kinds -> 0 .. MaxId] /\ MaxId \in Nat
  BY TypeRegistryAssumption DEF IdsInv, TypeInv, TypeOK, TypeRegistryAssumption
<1>1. ASSUME NEW k \in Kinds, NEW i \in Ids, NEW n \in Names, Holds(k, i, n)'
      PROVE  Holds(k, i, n) \/ (k = K /\ i = lastId[K] + 1 /\ n = N)
  <2> DEFINE new == {<<K, lastId[K] + 1, N>>}
  <2>1. RowsFrom(new) /\ MapsFrom(new) OBVIOUS
  <2> HIDE DEF new
  <2>2. Holds(k, i, n) \/ <<k, i, n>> \in new BY <1>1, <2>1, HeldBefore
  <2> QED BY <2>2 DEF new
<1>2. \A k \in Kinds, i \in Ids, n \in Names : Holds(k, i, n) => i <= lastId[k]
  BY DEF IdsInv, Issued
<1>3. Issued'
  <2> SUFFICES ASSUME NEW k \in Kinds, NEW i \in Ids, NEW n \in Names, Holds(k, i, n)'
               PROVE  i <= lastId'[k]
    BY DEF Issued
  <2>1. CASE Holds(k, i, n)
    <3>1. i <= lastId[k] BY <1>2, <2>1
    <3> QED BY <1>a, <3>1 DEF Ids
  <2>2. CASE k = K /\ i = lastId[K] + 1 BY <1>a, <2>2
  <2> QED BY <1>1, <2>1, <2>2
<1>4. OneName'
  <2> SUFFICES ASSUME NEW k \in Kinds, NEW i \in Ids, NEW m \in Names, NEW n \in Names,
                      Holds(k, i, m)', Holds(k, i, n)'
               PROVE  m = n
    BY DEF OneName
  <2>1. Holds(k, i, m) \/ (k = K /\ i = lastId[K] + 1 /\ m = N) BY <1>1
  <2>2. Holds(k, i, n) \/ (k = K /\ i = lastId[K] + 1 /\ n = N) BY <1>1
  <2>3. ~(i = lastId[K] + 1 /\ i <= lastId[K]) BY <1>a
  <2> QED BY <1>2, <2>1, <2>2, <2>3 DEF IdsInv, OneName
<1> QED BY <1>3, <1>4

\* A map and a transaction get what SELECT or INSERT returned.
LEMMA ResolveMaps ==
  ASSUME TypeInv, NEW c \in Clients, pc[c] \in {"select", "insert"}, NEW id \in Ids, Resolve(c, id),
         NEW new, \/ Holds(want[c].kind, id, want[c].name)
                  \/ <<want[c].kind, id, want[c].name>> \in new
  PROVE  MapsFrom(new)
<1>a. /\ want[c] \in [kind : Kinds, name : Names] /\ job[c] \in {"context", "readonly", "warmup"}
      /\ job[c] # "warmup" => listed[c] = {}
  BY DEF TypeInv, TypeOK, JobsOK, JobOK
<1>1. \A s \in Stores, k \in Kinds, n \in Names : cache'[s][k][n] # 0 =>
        Holds(k, cache'[s][k][n], n) \/ <<k, cache'[s][k][n], n>> \in new
  <2> SUFFICES ASSUME NEW s \in Stores, NEW k \in Kinds, NEW n \in Names
               PROVE  Holds(k, cache'[s][k][n], n) \/ <<k, cache'[s][k][n], n>> \in new
    OBVIOUS
  <2>1. cache' = [cache EXCEPT ![StoreOf[c]][want[c].kind][want[c].name] = id] BY DEF Resolve
  <2>2. \/ cache'[s][k][n] = cache[s][k][n]
        \/ k = want[c].kind /\ n = want[c].name /\ cache'[s][k][n] = id
    BY <2>1, <1>a DEF TypeInv, TypeOK
  <2> QED BY <2>2, Held
<1>2. \A d \in Clients : \A u \in uses'[d] :
        Holds(u.kind, u.id, u.name) \/ <<u.kind, u.id, u.name>> \in new
  <2>1. \A d \in Clients : \A u \in uses'[d] :
          u \in uses[d] \/ u = [kind |-> want[c].kind, name |-> want[c].name, id |-> id]
    <3>1. CASE job[c] = "context"
      <4>1. uses' = [uses EXCEPT ![c] =
                       @ \cup {[kind |-> want[c].kind, name |-> want[c].name, id |-> id]}]
        BY <3>1 DEF Resolve, PutRow
      <4> QED BY <4>1 DEF TypeInv, TypeOK
    <3>2. CASE job[c] \in {"readonly", "warmup"}
      <4>1. uses' = uses BY <3>2 DEF Resolve
      <4> QED BY <4>1
    <3> QED BY <1>a, <3>1, <3>2
  <2> QED BY <2>1, Held
<1>3. \A d \in Clients : \A t \in listed'[d] : Holds(want'[d].kind, t.id, t.name)
  <2>1. listed' = listed BY <1>a DEF Resolve, warm
  <2>2. \A d \in Clients \ {c} : want'[d] = want[d] BY <1>a DEF Resolve, TypeInv, TypeOK
  <2>3. CASE job[c] = "warmup"
    <3>1. want'[c].kind = want[c].kind BY <1>a, <2>3 DEF Resolve, TypeInv, TypeOK
    <3> QED BY <2>1, <2>2, <3>1, Held
  <2>4. CASE job[c] # "warmup" BY <1>a, <2>1, <2>2, <2>4, Held
  <2> QED BY <2>3, <2>4
<1> QED BY <1>1, <1>2, <1>3 DEF MapsFrom

\* INSERT of a type takes its id from the sequence.
LEMMA InsertIds ==
  ASSUME ~SerialWriters, IdsInv, NEW c \in Clients, Insert(c)
  PROVE  Issued' /\ OneName'
<1> DEFINE k == want[c].kind
           n == want[c].name
           t == [id |-> lastId[k] + 1, name |-> n]
           new == {<<k, lastId[k] + 1, n>>}
<1>a. TypeInv /\ k \in Kinds /\ n \in Names
  <2>1. want[c] \in [kind : Kinds, name : Names] BY DEF Insert, IdsInv, TypeInv, JobsOK, JobOK
  <2> QED BY <2>1 DEF IdsInv
<1>1. /\ t.id \in Ids /\ Resolve(c, t.id) /\ rows' = rows
      /\ lastId' = [lastId EXCEPT ![k] = lastId[k] + 1]
      /\ \/ types' = [types EXCEPT ![k] = types[k] \cup {t}] /\ added' = added
         \/ added' = [added EXCEPT ![c][k] = added[c][k] \cup {t}] /\ types' = types
  BY DEF Insert, NextId
<1>2. <<k, t.id, t.name>> \in new OBVIOUS
<1>3. RowsFrom(new)
  <2> HIDE DEF new, t, k
  <2>1. \A kk \in Kinds : \A u \in types'[kk] : u \in types[kk] \/ (u = t /\ kk = k)
    BY <1>a, <1>1 DEF TypeInv, TypeOK
  <2>2. \A d \in Clients, kk \in Kinds : \A u \in added'[d][kk] :
          u \in added[d][kk] \/ (u = t /\ kk = k)
    <3>1. CASE added' = added BY <3>1
    <3>2. CASE added' = [added EXCEPT ![c][k] = added[c][k] \cup {t}]
      BY <1>a, <3>2 DEF TypeInv, TypeOK
    <3> QED BY <1>1, <3>1, <3>2
  <2> QED BY <1>a, <1>1, <1>2, <2>1, <2>2, Held DEF RowsFrom
<1>4. MapsFrom(new)
  <2>1. pc[c] \in {"select", "insert"} BY DEF Insert
  <2>2. t.id = lastId[k] + 1 OBVIOUS
  <2>3. <<want[c].kind, t.id, want[c].name>> \in new OBVIOUS
  <2> HIDE DEF t, new
  <2> QED BY <1>a, <1>1, <2>1, <2>3, ResolveMaps
<1> QED BY <1>a, <1>1, <1>3, <1>4, HandedOut

\* Maps and lists from which nothing new is learned.
LEMMA MapsHandedOn ==
  ASSUME TypeInv, uses' = uses,
         \A s \in Stores, k \in Kinds, n \in Names :
           cache'[s][k][n] # 0 => Holds(k, cache'[s][k][n], n),
         \A c \in Clients : \A t \in listed'[c] : Holds(want'[c].kind, t.id, t.name)
  PROVE  MapsFrom({})
<1>1. \A c \in Clients : \A u \in uses'[c] : Holds(u.kind, u.id, u.name) BY Held
<1> QED BY <1>1 DEF MapsFrom

\* Steps that insert no type hand on what is held.
LEMMA LookupIds ==
  ASSUME IdsInv, NEW c \in Clients,
         \/ Begin(c) \/ Select(c)
         \/ \E k \in Kinds, n \in Names : LookupCached(c, k, n) \/ LookupMiss(c, k, n)
  PROVE  RowsFrom({}) /\ MapsFrom({}) /\ lastId' = lastId
<1>a. TypeInv /\ StoreOf[c] \in Stores
  BY TypeRegistryAssumption DEF IdsInv, TypeRegistryAssumption
<1>1. types' = types /\ added' = added /\ rows' = rows /\ lastId' = lastId
  BY DEF Begin, Select, LookupCached, LookupMiss, db
<1>2. RowsFrom({}) BY <1>a, <1>1, Held DEF RowsFrom
<1>3. CASE Begin(c) BY <1>a, <1>2, <1>1, <1>3, Held DEF Begin, MapsFrom, warm
<1>4. ASSUME NEW k \in Kinds, NEW n \in Names, LookupCached(c, k, n) PROVE MapsFrom({})
  <2>1. UNCHANGED <<cache, want, listed>> BY <1>4 DEF LookupCached, warm
  <2>2. \A d \in Clients : \A u \in uses'[d] :
          u \in uses[d] \/ u = [kind |-> k, name |-> n, id |-> cache[StoreOf[c]][k][n]]
    BY <1>4, <1>a DEF LookupCached, PutRow, Cached, TypeInv, TypeOK
  <2>3. Holds(k, cache[StoreOf[c]][k][n], n) BY <1>a, Held
  <2>4. \A d \in Clients : \A u \in uses'[d] : Holds(u.kind, u.id, u.name)
    BY <1>a, <2>2, <2>3, Held
  <2> QED BY <1>a, <2>1, <2>4, Held DEF MapsFrom
<1>5. ASSUME NEW k \in Kinds, NEW n \in Names, LookupMiss(c, k, n) PROVE MapsFrom({})
  <2>1. UNCHANGED <<cache, uses, listed>> /\ want' = [want EXCEPT ![c] = [kind |-> k, name |-> n]]
    BY <1>5 DEF LookupMiss, warm
  <2>2. listed[c] = {} BY <1>5, <1>a DEF LookupMiss, TypeInv, JobsOK, JobOK
  <2>3. \A d \in Clients \ {c} : want'[d] = want[d] BY <1>a, <2>1 DEF TypeInv, TypeOK
  <2> QED BY <1>a, <2>1, <2>2, <2>3, Held DEF MapsFrom
<1>6. ASSUME Select(c), NEW t \in Visible(c, want[c].kind), t.name = want[c].name, Resolve(c, t.id)
      PROVE  MapsFrom({})
  <2>1. pc[c] \in {"select", "insert"} /\ want[c] \in [kind : Kinds, name : Names]
    BY <1>6, <1>a DEF Select, TypeInv, JobsOK, JobOK
  <2>2. t.id \in Ids BY <1>a, <1>6, <2>1, VisibleTypes DEF TypeRow
  <2>3. Holds(want[c].kind, t.id, want[c].name) BY <1>a, <1>6, <2>1, Held
  <2> QED BY <1>a, <1>6, <2>1, <2>2, <2>3, ResolveMaps
<1>7. CASE Select(c) /\ UNCHANGED <<cache, uses, job, want, warm>>
  BY <1>a, <1>1, <1>2, <1>7, Held DEF MapsFrom, warm
<1>8. Select(c) => MapsFrom({})
  <2>1. Select(c) => \/ \E t \in Visible(c, want[c].kind) : t.name = want[c].name /\ Resolve(c, t.id)
                     \/ UNCHANGED <<cache, uses, job, want, warm>>
    BY DEF Select
  <2> QED BY <2>1, <1>6, <1>7
<1> QED BY <1>1, <1>2, <1>3, <1>4, <1>5, <1>8

\* A transaction ends: what it added is in the table, or gone.
LEMMA EndIds ==
  ASSUME IdsInv, NEW c \in Clients, Commit(c) \/ Fail(c) \/ EndWarmup(c)
  PROVE  RowsFrom({}) /\ MapsFrom({}) /\ lastId' = lastId
<1>a. TypeInv BY DEF IdsInv
<1>1. cache' = cache /\ lastId' = lastId BY DEF Commit, Fail, EndWarmup, db
<1>2. /\ \A d \in Clients, k \in Kinds : \A t \in added'[d][k] : t \in added[d][k]
      /\ \A d \in Clients : \A u \in uses'[d] : u \in uses[d]
      /\ \A d \in Clients : \A t \in listed'[d] : t \in listed[d] /\ want'[d] = want[d]
  <2>1. CASE Leave(c)
    <3>1. \A d \in Clients \ {c} : /\ added'[d] = added[d] /\ uses'[d] = uses[d]
                                 /\ listed'[d] = listed[d] /\ want'[d] = want[d]
      BY <1>a, <2>1 DEF Leave, TypeInv, TypeOK
    <3>2. uses'[c] = {} /\ listed'[c] = {} /\ \A k \in Kinds : added'[c][k] = {}
      BY <1>a, <2>1 DEF Leave, TypeInv, TypeOK, NoTypes
    <3> QED BY <3>1, <3>2
  <2>2. CASE Fail(c) /\ ~Leave(c)
    <3>1. /\ want' = [want EXCEPT ![c] = NoType] /\ listed' = [listed EXCEPT ![c] = {}]
          /\ UNCHANGED <<added, uses>>
      BY <2>2 DEF Fail
    <3>2. listed'[c] = {} /\ \A d \in Clients \ {c} : listed'[d] = listed[d] /\ want'[d] = want[d]
      BY <1>a, <3>1 DEF TypeInv, TypeOK
    <3> QED BY <3>1, <3>2
  <2> QED BY <2>1, <2>2 DEF Commit, EndWarmup
<1>3. \A k \in Kinds : \A t \in types'[k] : Holds(k, t.id, t.name)
  <2>1. types' = types \/ types' = [k \in Kinds |-> Visible(c, k)]
    BY DEF Commit, Fail, EndWarmup, db
  <2> QED BY <1>a, <2>1, Held
<1>4. \A r \in rows' : r \in rows \/ r \in uses[c] BY DEF Commit, Fail, EndWarmup, db
<1>5. RowsFrom({}) BY <1>a, <1>2, <1>3, <1>4, Held DEF RowsFrom
<1>6. MapsFrom({}) BY <1>a, <1>1, <1>2, Held DEF MapsFrom
<1> QED BY <1>1, <1>5, <1>6

\* Warmup fills the maps with what it has read.
LEMMA WarmupIds ==
  ASSUME IdsInv, NEW c \in Clients, StartWarmup(c) \/ List(c) \/ AddKnown(c) \/ ListedEvents(c)
  PROVE  RowsFrom({}) /\ MapsFrom({}) /\ lastId' = lastId
<1>a. TypeInv /\ StoreOf[c] \in Stores
  BY TypeRegistryAssumption DEF IdsInv, TypeRegistryAssumption
<1>1. types' = types /\ added' = added /\ rows' = rows /\ lastId' = lastId /\ uses' = uses
  BY DEF StartWarmup, List, AddKnown, ListedEvents, db
<1>2. RowsFrom({}) BY <1>a, <1>1, Held DEF RowsFrom
<1>3. CASE StartWarmup(c)
  <2>1. cache' = cache /\ listed' = listed /\ listed[c] = {}
    BY <1>3, <1>a DEF StartWarmup, warm, TypeInv, JobsOK, JobOK
  <2>2. \A d \in Clients \ {c} : want'[d] = want[d] BY <1>3, <1>a DEF StartWarmup, TypeInv, TypeOK
  <2>3. \A d \in Clients : \A t \in listed'[d] : Holds(want'[d].kind, t.id, t.name)
    BY <1>a, <2>1, <2>2, Held
  <2>4. \A s \in Stores, k \in Kinds, n \in Names : Holds(k, cache'[s][k][n], n) BY <1>a, <2>1, Held
  <2> QED BY <1>a, <1>1, <1>2, <2>3, <2>4, MapsHandedOn
<1>4. CASE List(c)
  <2> DEFINE k == want[c].kind
  <2>1. k \in Kinds BY <1>4, <1>a DEF List, TypeInv, JobsOK, JobOK, Want
  <2>a. PICK T \in TypesListed(c, k) :
          /\ listed' = [listed EXCEPT ![c] = T]
          /\ cache' = IF k = "aggregate" THEN [cache EXCEPT ![StoreOf[c]][k] = ToId(T)] ELSE cache
    BY <1>4 DEF List
  <2>b. T \subseteq Visible(c, k) BY <2>a DEF TypesListed
  <2>2. T \in SUBSET TypeRow BY <1>a, <2>1, <2>b, VisibleTypes
  <2>3. \A n \in Names : ToId(T)[n] # 0 => Holds(k, ToId(T)[n], n)
    BY <1>a, <2>1, <2>2, <2>b, ToIdOf, Held
  <2>4. /\ want' = want /\ listed' = [listed EXCEPT ![c] = T]
        /\ \/ cache' = cache
           \/ cache' = [cache EXCEPT ![StoreOf[c]][k] = ToId(T)]
    BY <1>4, <2>a DEF List
  <2>5. \A t \in T : Holds(k, t.id, t.name) BY <1>a, <2>1, <2>b, Held
  <2>6. ASSUME NEW s \in Stores, NEW kk \in Kinds, NEW n \in Names, cache'[s][kk][n] # 0
        PROVE  Holds(kk, cache'[s][kk][n], n)
    <3>1. CASE cache' = cache BY <1>a, <3>1, Held
    <3>2. CASE cache' = [cache EXCEPT ![StoreOf[c]][k] = ToId(T)]
      <4>1. cache'[s][kk] = cache[s][kk] \/ (kk = k /\ cache'[s][kk] = ToId(T))
        BY <1>a, <2>1, <3>2 DEF TypeInv, TypeOK
      <4> QED BY <1>a, <2>3, <2>6, <4>1, Held
    <3> QED BY <2>4, <3>1, <3>2
  <2>7. ASSUME NEW d \in Clients, NEW t \in listed'[d] PROVE Holds(want'[d].kind, t.id, t.name)
    BY <1>a, <2>4, <2>5, <2>7, Held DEF TypeInv, TypeOK
  <2> QED BY <1>a, <1>1, <1>2, <2>6, <2>7, MapsHandedOn
<1>5. CASE AddKnown(c)
  <2>1. cache' = cache /\ listed' = listed BY <1>5 DEF AddKnown, warm
  <2>2. want[c] \in Want BY <1>5, <1>a DEF AddKnown, TypeInv, JobsOK, JobOK
  <2>3. \A d \in Clients : want'[d].kind = want[d].kind
    BY <1>5, <1>a, <2>2 DEF AddKnown, TypeInv, TypeOK, Want
  <2>4. \A d \in Clients : \A t \in listed'[d] : Holds(want'[d].kind, t.id, t.name)
    BY <1>a, <2>1, <2>3, Held
  <2>5. \A s \in Stores, k \in Kinds, n \in Names : Holds(k, cache'[s][k][n], n) BY <1>a, <2>1, Held
  <2> QED BY <1>a, <1>1, <1>2, <2>4, <2>5, MapsHandedOn
<1>6. CASE ListedEvents(c)
  <2>1. listed' = [listed EXCEPT ![c] = {}] /\ want[c].kind = "event" /\ "event" \in Kinds
    BY <1>6 DEF ListedEvents, Kinds
  <2>2. \A d \in Clients \ {c} : want'[d] = want[d] BY <1>6, <1>a DEF ListedEvents, TypeInv, TypeOK
  <2>3. \A n \in Names : AfterEvents(c)[n] # 0 => Holds("event", AfterEvents(c)[n], n)
    <3>1. listed[c] \in SUBSET TypeRow BY <1>a DEF TypeInv, TypeOK
    <3>2. \A t \in listed[c] : Holds("event", t.id, t.name) BY <1>a, <2>1, Held
    <3> QED BY <3>1, <3>2, ToIdOf DEF AfterEvents
  <2>4. cache' = cache \/ cache' = [cache EXCEPT ![StoreOf[c]]["event"] = AfterEvents(c)]
    BY <1>6 DEF ListedEvents
  <2>5. ASSUME NEW s \in Stores, NEW k \in Kinds, NEW n \in Names, cache'[s][k][n] # 0
        PROVE  Holds(k, cache'[s][k][n], n)
    <3>1. CASE cache' = cache BY <1>a, <3>1, Held
    <3>2. CASE cache' = [cache EXCEPT ![StoreOf[c]]["event"] = AfterEvents(c)]
      <4>1. cache'[s][k] = cache[s][k] \/ (k = "event" /\ cache'[s][k] = AfterEvents(c))
        BY <1>a, <2>1, <3>2 DEF TypeInv, TypeOK
      <4> QED BY <1>a, <2>3, <2>5, <4>1, Held
    <3> QED BY <2>4, <3>1, <3>2
  <2>6. \A d \in Clients : \A t \in listed'[d] : t \in listed[d] /\ want'[d] = want[d]
    BY <1>a, <2>1, <2>2 DEF TypeInv, TypeOK
  <2>7. \A d \in Clients : \A t \in listed'[d] : Holds(want'[d].kind, t.id, t.name) BY <1>a, <2>6, Held
  <2> QED BY <1>a, <1>1, <1>2, <2>5, <2>7, MapsHandedOn
<1> QED BY <1>1, <1>2, <1>3, <1>4, <1>5, <1>6

\* A process that dies forgets.
LEMMA RestartIds ==
  ASSUME IdsInv, NEW s \in Stores, Restart(s)
  PROVE  RowsFrom({}) /\ MapsFrom({}) /\ lastId' = lastId
<1>a. TypeInv BY DEF IdsInv
<1>1. types' = types /\ rows' = rows /\ lastId' = lastId BY DEF Restart, db
<1>2. /\ \A d \in Clients, k \in Kinds : \A t \in added'[d][k] : t \in added[d][k]
      /\ \A d \in Clients : \A u \in uses'[d] : u \in uses[d]
      /\ \A d \in Clients : \A t \in listed'[d] : t \in listed[d] /\ want'[d] = want[d]
  BY DEF Restart, NoTypes
<1>3. \A z \in Stores, k \in Kinds, n \in Names : cache'[z][k][n] # 0 => cache'[z][k][n] = cache[z][k][n]
  BY <1>a DEF Restart, NoCache, TypeInv, TypeOK
<1>4. RowsFrom({}) BY <1>a, <1>1, <1>2, Held DEF RowsFrom
<1>5. MapsFrom({}) BY <1>a, <1>2, <1>3, Held DEF MapsFrom
<1> QED BY <1>1, <1>4, <1>5

\* Nothing is held at the start.
LEMMA InitIds == Init => IdsInv
<1> SUFFICES ASSUME Init PROVE IdsInv OBVIOUS
<1>1. \A k \in Kinds, i \in Ids, n \in Names : ~Holds(k, i, n)
  BY TypeRegistryAssumption
     DEF Init, NoTypes, NoCache, Holds, Ids, TypeRegistryAssumption
<1> QED BY <1>1, InitTypes DEF IdsInv, Issued, OneName

\* Every step.
LEMMA NextIds == ASSUME ~SerialWriters PROVE IdsInv /\ [Next]_vars => IdsInv'
<1> SUFFICES ASSUME IdsInv, [Next]_vars PROVE IdsInv' OBVIOUS
<1>0. TypeInv' BY NextTypes DEF IdsInv
<1>1. CASE UNCHANGED vars
  <2>1. UNCHANGED <<cache, types, lastId, rows, added, uses, want, listed>>
    BY <1>1 DEF vars, db, warm
  <2>2. RowsFrom({}) /\ MapsFrom({}) BY <2>1, Held DEF RowsFrom, MapsFrom, IdsInv
  <2> QED BY <1>0, <2>1, <2>2, HandedOn DEF IdsInv
<1>2. ASSUME NEW s \in Stores, Restart(s) PROVE IdsInv'
  BY <1>0, <1>2, RestartIds, HandedOn DEF IdsInv
<1>3. ASSUME NEW c \in Clients, Insert(c) PROVE IdsInv'
  BY <1>0, <1>3, InsertIds DEF IdsInv
<1>4. ASSUME NEW c \in Clients,
             \/ Begin(c) \/ Select(c)
             \/ \E k \in Kinds, n \in Names : LookupCached(c, k, n) \/ LookupMiss(c, k, n)
      PROVE  IdsInv'
  BY <1>0, <1>4, LookupIds, HandedOn DEF IdsInv
<1>5. ASSUME NEW c \in Clients, Commit(c) \/ Fail(c) \/ EndWarmup(c) PROVE IdsInv'
  BY <1>0, <1>5, EndIds, HandedOn DEF IdsInv
<1>6. ASSUME NEW c \in Clients, StartWarmup(c) \/ List(c) \/ AddKnown(c) \/ ListedEvents(c)
      PROVE  IdsInv'
  BY <1>0, <1>6, WarmupIds, HandedOn DEF IdsInv
<1> QED BY <1>1, <1>2, <1>3, <1>4, <1>5, <1>6 DEF Next

\* The inductive invariant holds in every state.
LEMMA IdsInvariant == ASSUME ~SerialWriters PROVE Spec => []IdsInv
<1>1. IdsInv /\ [Next]_vars => IdsInv' BY NextIds
<1> QED BY <1>1, InitIds, PTL DEF Spec

\* Rows of types are never deleted, and events come with a reference that holds.
LEMMA NextReferences == TypeInv /\ ReferencesInv /\ [Next]_vars => ReferencesInv'
<1> SUFFICES ASSUME TypeInv, ReferencesInv, [Next]_vars, EventForeignKeys
             PROVE  \A r \in rows' : r.kind = "event" => \E t \in types'["event"] : t.id = r.id
  BY DEF ReferencesInv
<1>0. "event" \in Kinds BY DEF Kinds
<1>1. types["event"] \subseteq types'["event"]
  <2>1. CASE types' = types BY <2>1
  <2>2. ASSUME NEW c \in Clients, types' = [k \in Kinds |-> Visible(c, k)]
        PROVE  types["event"] \subseteq types'["event"]
    BY <1>0, <2>2 DEF Visible
  <2>3. ASSUME NEW c \in Clients, Insert(c) PROVE types["event"] \subseteq types'["event"]
    <3> DEFINE t == [id |-> NextId(c, want[c].kind), name |-> want[c].name]
    <3>1. types' = types \/ types' = [types EXCEPT ![want[c].kind] = @ \cup {t}]
      BY <2>3 DEF Insert
    <3> HIDE DEF t
    <3> QED BY <1>0, <3>1 DEF TypeInv, TypeOK
  <2>4. \/ types' = types
        \/ \E c \in Clients : types' = [k \in Kinds |-> Visible(c, k)] \/ Insert(c)
    BY DEF Next, Begin, LookupCached, LookupMiss, Select, Commit, Fail, StartWarmup, List, AddKnown,
           ListedEvents, EndWarmup, Restart, vars, db
  <2> QED BY <2>1, <2>2, <2>3, <2>4
<1>2. CASE rows' = rows BY <1>1, <1>2 DEF ReferencesInv
<1>3. ASSUME NEW c \in Clients, Commit(c)
      PROVE  \A r \in rows' : r.kind = "event" => \E t \in types'["event"] : t.id = r.id
  <2>1. /\ rows' = rows \cup uses[c] /\ types'["event"] = Visible(c, "event")
        /\ \A u \in uses[c] : u.kind = "event" => \E t \in Visible(c, "event") : t.id = u.id
    BY <1>0, <1>3 DEF Commit, ReferencesHold
  <2> QED BY <1>1, <2>1 DEF ReferencesInv
<1>4. rows' = rows \/ \E c \in Clients : Commit(c)
  BY DEF Next, Begin, LookupCached, LookupMiss, Select, Insert, Fail, StartWarmup, List, AddKnown,
         ListedEvents, EndWarmup, Restart, vars, db
<1> QED BY <1>2, <1>3, <1>4

\* Events always come with a reference that holds, with either engine.
LEMMA ReferencesInvariant == Spec => []ReferencesInv
<1>1. Init => ReferencesInv BY DEF Init, ReferencesInv
<1> QED BY <1>1, InitTypes, NextTypes, NextReferences, PTL DEF Spec

-----------------------------------------------------------------------------
(* The theorems.                                                            *)

\* Where ids come from sequences, no stored row is ever taken for another type.
THEOREM RowsNeverMistaken == ASSUME ~SerialWriters PROVE Spec => []NeverMistaken
<1>1. ASSUME IdsInv PROVE NeverMistaken
  <2> SUFFICES ASSUME NEW r \in rows, NEW t \in types[r.kind], t.id = r.id PROVE t.name = r.name
    BY DEF NeverMistaken
  <2>1. r \in UseRow /\ r.kind \in Kinds /\ t \in TypeRow
    BY <1>1 DEF IdsInv, TypeInv, TypeOK, UseRow
  <2>2. Holds(r.kind, r.id, r.name) /\ Holds(r.kind, r.id, t.name) BY <1>1, <2>1, Held DEF IdsInv
  <2> QED BY <1>1, <2>1, <2>2 DEF IdsInv, OneName, UseRow, TypeRow
<1> QED BY <1>1, IdsInvariant, PTL

\* Nor do the maps ever hold the id of another name, whatever was rolled back.
THEOREM MapsNeverMislead == ASSUME ~SerialWriters PROVE Spec => []CachesNeverMislead
<1>1. ASSUME IdsInv PROVE CachesNeverMislead
  <2> SUFFICES ASSUME NEW s \in Stores, NEW k \in Kinds, NEW n \in Names, NEW c \in Clients,
                      NEW t \in Visible(c, k), t.id = cache[s][k][n]
               PROVE  t.name = n
    BY DEF CachesNeverMislead
  <2>1. t \in TypeRow BY <1>1, VisibleTypes DEF IdsInv
  <2>2. Holds(k, t.id, n) /\ Holds(k, t.id, t.name) BY <1>1, Held DEF IdsInv
  <2> QED BY <1>1, <2>1, <2>2 DEF IdsInv, OneName, TypeRow
<1> QED BY <1>1, IdsInvariant, PTL

\* With the foreign key of table events as well, a stored event is read back as what it
\* was written as.
THEOREM EventsReadBack ==
  ASSUME ~SerialWriters, EventForeignKeys PROVE Spec => []EventsKeepTheirType
<1>1. ASSUME IdsInv, ReferencesInv PROVE EventsKeepTheirType
  <2> SUFFICES ASSUME NEW r \in rows, r.kind = "event"
               PROVE  \E t \in types["event"] : t.id = r.id /\ t.name = r.name
    BY DEF EventsKeepTheirType, KeepsItsType
  <2>1. PICK t \in types["event"] : t.id = r.id BY <1>1 DEF ReferencesInv
  <2>2. r \in UseRow /\ t \in TypeRow /\ "event" \in Kinds
    BY <1>1 DEF IdsInv, TypeInv, TypeOK, Kinds
  <2>3. Holds("event", r.id, r.name) /\ Holds("event", r.id, t.name)
    BY <1>1, <2>1, <2>2, Held DEF IdsInv
  <2>4. t.name = r.name BY <1>1, <2>1, <2>2, <2>3 DEF IdsInv, OneName, UseRow, TypeRow
  <2> QED BY <2>1, <2>4
<1> QED BY <1>1, IdsInvariant, ReferencesInvariant, PTL
=============================================================================
