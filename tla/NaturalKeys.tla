---------------------------- MODULE NaturalKeys ----------------------------
(***************************************************************************)
(* Natural keys of aggregates in the SQL engines: creation with and        *)
(* without a key, load-or-create, loads by key and changes of keys, in     *)
(* transactions that run at the same time.  Code: NewAggregate,            *)
(* NewAggregateWithKey, GetOrCreateAggregateByKey, GetAggregateByKey and   *)
(* ChangeAggregateNaturalKey of the engines, and the operations of         *)
(* base/context.go that call them.                                         *)
(*                                                                         *)
(* Each SELECT, INSERT and UPDATE is a step.  A SELECT sees the rows that  *)
(* are committed when it runs (READ COMMITTED).  One snapshot for each     *)
(* transaction and one writer at a time, as in SQLite, allow fewer         *)
(* behaviours.                                                             *)
(***************************************************************************)
CONSTANTS
  Clients,        \* goroutines, of any process
  Types,          \* aggregate types
  Keys,           \* natural keys
  NoKey,          \* natural_key IS NULL
  NoRow,          \* no row, or none changed, with this id
  NoStatement,    \* no statement in progress
  Ids             \* ids of table aggregates

ASSUME NaturalKeysAssumption ==
  NoKey \notin Keys /\ NoRow \notin Ids \cup [type : Types, key : Keys \cup {NoKey}]

VARIABLES
  rows,     \* rows[a]: the committed row of table aggregates with id a
  own,      \* own[c][a]: the row with id a as c's transaction has written it
  pc,       \* where c is: "idle", "open" (in its callback), or its statement
  want,     \* [type, key, id] of c's statement
  answers,  \* history: what load-or-create told c's callback
  told,     \* history: answers of contexts that returned nil, of ids not in moved
  moved     \* history: ids whose key a committed context changed to another one

history == <<told, moved>>
vars == <<rows, own, pc, want, answers, history>>

-----------------------------------------------------------------------------
Row == [type : Types, key : Keys \cup {NoKey}]
Want == [type : Types \cup {NoRow}, key : Keys \cup {NoKey}, id : Ids \cup {NoRow}]
Answer == [key : Keys, id : Ids]

NoRows == [a \in Ids |-> NoRow]

Init ==
  /\ rows = NoRows
  /\ own = [c \in Clients |-> NoRows]
  /\ pc = [c \in Clients |-> "idle"]
  /\ want = [c \in Clients |-> NoStatement]
  /\ answers = [c \in Clients |-> {}]
  /\ told = {} /\ moved = {}

Changed(c) == {a \in Ids : own[c][a] # NoRow}

\* What c's statements see: its own rows and the committed ones.
View(c) == [a \in Ids |-> IF own[c][a] # NoRow THEN own[c][a] ELSE rows[a]]

\* SELECT id ... WHERE natural_key = k AND aggregate_type_id = t
WithKey(c, t, k) == {a \in Ids : View(c)[a] = [type |-> t, key |-> k]}

Begin(c) ==
  /\ pc[c] = "idle"
  /\ pc' = [pc EXCEPT ![c] = "open"]
  /\ UNCHANGED <<rows, own, want, answers, history>>

\* c's callback starts a statement.
Start(c, label, w) ==
  /\ pc[c] = "open"
  /\ pc' = [pc EXCEPT ![c] = label]
  /\ want' = [want EXCEPT ![c] = w]

-----------------------------------------------------------------------------
(* The operations of a context                                              *)

NewAggregate(c, t) ==
  /\ Start(c, "create", [type |-> t, key |-> NoKey, id |-> NoRow])
  /\ UNCHANGED <<rows, own, answers, history>>

NewAggregateWithKey(c, t, k) ==
  /\ Start(c, "create", [type |-> t, key |-> k, id |-> NoRow])
  /\ UNCHANGED <<rows, own, answers, history>>

\* The SELECT of GetOrCreateAggregateByKey.  Its INSERT follows, or the load by
\* key of LoadOrCreateAggregate, which asks for the key a second time.
GetOrCreate(c, t, k) ==
  /\ Start(c, IF WithKey(c, t, k) = {} THEN "create_or_load" ELSE "load",
           [type |-> t, key |-> k, id |-> NoRow])
  /\ UNCHANGED <<rows, own, answers, history>>

\* The id comes from an earlier context, perhaps one that failed.
ChangeAggregateNaturalKey(c, a, k) ==
  /\ Start(c, "change", [type |-> NoRow, key |-> k, id |-> a])
  /\ UNCHANGED <<rows, own, answers, history>>

-----------------------------------------------------------------------------
(* Rows, their locks and natural_key UNIQUE                                 *)

\* c is about to write a row: UPDATE ... WHERE id = a writes none if none is there.
Writes(c) ==
  \/ pc[c] \in {"create", "create_or_load"}
  \/ pc[c] = "change" /\ View(c)[want[c].id] # NoRow

\* natural_key UNIQUE.  The mutant has it for each type.
SameKeyAndType(r, s) == r.type = s.type /\ r.key = s.key /\ r.key # NoKey
SameKey(r, s) == r.key = s.key /\ r.key # NoKey

\* The row c writes.  The mutant writes the type as well when it changes a key.
NewRowOfStatement(c) == [type |-> want[c].type, key |-> want[c].key]
NewRow(c) ==
  IF pc[c] = "change" THEN [View(c)[want[c].id] EXCEPT !.key = want[c].key]
                      ELSE [type |-> want[c].type, key |-> want[c].key]

\* Another row that c sees has the key.
Taken(c) ==
  \E a \in Ids \ {want[c].id} : View(c)[a] # NoRow /\ SameKey(View(c)[a], NewRow(c))

\* c waits for d: d has written, or given up, that key, or the row itself.
WaitsFor(c, d) ==
  /\ c # d /\ Writes(c)
  /\ \/ want[c].id \in Changed(d)
     \/ \E a \in Changed(d) :
          \/ SameKey(own[d][a], NewRow(c))
          \/ a \notin Changed(c) /\ rows[a] # NoRow /\ SameKey(rows[a], NewRow(c))

Runs(c) == \A d \in Clients : ~WaitsFor(c, d)

\* Ids the next row may get.  Those of rolled back rows come back (SQLite) or not
\* (PostgreSQL).
Unused == {a \in Ids : rows[a] = NoRow /\ \A d \in Clients : own[d][a] = NoRow}

Return(c) ==
  /\ pc' = [pc EXCEPT ![c] = "open"]
  /\ want' = [want EXCEPT ![c] = NoStatement]

\* Load-or-create gives the callback aggregate a.
Remember(c, a) ==
  answers' = [answers EXCEPT ![c] = @ \cup {[key |-> want[c].key, id |-> a]}]

\* INSERT INTO aggregates ... RETURNING id.  The mutant takes the key over from the
\* row that has it.
InsertReplacing(c) ==
  LET kept == [b \in Ids |->
        IF View(c)[b] # NoRow /\ SameKey(View(c)[b], NewRow(c))
          THEN [View(c)[b] EXCEPT !.key = NoKey] ELSE own[c][b]]
  IN /\ pc[c] \in {"create", "create_or_load"}
     /\ Runs(c)
     /\ \E a \in Unused :
          /\ own' = [own EXCEPT ![c] = [kept EXCEPT ![a] = NewRow(c)]]
          /\ \/ pc[c] = "create" /\ UNCHANGED answers
             \/ pc[c] = "create_or_load" /\ Remember(c, a)
     /\ Return(c)
     /\ UNCHANGED <<rows, history>>
Insert(c) ==
  /\ pc[c] \in {"create", "create_or_load"}
  /\ Runs(c) /\ ~Taken(c)
  /\ \E a \in Unused :
       /\ own' = [own EXCEPT ![c][a] = NewRow(c)]
       /\ \/ pc[c] = "create" /\ UNCHANGED answers
          \/ pc[c] = "create_or_load" /\ Remember(c, a)
  /\ Return(c)
  /\ UNCHANGED <<rows, history>>

\* LoadStateByKeyInto of LoadOrCreateAggregate takes the aggregate that has the key
\* by now, which need not be the one that GetOrCreate saw.  (It fails, Fail, if there
\* is none any more.)
LoadByKey(c) ==
  /\ pc[c] = "load"
  /\ \E b \in WithKey(c, want[c].type, want[c].key) : Remember(c, b)
  /\ Return(c)
  /\ UNCHANGED <<rows, own, history>>

\* UPDATE aggregates SET natural_key = k WHERE id = a: its row count is not read.
Update(c) ==
  LET a == want[c].id
  IN /\ pc[c] = "change"
     /\ Runs(c)
     /\ \/ Writes(c) /\ ~Taken(c) /\ own' = [own EXCEPT ![c][a] = NewRow(c)]
        \/ ~Writes(c) /\ UNCHANGED own
     /\ Return(c)
     /\ UNCHANGED <<rows, answers, history>>

-----------------------------------------------------------------------------
(* The end of a context                                                     *)

Leave(c) ==
  /\ own' = [own EXCEPT ![c] = NoRows]
  /\ pc' = [pc EXCEPT ![c] = "idle"]
  /\ want' = [want EXCEPT ![c] = NoStatement]
  /\ answers' = [answers EXCEPT ![c] = {}]

\* History: rows whose key c has changed to another one.
Renamed(c) ==
  {a \in Changed(c) : /\ own[c][a].key # NoKey
                      /\ \/ rows[a] # NoRow /\ rows[a].key # own[c][a].key
                         \/ \E t \in answers[c] : t.id = a /\ t.key # own[c][a].key}

Commit(c) ==
  /\ pc[c] = "open"
  /\ rows' = View(c)
  /\ moved' = moved \cup Renamed(c)
  /\ told' = {t \in told \cup answers[c] : t.id \notin moved'}
  /\ Leave(c)

\* The callback or a statement fails, at the UNIQUE constraint or as the victim of a
\* cycle of waits for instance, or the process dies: the transaction is rolled back.
Fail(c) == pc[c] # "idle" /\ Leave(c) /\ UNCHANGED <<rows, history>>

Next ==
  \E c \in Clients :
    \/ Begin(c) \/ Commit(c) \/ Fail(c)
    \/ Insert(c) \/ LoadByKey(c) \/ Update(c)
    \/ \E t \in Types :
         NewAggregate(c, t) \/ \E k \in Keys : NewAggregateWithKey(c, t, k) \/ GetOrCreate(c, t, k)
    \/ \E a \in Ids, k \in Keys : ChangeAggregateNaturalKey(c, a, k)

Spec == Init /\ [][Next]_vars

-----------------------------------------------------------------------------
(* Properties                                                               *)

TypeOK ==
  /\ rows \in [Ids -> Row \cup {NoRow}]
  /\ own \in [Clients -> [Ids -> Row \cup {NoRow}]]
  /\ pc \in [Clients -> {"idle", "open", "create", "create_or_load", "load", "change"}]
  /\ want \in [Clients -> Want \cup {NoStatement}]
  /\ answers \in [Clients -> SUBSET Answer]
  /\ told \in SUBSET Answer /\ moved \in SUBSET Ids

\* Whatever transactions do together, swaps and takeovers of freed keys included, no
\* two aggregates have one key, in the table and in what any transaction sees.
KeysUnique ==
  \A c \in Clients : \A a, b \in Ids :
    View(c)[a] # NoRow /\ View(c)[b] # NoRow /\ View(c)[a].key = View(c)[b].key
      => a = b \/ View(c)[a].key = NoKey

\* Load-or-create of a key gives every context that succeeds the same aggregate, the
\* one that was created for it, unless its key was changed (base/storage.go,
\* GetOrCreateAggregateByKey).
GetOrCreateAgrees ==
  \A t, u \in told : t.key = u.key => t.id = u.id
=============================================================================
