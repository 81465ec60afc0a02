---------------------------- MODULE TypeRegistry ----------------------------
(***************************************************************************)
(* Names and ids of event types and aggregate types: the two tables, and   *)
(* the maps in which every EventStore value keeps the ids it has learned.  *)
(* The maps outlive transactions, also those that roll back.  Code:        *)
(* base/eventstore.go (getEventTypeId, getAggregateTypeId, Warmup, and the *)
(* calls made with and without a transaction) and GetEventTypeId,          *)
(* GetAggregateTypeId and the lists of types in the SQL engines.           *)
(*                                                                         *)
(* Each access to a map is a step.  The maps have no lock: the Go runtime  *)
(* stops a process whose goroutines write one at the same time, which is   *)
(* a Restart.                                                              *)
(***************************************************************************)
EXTENDS Integers, FiniteSets, FiniteSetsExt

CONSTANTS
  Stores,            \* EventStore values, one for each process
  Clients,           \* goroutines
  StoreOf,           \* StoreOf[c]: the EventStore that goroutine c uses
  Names,             \* names of types, of either kind
  Known,             \* the names passed to Warmup, of either kind
  SerialWriters,     \* TRUE: one writing transaction at a time, the next id is the
                     \* highest in the table plus 1 (SQLite); FALSE: concurrent
                     \* writers, ids from a sequence no rollback resets (PostgreSQL)
  EventForeignKeys,  \* events.event_type_id REFERENCES event_types is enforced
                     \* (PostgreSQL: yes; SQLite: only if the connection asks for it)
  NoType,            \* no lookup in progress, or no name yet
  MaxId,             \* bound: ids of each table
  MaxRows            \* bound: stored rows and those of one transaction

ASSUME TypeRegistryAssumption ==
  /\ StoreOf \in [Clients -> Stores]
  /\ Known \subseteq Names
  /\ SerialWriters \in BOOLEAN /\ EventForeignKeys \in BOOLEAN
  /\ MaxId \in Nat /\ MaxRows \in Nat

VARIABLES
  cache,   \* cache[s][k][n]: id in eventTypeLookup / aggregateTypeLookup, or 0
  types,   \* types[k]: committed rows of event_types / aggregate_types
  lastId,  \* lastId[k]: the last value the table's sequence gave
  rows,    \* committed events and aggregates: the type id each carries, and
           \* (history) the name its writer meant
  added,   \* added[c][k]: type rows inserted by c's open transaction
  uses,    \* uses[c]: events and aggregates of c's open transaction
  job,     \* "none", "context", "readonly" (no transaction) or "warmup"
  pc,      \* where c is in its job
  want,    \* the type c looks up
  listed,  \* types that Warmup has read for the kind it works on
  todo,    \* known names that Warmup still has to add
  dirty    \* databaseUpdated

db == <<types, lastId, rows>>
warm == <<listed, todo, dirty>>
vars == <<cache, db, added, uses, job, pc, want, warm>>

-----------------------------------------------------------------------------
Kinds == {"event", "aggregate"}
Ids == 1 .. MaxId
TypeRow == [id : Ids, name : Names]
UseRow == [kind : Kinds, name : Names, id : Ids]
Want == [kind : Kinds, name : Names \cup {NoType}]

NoTypes == [k \in Kinds |-> {}]
NoCache == [k \in Kinds |-> [n \in Names |-> 0]]
NamesIn(T) == {t.name : t \in T}

Init ==
  /\ cache = [s \in Stores |-> NoCache]
  /\ types = NoTypes
  /\ lastId = [k \in Kinds |-> 0]
  /\ rows = {}
  /\ added = [c \in Clients |-> NoTypes]
  /\ uses = [c \in Clients |-> {}]
  /\ job = [c \in Clients |-> "none"]
  /\ pc = [c \in Clients |-> "idle"]
  /\ want = [c \in Clients |-> NoType]
  /\ listed = [c \in Clients |-> {}]
  /\ todo = [c \in Clients |-> {}]
  /\ dirty = [c \in Clients |-> FALSE]

Goto(c, label) == pc' = [pc EXCEPT ![c] = label]

\* What c's statements see: committed rows and its own.
Visible(c, k) == types[k] \cup added[c][k]

\* Where writers are serial, a transaction that has inserted keeps others from it.
MayWrite(c) ==
  SerialWriters => \A d \in Clients \ {c} : \A k \in Kinds : added[d][k] = {}

\* The map c's EventStore keeps for kind k.  The mutant uses one map for both.
OneMap(c, k) == cache[StoreOf[c]]["event"]
Cached(c, k) == cache[StoreOf[c]][k]

\* GetEventTypes, GetAggregateTypes: SELECT id, name, in Warmup's transaction.  The
\* PostgreSQL engine returns an empty list, and no error, if the statement fails.
TypesListed(c, k) == {Visible(c, k)} \cup (IF SerialWriters THEN {} ELSE {{}})

\* MapNameToId
ToId(T) == [n \in Names |-> Max({0} \cup {t.id : t \in {u \in T : u.name = n}})]

-----------------------------------------------------------------------------
(* Lookups                                                                  *)

Begin(c) ==
  /\ pc[c] = "idle"
  /\ job' = [job EXCEPT ![c] = "context"]
  /\ Goto(c, "open")
  /\ UNCHANGED <<cache, db, added, uses, want, warm>>

\* A row that carries type id, of name n, goes into c's transaction.
PutRow(c, k, n, id) ==
  /\ Cardinality(rows \cup uses[c]) < MaxRows
  /\ uses' = [uses EXCEPT ![c] = @ \cup {[kind |-> k, name |-> n, id |-> id]}]

\* A context creates an aggregate or, in SaveState, resolves the type of a
\* captured event, and finds the name in the map.  The row goes into the
\* transaction; nobody sees it before Commit, where its constraint is checked.  The
\* mutant does not ask whether the map has the name.
LookupUnasked(c, k, n) ==
  /\ pc[c] = "open"
  /\ PutRow(c, k, n, Cached(c, k)[n])
  /\ UNCHANGED <<cache, db, added, job, pc, want, warm>>
LookupCached(c, k, n) ==
  /\ pc[c] = "open"
  /\ Cached(c, k)[n] # 0
  /\ PutRow(c, k, n, Cached(c, k)[n])
  /\ UNCHANGED <<cache, db, added, job, pc, want, warm>>

\* The name is not in the map.  Readonly contexts and subscriptions look names up
\* as well, without a transaction.
LookupMiss(c, k, n) ==
  /\ \/ pc[c] = "open" /\ UNCHANGED job
     \/ pc[c] = "idle" /\ job' = [job EXCEPT ![c] = "readonly"]
  /\ Cached(c, k)[n] = 0
  /\ want' = [want EXCEPT ![c] = [kind |-> k, name |-> n]]
  /\ Goto(c, "select")
  /\ UNCHANGED <<cache, db, added, uses, warm>>

\* The engine returned id: the map keeps it, and the caller goes on.
Resolve(c, id) ==
  LET w == want[c]
  IN /\ cache' = [cache EXCEPT ![StoreOf[c]][w.kind][w.name] = id]
     /\ CASE job[c] = "context" ->
               /\ PutRow(c, w.kind, w.name, id)
               /\ want' = [want EXCEPT ![c] = NoType]
               /\ Goto(c, "open") /\ UNCHANGED <<job, warm>>
          [] job[c] = "readonly" ->
               /\ want' = [want EXCEPT ![c] = NoType]
               /\ job' = [job EXCEPT ![c] = "none"]
               /\ Goto(c, "idle") /\ UNCHANGED <<uses, warm>>
          [] job[c] = "warmup" ->
               /\ todo' = [todo EXCEPT ![c] = @ \ {w.name}]
               /\ dirty' = [dirty EXCEPT ![c] = TRUE]
               /\ want' = [want EXCEPT ![c].name = NoType]
               /\ Goto(c, "adding") /\ UNCHANGED <<uses, job, listed>>

\* SELECT id ... WHERE name = n
Select(c) ==
  /\ pc[c] = "select"
  /\ \/ /\ \E t \in Visible(c, want[c].kind) : t.name = want[c].name /\ Resolve(c, t.id)
     \/ /\ want[c].name \notin NamesIn(Visible(c, want[c].kind))
        /\ Goto(c, "insert")
        /\ UNCHANGED <<cache, uses, job, want, warm>>
  /\ UNCHANGED <<db, added>>

\* The id the next INSERT gets.  The mutant has no sequence to take it from.
HighestPlusOne(c, k) == Max({0} \cup {t.id : t \in Visible(c, k)}) + 1
NextId(c, k) == IF SerialWriters THEN HighestPlusOne(c, k) ELSE lastId[k] + 1

\* INSERT ... RETURNING id.  It waits for an uncommitted row with the same name
\* and fails (Fail) once that row is committed.
Insert(c) ==
  LET k == want[c].kind
      t == [id |-> NextId(c, k), name |-> want[c].name]
  IN /\ pc[c] = "insert"
     /\ MayWrite(c)
     /\ t.id \in Ids
     /\ t.name \notin NamesIn(types[k])
     /\ \A d \in Clients : t.name \notin NamesIn(added[d][k])
     /\ lastId' = [lastId EXCEPT ![k] = IF SerialWriters THEN @ ELSE t.id]
     /\ IF job[c] = "readonly"
          THEN types' = [types EXCEPT ![k] = @ \cup {t}] /\ UNCHANGED added
          ELSE added' = [added EXCEPT ![c][k] = @ \cup {t}] /\ UNCHANGED types
     /\ Resolve(c, t.id)
     /\ UNCHANGED <<rows>>

-----------------------------------------------------------------------------
(* The end of a transaction                                                 *)

\* The foreign key of table events.  Table aggregates has none.  The mutant does
\* not check it either.
NoReference(c) == TRUE
ReferencesHold(c) ==
  EventForeignKeys =>
    \A u \in uses[c] : u.kind = "event" => \E t \in Visible(c, "event") : t.id = u.id

Leave(c) ==
  /\ added' = [added EXCEPT ![c] = NoTypes]
  /\ uses' = [uses EXCEPT ![c] = {}]
  /\ job' = [job EXCEPT ![c] = "none"]
  /\ Goto(c, "idle")
  /\ want' = [want EXCEPT ![c] = NoType]
  /\ listed' = [listed EXCEPT ![c] = {}]
  /\ todo' = [todo EXCEPT ![c] = {}]
  /\ dirty' = [dirty EXCEPT ![c] = FALSE]

Commit(c) ==
  /\ pc[c] = "open"
  /\ ReferencesHold(c)
  /\ MayWrite(c)
  /\ types' = [k \in Kinds |-> Visible(c, k)]
  /\ rows' = rows \cup uses[c]
  /\ Leave(c)
  /\ UNCHANGED <<cache, lastId>>

\* A statement or the callback fails.  A context rolls back; the maps keep what
\* they learned.  Warmup returns the error and leaves its transaction open.
Fail(c) ==
  /\ pc[c] \notin {"idle", "leaked"}
  /\ IF job[c] = "warmup"
       THEN /\ Goto(c, "leaked")
            /\ want' = [want EXCEPT ![c] = NoType]
            /\ listed' = [listed EXCEPT ![c] = {}] /\ todo' = [todo EXCEPT ![c] = {}]
            /\ UNCHANGED <<added, uses, job, dirty>>
       ELSE Leave(c)
  /\ UNCHANGED <<cache, db>>

\* The process dies: the database rolls its transactions back.
Restart(s) ==
  LET Mine(f, x) == [c \in Clients |-> IF StoreOf[c] = s THEN x ELSE f[c]]
  IN /\ cache' = [cache EXCEPT ![s] = NoCache]
     /\ added' = Mine(added, NoTypes) /\ uses' = Mine(uses, {})
     /\ job' = Mine(job, "none") /\ pc' = Mine(pc, "idle") /\ want' = Mine(want, NoType)
     /\ listed' = Mine(listed, {}) /\ todo' = Mine(todo, {}) /\ dirty' = Mine(dirty, FALSE)
     /\ UNCHANGED db

-----------------------------------------------------------------------------
(* Warmup                                                                   *)

Empty(m) == \A n \in Names : m[n] = 0

\* It returns at once if both maps have entries.
StartWarmup(c) ==
  /\ pc[c] = "idle"
  /\ \E k \in Kinds : Empty(Cached(c, k))
  /\ job' = [job EXCEPT ![c] = "warmup"]
  /\ want' = [want EXCEPT ![c] = [kind |-> "event", name |-> NoType]]
  /\ Goto(c, "list")
  /\ UNCHANGED <<cache, db, added, uses, warm>>

\* GetEventTypes or GetAggregateTypes, unless the map has entries by now.  The map
\* of aggregate types is replaced by the list at once.
List(c) ==
  LET k == want[c].kind
  IN /\ pc[c] = "list"
     /\ Empty(Cached(c, k))
     /\ \E T \in TypesListed(c, k) :
          /\ listed' = [listed EXCEPT ![c] = T]
          /\ todo' = [todo EXCEPT ![c] = Known \ NamesIn(T)]
          /\ cache' = IF k = "aggregate" THEN [cache EXCEPT ![StoreOf[c]][k] = ToId(T)] ELSE cache
     /\ Goto(c, "adding")
     /\ UNCHANGED <<db, added, uses, job, want, dirty>>

\* GetEventTypeId or GetAggregateTypeId of a known name that was not in the list.
AddKnown(c) ==
  /\ pc[c] = "adding"
  /\ \E n \in todo[c] : want' = [want EXCEPT ![c].name = n]
  /\ Goto(c, "select")
  /\ UNCHANGED <<cache, db, added, uses, job, warm>>

\* What the map of event types becomes when all known ones are added: the list
\* that was read before.
AfterEvents(c) == ToId(listed[c])

\* On to the aggregate types.
ListedEvents(c) ==
  /\ pc[c] \in {"list", "adding"} /\ want[c].kind = "event"
  /\ \/ /\ pc[c] = "adding" /\ todo[c] = {}
        /\ cache' = [cache EXCEPT ![StoreOf[c]]["event"] = AfterEvents(c)]
     \/ /\ pc[c] = "list" /\ ~Empty(Cached(c, "event"))
        /\ UNCHANGED cache
  /\ want' = [want EXCEPT ![c].kind = "aggregate"]
  /\ listed' = [listed EXCEPT ![c] = {}]
  /\ Goto(c, "list")
  /\ UNCHANGED <<db, added, uses, job, todo, dirty>>

\* The transaction is committed if databaseUpdated, and left open otherwise: one
\* that has inserted nothing, which no other transaction waits for.
EndWarmup(c) ==
  /\ pc[c] \in {"list", "adding"} /\ want[c].kind = "aggregate"
  /\ \/ pc[c] = "adding" /\ todo[c] = {}
     \/ pc[c] = "list" /\ ~Empty(Cached(c, "aggregate"))
  /\ types' = IF dirty[c] THEN [k \in Kinds |-> Visible(c, k)] ELSE types
  /\ Leave(c)
  /\ UNCHANGED <<cache, lastId, rows>>

Next ==
  \/ \E c \in Clients :
       \/ Begin(c)
       \/ \E k \in Kinds, n \in Names : LookupCached(c, k, n) \/ LookupMiss(c, k, n)
       \/ Select(c) \/ Insert(c) \/ Commit(c) \/ Fail(c)
       \/ StartWarmup(c) \/ List(c) \/ AddKnown(c) \/ ListedEvents(c) \/ EndWarmup(c)
  \/ \E s \in Stores : Restart(s)

Spec == Init /\ [][Next]_vars

-----------------------------------------------------------------------------
(* Properties                                                               *)

TypeOK ==
  /\ cache \in [Stores -> [Kinds -> [Names -> 0 .. MaxId]]]
  /\ types \in [Kinds -> SUBSET TypeRow]
  /\ lastId \in [Kinds -> 0 .. MaxId]
  /\ rows \in SUBSET UseRow
  /\ added \in [Clients -> [Kinds -> SUBSET TypeRow]]
  /\ uses \in [Clients -> SUBSET UseRow]
  /\ job \in [Clients -> {"none", "context", "readonly", "warmup"}]
  /\ pc \in [Clients -> {"idle", "open", "select", "insert", "list", "adding", "leaked"}]
  /\ want \in [Clients -> Want \cup {NoType}]
  /\ listed \in [Clients -> SUBSET TypeRow]
  /\ todo \in [Clients -> SUBSET Known]
  /\ dirty \in [Clients -> BOOLEAN]

KeepsItsType(r) == \E t \in types[r.kind] : t.id = r.id /\ t.name = r.name

\* A stored event is read back as the type it was written as: GetEventsForAggregate
\* and view event_log JOIN event_types, so an id that is not in the table hides the
\* event, and one of another name changes its meaning.
EventsKeepTheirType == \A r \in rows : r.kind = "event" => KeepsItsType(r)

\* No stored row is ever taken for another type than the one it was written as,
\* whatever was rolled back, cached or restarted in between.
NeverMistaken ==
  \A r \in rows : \A t \in types[r.kind] : t.id = r.id => t.name = r.name

\* An id in a map, even one that a rollback took from the table, is never the id of
\* another name, neither in the table nor in a transaction that may still commit.
CachesNeverMislead ==
  \A s \in Stores : \A k \in Kinds : \A n \in Names : \A c \in Clients :
    \A t \in Visible(c, k) : t.id = cache[s][k][n] => t.name = n
=============================================================================
