--------------------------- MODULE EventStoreLog ----------------------------
(***************************************************************************)
(* EventStore with the ids of table events, by which subscriptions read    *)
(* it: WriteState's AddEvent draws the next id of a PostgreSQL sequence,   *)
(* perhaps waits for another context's row, and the rows become visible    *)
(* when their context commits, perhaps in another order.  The module       *)
(* connects the two halves of the system: the contexts are writers as      *)
(* EventLog describes them, and the log keeps the order of each stream.    *)
(***************************************************************************)
EXTENDS EventStoreRefinement, FiniteSetsExt

CONSTANT MaxEventId  \* bound: no context begins when the ids could run out

ASSUME EventStoreLogAssumption == MaxEventId \in Nat /\ IsFiniteSet(Clients)

VARIABLES
  lastEventId,  \* the sequence of column events.id
  taken,        \* taken[c]: ids of the events c has inserted, in order, and the
                \* one its INSERT has drawn
  log           \* committed rows of view event_log: records [id, agg, seq, val]

idVars == <<lastEventId, taken, log>>
logVars == <<vars, idVars>>

LogInit ==
  /\ Init
  /\ lastEventId = 0
  /\ taken = [c \in Clients |-> <<>>]
  /\ log = {}

\* Enough ids are left for every context to insert a full batch.
MayBegin == lastEventId + Cardinality(Clients) * MaxBatch <= MaxEventId

\* An INSERT into table events begins: it draws its id, DEFAULT nextval, before it
\* looks for a row with its key, for which it may then wait or fail.
DrawId(c) ==
  /\ phase[c] = "saving" /\ written[c] < Len(captured[c])
  /\ Len(taken[c]) = written[c]
  /\ lastEventId' = lastEventId + 1
  /\ taken' = [taken EXCEPT ![c] = Append(@, lastEventId + 1)]
  /\ UNCHANGED <<vars, log>>

\* Snapshots get no id that anybody reads.
HasBegun(c) == written[c] < Len(captured[c]) => Len(taken[c]) > written[c]

LoggedRow(c, i) ==
  [id |-> taken[c][i], agg |-> captured[c][i].agg, seq |-> captured[c][i].seq,
   val |-> captured[c][i].val]

CommitShows(c) ==
  /\ Commit(c)
  /\ log' = log \cup {LoggedRow(c, i) : i \in DOMAIN taken[c]}
  /\ taken' = [taken EXCEPT ![c] = <<>>]
  /\ UNCHANGED lastEventId

\* The ids of a transaction that ends in any other way are not used again.  The
\* mutant takes the next id from the table, as SQLite does for its only writer.
GiveUpReusing(c) ==
  /\ taken' = [taken EXCEPT ![c] = <<>>]
  /\ lastEventId' = Max({r.id : r \in log} \cup {0})
  /\ UNCHANGED log
GiveUp(c) == taken' = [taken EXCEPT ![c] = <<>>] /\ UNCHANGED <<lastEventId, log>>

LogNext ==
  \E c \in Clients :
    \/ MayBegin /\ Begin(c) /\ UNCHANGED idVars
    \/ /\ \/ \E a \in Aggregates :
               \/ CreateAggregate(c, a) \/ LoadSnapshot(c, a)
               \/ \E v \in Vals : ApplyEvent(c, a, v)
          \/ LoadEvents(c) \/ ApplyFetched(c) \/ EndLoad(c) \/ Return(c)
       /\ UNCHANGED idVars
    \/ DrawId(c)
    \/ HasBegun(c) /\ InsertRow(c) /\ UNCHANGED idVars
    \/ CommitShows(c)
    \/ HasBegun(c) /\ InsertFails(c) /\ GiveUp(c)
    \/ (DeadlockVictim(c) \/ Abort(c)) /\ GiveUp(c)

LogSpec == LogInit /\ [][LogNext]_logVars

-----------------------------------------------------------------------------
(* The refinement: contexts are writers of EventLog.                        *)

AsEvent(a, v) == [agg |-> a, type |-> v, time |-> 0]
WrittenEvents == {AsEvent(a, v) : a \in Aggregates, v \in Vals}

\* The row with id i, committed or not.
RowWithId(i) ==
  IF \E r \in log : r.id = i
    THEN LET r == CHOOSE r \in log : r.id = i IN AsEvent(r.agg, r.val)
  ELSE IF \E c \in Clients : i \in Range(taken[c])
    THEN LET c == CHOOSE c \in Clients : i \in Range(taken[c])
             n == CHOOSE n \in DOMAIN taken[c] : taken[c][n] = i
         IN AsEvent(captured[c][n].agg, captured[c][n].val)
  ELSE NoObject

Log == INSTANCE EventLog WITH
  Writers <- Clients, SerialWriters <- FALSE, NoEvent <- NoObject, NoKey <- NoObject,
  Events <- WrittenEvents,
  TypeOf <- [a \in Aggregates |-> NoAggregate], Keys <- {},
  lastId <- lastEventId, inflight <- [c \in Clients |-> Range(taken[c])],
  visible <- {r.id : r \in log}, row <- [i \in 1 .. MaxEventId |-> RowWithId(i)],
  keyOf <- [a \in Aggregates |-> NoObject]

\* What subscriptions are checked against is what contexts do: rows get ids one by
\* one, perhaps long before they can be inserted, appear together when their context
\* commits and are never taken back (WithContext, WriteState and BIGSERIAL as
\* subscriptions.go relies on them).
ImplementsEventLog == Log!LogInit /\ [][Log!LogNext]_(Log!logVars)

\* Ids of different streams may become visible in any order, those of one stream
\* never: a new row of a stream has a higher id, and the next higher sequence, than
\* all rows of the stream that a subscription may have passed.  Who appends event
\* n + 1 has loaded event n, which had its id and was committed (types.go "global,
\* monotonically increasing id", context.go ApplyEventTo and the UNIQUE constraint).
StreamsGrowInIdOrder ==
  [][\A new \in log' \ log : \A old \in log :
       new.agg = old.agg => new.id > old.id /\ new.seq > old.seq]_logVars
=============================================================================
