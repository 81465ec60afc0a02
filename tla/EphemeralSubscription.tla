----------------------- MODULE EphemeralSubscription -----------------------
(***************************************************************************)
(* EventStore.RunEphemeralSubscription (base/subscriptions.go): a reader   *)
(* whose position is a local variable.  It shares the query of the durable *)
(* subscriptions, asked with a made-up row that is in no table, narrows    *)
(* its batches to several event types itself, and moves its position       *)
(* before the handler runs.  Writers insert and commit, and aggregates     *)
(* change their natural keys, between any two of its steps.                *)
(***************************************************************************)
EXTENDS SubscriptionTable, Sequences, SequencesExt

CONSTANT MaxRuns  \* bound: calls of RunEphemeralSubscription

ASSUME EphemeralSubscriptionAssumption == MaxRuns \in Nat

VARIABLES
  pc,         \* where the reader is: out of the function, at the switch, in the loop
  call,       \* the arguments of the call
  lastID,     \* the position
  deliver,    \* the batch the handler works on
  delivered,  \* history: ids whose handler call in this run returned nil, in order
  startedAt,  \* history: the position this run started from
  rekeyed,    \* history: a natural key has changed since this run started
  runs        \* history: runs so far

reader == <<pc, call, lastID, deliver, delivered, startedAt, rekeyed, runs>>
vars == <<logVars, sub, reader>>

Init ==
  /\ LogInit
  /\ TableInit
  /\ pc = "out"
  /\ call \in Calls
  /\ lastID = 0 /\ startedAt = 0
  /\ deliver = {} /\ delivered = <<>>
  /\ rekeyed = FALSE
  /\ runs = 0

\* The types are resolved; nothing of the last run is left but what its handler did.
Call ==
  /\ pc = "out" /\ runs < MaxRuns
  /\ pc' = "start"
  /\ call' \in Calls
  /\ lastID' = 0 /\ startedAt' = 0 /\ delivered' = <<>> /\ rekeyed' = FALSE
  /\ runs' = runs + 1
  /\ UNCHANGED <<logVars, sub, deliver>>

\* The switch over start.Kind.  The mutant does not ask whether an event was found.
StartAtFound(start) ==
  CASE start.kind = "beginning" -> 0
    [] start.kind = "end" -> MaxEvent
    [] start.kind = "event_id" -> start.id
    [] start.kind = "timestamp" -> IF start.time = 0 THEN 0 ELSE FirstIdFrom(start.time) - 1
StartAt(start) ==
  CASE start.kind = "beginning" -> 0
    [] start.kind = "end" -> MaxEvent
    [] start.kind = "event_id" -> start.id
    [] start.kind = "timestamp" ->
         IF start.time = 0 \/ FirstIdFrom(start.time) = 0 THEN 0
         ELSE FirstIdFrom(start.time) - 1

Start ==
  /\ pc = "start"
  /\ pc' = "poll"
  /\ lastID' = StartAt(call.start)
  /\ startedAt' = lastID'
  /\ UNCHANGED <<logVars, sub, call, deliver, delivered, rekeyed, runs>>

\* The made-up row has id 0, and no row of the join table does.
Due == EventsFor(lastID, Columns(call.filter), {})

\* The filter in memory, for more than one type.
Relevant(ids) ==
  {i \in ids : JoinTypes(call.filter.types) # {} => row[i].type \in call.filter.types}

\* lastID.  The mutant takes the first event of the batch for the last one.
FirstOf(ids) == Min(ids)
LastOf(ids) == Highest(ids)

\* A round of the loop; without events it waits for the ticker and changes nothing.
\* The position moves to the end of the batch, before the filter in memory.  One
\* mutant moves it to the end of the table, one only over what is relevant.
PollOverRelevant ==
  /\ pc = "poll" /\ Due # {}
  /\ lastID' = Highest(Relevant(Due) \cup {lastID})
  /\ deliver' = Relevant(Due)
  /\ pc' = IF deliver' = {} THEN "poll" ELSE "handle"
  /\ UNCHANGED <<logVars, sub, call, delivered, startedAt, rekeyed, runs>>
PollToEnd ==
  /\ pc = "poll" /\ Due # {}
  /\ lastID' = MaxEvent
  /\ deliver' = Relevant(Due)
  /\ pc' = IF deliver' = {} THEN "poll" ELSE "handle"
  /\ UNCHANGED <<logVars, sub, call, delivered, startedAt, rekeyed, runs>>
Poll ==
  /\ pc = "poll" /\ Due # {}
  /\ lastID' = LastOf(Due)
  /\ deliver' = Relevant(Due)
  /\ pc' = IF deliver' = {} THEN "poll" ELSE "handle"
  /\ UNCHANGED <<logVars, sub, call, delivered, startedAt, rekeyed, runs>>

\* The order of a batch (ORDER BY id), which the filter in memory keeps.
InIdOrder(ids) ==
  CHOOSE s \in [1 .. Cardinality(ids) -> ids] : \A i, j \in DOMAIN s : i < j => s[i] < s[j]

\* The handler returns nil.
Handle ==
  /\ pc = "handle"
  /\ delivered' = delivered \o InIdOrder(deliver)
  /\ deliver' = {}
  /\ pc' = "poll"
  /\ UNCHANGED <<logVars, sub, call, lastID, startedAt, rekeyed, runs>>

\* The handler or a statement returns an error, or the context is done.
Leave ==
  /\ pc # "out"
  /\ pc' = "out"
  /\ deliver' = {}
  /\ UNCHANGED <<logVars, sub, call, lastID, delivered, startedAt, rekeyed, runs>>

Writing ==
  /\ LogNext
  /\ rekeyed' = (rekeyed \/ keyOf' # keyOf)
  /\ UNCHANGED <<sub, pc, call, lastID, deliver, delivered, startedAt, runs>>

Next == Call \/ Start \/ Poll \/ Handle \/ Leave \/ Writing

Spec == Init /\ [][Next]_vars

\* Statements are answered and the handler returns; writers, the caller and
\* errors owe nothing.
FairSpec == Spec /\ WF_vars(Start \/ Poll \/ Handle)

-----------------------------------------------------------------------------
(* Properties                                                               *)

TypeOK ==
  /\ LogTypeOK
  /\ pc \in {"out", "start", "poll", "handle"}
  /\ call \in Calls
  /\ lastID \in 0 .. MaxEventId /\ startedAt \in 0 .. MaxEventId
  /\ deliver \subseteq visible
  /\ \A i \in DOMAIN delivered : delivered[i] \in visible
  /\ rekeyed \in BOOLEAN /\ runs \in 0 .. MaxRuns

\* In one run the handler accepts events in the order of their ids and none of
\* them twice (README.md "streams events", types.go "monotonically increasing").
InOrder == \A i, j \in DOMAIN delivered : i < j => delivered[i] < delivered[j]

\* The handler is given exactly the wanted events between the start and the
\* position, although the position moves before the handler runs and before the
\* filter in memory, and every start is turned into an exclusive id
\* (subscriptions.go "if multiple are provided, filtering is applied in-memory").
\* A natural key that changes may hide or reveal events.
ExactlyWhatWasAsked ==
  pc # "out" /\ ~rekeyed =>
    ToSet(delivered) \cup deliver =
      {i \in visible : startedAt < i /\ i <= lastID /\ Wanted(call.filter, i)}

\* A run that lasts delivers every wanted event after its start, also behind
\* batches of which the filter in memory leaves nothing.
EveryEventDelivered ==
  \A i \in EventIds :
    (pc = "poll" /\ i \in visible /\ startedAt < i /\ Wanted(call.filter, i))
      ~> (i \in ToSet(delivered) \/ pc = "out" \/ rekeyed)
=============================================================================
