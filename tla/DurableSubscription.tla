------------------------ MODULE DurableSubscription ------------------------
(***************************************************************************)
(* Workers that run EventStore.RunSubscription for one subscription name   *)
(* against one database.  Code: base/subscriptions.go, over the statements *)
(* of SubscriptionTable.  The steps of several workers, of writers and of  *)
(* an operator interleave freely.                                          *)
(***************************************************************************)
EXTENDS SubscriptionTable

CONSTANTS
  Workers,   \* goroutines, of any process, that call RunSubscription
  NoCall,    \* the worker is not in RunSubscription
  NoCopy,    \* the worker holds no copy of the row
  MaxFaults  \* bound: errors, cancellations, crashes and pauses

ASSUME DurableSubscriptionAssumption ==
  /\ MaxFaults \in Nat
  /\ NoCall \notin Calls
  /\ NoCopy \notin SubscriptionRow

VARIABLES
  pc,          \* where each worker is in RunSubscription
  call,        \* call[w]: the arguments of w's call
  todo,        \* todo[w]: event types w has not added to the join table yet
  view,        \* view[w]: the copy of the row w works with
  batch,       \* batch[w]: ids of the events w fetched and has not recorded yet
  goal,        \* goal[w]: cursor w is about to store when it initialises it
  cancelled,   \* cancelled[w]: the context of w's call is cancelled
  handled,     \* history: ids some handler call returned nil for
  first,       \* history: cursor when a worker first entered the loop, or -1
  overrun,     \* history: a lease expired while its holder was running
  unrecorded,  \* history: a worker failed between the handler and the cursor
  asked,       \* history: filters that calls have written to the row so far
  faults       \* history: faults so far

local == <<pc, call, todo, view, batch, goal, cancelled>>
history == <<handled, first, overrun, unrecorded, asked>>
vars == <<logVars, sub, local, history, faults>>

Running ==
  {"load", "init", "set", "poll", "fetch", "wait", "handle", "advance", "renew", "release"}

\* The worker is past its claim and has not run the deferred release yet.
Runs(w) == pc[w] \in Running

-----------------------------------------------------------------------------
Init ==
  /\ LogInit
  /\ TableInit
  /\ pc = [w \in Workers |-> "idle"]
  /\ call = [w \in Workers |-> NoCall]
  /\ todo = [w \in Workers |-> {}]
  /\ view = [w \in Workers |-> NoCopy]
  /\ batch = [w \in Workers |-> {}]
  /\ goal = [w \in Workers |-> 0]
  /\ cancelled = [w \in Workers |-> FALSE]
  /\ handled = {}
  /\ first = -1
  /\ overrun = FALSE
  /\ unrecorded = FALSE
  /\ asked = {}
  /\ faults = 0

Goto(w, label) == pc' = [pc EXCEPT ![w] = label]

\* RunSubscription returns; what is left to run is the deferred release, if any.
ReturnTo(w, label) ==
  /\ Goto(w, label)
  /\ todo' = [todo EXCEPT ![w] = {}]
  /\ view' = [view EXCEPT ![w] = NoCopy]
  /\ batch' = [batch EXCEPT ![w] = {}]
  /\ goal' = [goal EXCEPT ![w] = 0]
  /\ IF label = "idle"
       THEN /\ call' = [call EXCEPT ![w] = NoCall]
            /\ cancelled' = [cancelled EXCEPT ![w] = FALSE]
       ELSE UNCHANGED <<call, cancelled>>

Return(w) == ReturnTo(w, IF Runs(w) THEN "release" ELSE "idle")

\* A call starts: the types are resolved and the row is upserted.
Upsert(w) ==
  /\ pc[w] = "idle"
  /\ \E c \in Calls :
       /\ UpsertSubscription(c)
       /\ asked' = asked \cup {c.filter}
       /\ call' = [call EXCEPT ![w] = c]
       /\ todo' = [todo EXCEPT ![w] = JoinTypes(c.filter.types)]
       /\ Goto(w, IF JoinTypes(c.filter.types) = {} THEN "claim" ELSE "types")
  /\ UNCHANGED <<logVars, view, batch, goal, cancelled,
                 handled, first, overrun, unrecorded, faults>>

\* The loop over eventTypeIds.
AddType(w) ==
  /\ pc[w] = "types"
  /\ \E t \in todo[w] :
       /\ AddSubscriptionEventType(t)
       /\ todo' = [todo EXCEPT ![w] = @ \ {t}]
       /\ Goto(w, IF todo[w] = {t} THEN "claim" ELSE "types")
  /\ UNCHANGED <<logVars, call, view, batch, goal, cancelled, history, faults>>

Claim(w) ==
  /\ pc[w] = "claim"
  /\ ClaimSubscription(call[w].owner)
  /\ Goto(w, "load")
  /\ UNCHANGED <<logVars, call, todo, view, batch, goal, cancelled, history, faults>>

\* ErrSubscriptionAlreadyOwned, before the release is deferred.
ClaimRefused(w) ==
  /\ pc[w] = "claim"
  /\ ~Free(call[w].owner)
  /\ ReturnTo(w, "idle")
  /\ UNCHANGED <<logVars, sub, history, faults>>

EnterLoop(w, cursor) ==
  /\ Goto(w, "poll")
  /\ first' = IF first = -1 THEN cursor ELSE first
  /\ UNCHANGED <<handled, overrun, unrecorded, asked>>

\* GetSubscriptionByName: the worker's copy of the row.
CopyRow(w) == view' = [view EXCEPT ![w] = sub]

\* The row's start asks for nothing: a cursor other than 0 counts as initialised.
StartTaken(r) ==
  \/ r.cursor # 0
  \/ r.start.kind = "beginning"
  \/ r.start.kind = "event_id" /\ r.start.id = 0
  \/ r.start.kind = "timestamp" /\ r.start.time = 0

\* The row is loaded back; the start in it may be another caller's by now.  A start of
\* a kind that is none of StartKinds ends the call here, at cursor 0 and with nothing
\* moved, as Fail does; no caller passes one.
LoadBack(w) ==
  /\ pc[w] = "load"
  /\ CopyRow(w)
  /\ \/ /\ StartTaken(sub)
        /\ EnterLoop(w, sub.cursor)
        /\ UNCHANGED goal
     \/ /\ ~StartTaken(sub) /\ sub.start.kind = "event_id"
        /\ goal' = [goal EXCEPT ![w] = sub.start.id]
        /\ Goto(w, "set") /\ UNCHANGED history
     \/ /\ ~StartTaken(sub) /\ sub.start.kind \in {"end", "timestamp"}
        /\ Goto(w, "init") /\ UNCHANGED <<goal, history>>
  /\ UNCHANGED <<logVars, sub, call, todo, batch, cancelled, faults>>

\* The id whose position the start asks for, 0 if there is none, and the cursor
\* that stands for it: with StartTimestamp that event is still to be read.
Anchor(start) == IF start.kind = "end" THEN MaxEvent ELSE FirstIdFrom(start.time)
CursorAtAnchor(start) == IF start.kind = "end" THEN Anchor(start) ELSE Anchor(start) - 1

\* GetMaxEventId or GetFirstEventIdFromTimestamp; without an answer nothing is stored.
ReadStart(w) ==
  LET start == view[w].start
  IN /\ pc[w] = "init"
     /\ IF Anchor(start) > 0
          THEN /\ goal' = [goal EXCEPT ![w] = CursorAtAnchor(start)]
               /\ Goto(w, "set") /\ UNCHANGED history
          ELSE EnterLoop(w, 0) /\ UNCHANGED goal
     /\ UNCHANGED <<logVars, sub, call, todo, view, batch, cancelled, faults>>

\* AdvanceSubscriptionCursor to the initial cursor.
SetCursor(w) ==
  /\ pc[w] = "set"
  /\ AdvanceSubscriptionCursor(goal[w])
  /\ EnterLoop(w, goal[w])
  /\ goal' = [goal EXCEPT ![w] = 0]
  /\ UNCHANGED <<logVars, call, todo, view, batch, cancelled, faults>>

\* The top of the loop.  The mutant does not look at active.
ReloadAnyway(w) ==
  /\ pc[w] = "poll" /\ ~cancelled[w]
  /\ Goto(w, "fetch") /\ CopyRow(w)
  /\ UNCHANGED <<logVars, sub, call, todo, batch, goal, cancelled, history, faults>>

\* The top of the loop: a paused subscription ends the run.
Reload(w) ==
  /\ pc[w] = "poll" /\ ~cancelled[w]
  /\ IF sub.active
       THEN Goto(w, "fetch") /\ CopyRow(w)
            /\ UNCHANGED <<call, todo, batch, goal, cancelled>>
       ELSE Return(w)
  /\ UNCHANGED <<logVars, sub, history, faults>>

\* The batch: columns and cursor as in the worker's copy, the join table as it is.
Due(w) == EventsFor(view[w].cursor, view[w].columns, sub.types)

\* The mutant records the batch as done when it is fetched.
FetchAndRecord(w) ==
  /\ pc[w] = "fetch"
  /\ batch' = [batch EXCEPT ![w] = Due(w)]
  /\ AdvanceSubscriptionCursor(Highest(Due(w) \cup {view[w].cursor}))
  /\ Goto(w, IF Due(w) = {} THEN "wait" ELSE "handle")
  /\ UNCHANGED <<logVars, call, todo, view, goal, cancelled, history, faults>>
Fetch(w) ==
  /\ pc[w] = "fetch"
  /\ batch' = [batch EXCEPT ![w] = Due(w)]
  /\ Goto(w, IF Due(w) = {} THEN "wait" ELSE "handle")
  /\ UNCHANGED <<logVars, sub, call, todo, view, goal, cancelled, history, faults>>

\* Nothing to deliver: the lease is renewed and the ticker awaited.  Nobody reads
\* whether the renewal found a lease of this owner.
Wait(w) ==
  /\ pc[w] = "wait"
  /\ RenewSubscription(call[w].owner)
  /\ Goto(w, "poll")
  /\ UNCHANGED <<logVars, call, todo, view, batch, goal, cancelled, history, faults>>

\* The handler returns nil.
Handle(w) ==
  /\ pc[w] = "handle"
  /\ handled' = handled \cup batch[w]
  /\ Goto(w, "advance")
  /\ UNCHANGED <<logVars, sub, call, todo, view, batch, goal, cancelled,
                 first, overrun, unrecorded, asked, faults>>

\* lastID, of the events the handler accepted.  The mutant records the id after it.
LastIdPlusOne(ids) == Highest(ids) + 1
LastId(ids) == Highest(ids)

\* The cursor is stored with a context that a cancellation does not reach.  The
\* mutant uses the caller's context.
AdvanceUnlessCancelled(w) ==
  /\ pc[w] = "advance"
  /\ IF LastId(batch[w]) > view[w].cursor /\ ~cancelled[w]
       THEN AdvanceSubscriptionCursor(LastId(batch[w])) ELSE UNCHANGED sub
  /\ batch' = [batch EXCEPT ![w] = {}]
  /\ Goto(w, "renew")
  /\ UNCHANGED <<logVars, call, todo, view, goal, cancelled, history, faults>>
Advance(w) ==
  /\ pc[w] = "advance"
  /\ IF LastId(batch[w]) > view[w].cursor
       THEN AdvanceSubscriptionCursor(LastId(batch[w])) ELSE UNCHANGED sub
  /\ batch' = [batch EXCEPT ![w] = {}]
  /\ Goto(w, "renew")
  /\ UNCHANGED <<logVars, call, todo, view, goal, cancelled, history, faults>>

\* RenewSubscription after a batch, whose answer is ignored too.
Renew(w) ==
  /\ pc[w] = "renew"
  /\ RenewSubscription(call[w].owner)
  /\ Goto(w, "poll")
  /\ UNCHANGED <<logVars, call, todo, view, batch, goal, cancelled, history, faults>>

\* The context is cancelled: the top of the loop returns, and so may every
\* statement that gets the caller's context, and the handler.
Stop(w) ==
  /\ cancelled[w]
  /\ pc[w] \notin {"idle", "advance", "renew", "release"}
  /\ Return(w)
  /\ UNCHANGED <<logVars, sub, history, faults>>

\* The deferred ReleaseSubscription.
Release(w) ==
  /\ pc[w] = "release"
  /\ ReleaseSubscription(call[w].owner)
  /\ ReturnTo(w, "idle")
  /\ UNCHANGED <<logVars, history, faults>>

-----------------------------------------------------------------------------
(* Faults.                                                                  *)

Fault == faults < MaxFaults /\ faults' = faults + 1

\* The worker leaves with a batch that its handler accepted and no cursor covers.
NoteUnrecorded(w) ==
  /\ unrecorded' = (unrecorded \/ pc[w] = "advance")
  /\ UNCHANGED <<handled, first, overrun, asked>>

\* The caller cancels the context of the call.
Cancel(w) ==
  /\ Fault
  /\ pc[w] # "idle" /\ ~cancelled[w]
  /\ cancelled' = [cancelled EXCEPT ![w] = TRUE]
  /\ UNCHANGED <<logVars, sub, pc, call, todo, view, batch, goal, history>>

\* A statement or the handler returns an error: RunSubscription returns through
\* the deferred release.  A worker that has not claimed has nothing to release.
Fail(w) ==
  /\ Fault
  /\ pc[w] \notin {"idle", "release"}
  /\ Return(w)
  /\ NoteUnrecorded(w)
  /\ UNCHANGED <<logVars, sub>>

\* The process dies, or the release itself fails: the lease stays in the table.
Crash(w) ==
  /\ Fault
  /\ pc[w] # "idle"
  /\ ReturnTo(w, "idle")
  /\ NoteUnrecorded(w)
  /\ UNCHANGED <<logVars, sub>>

\* An operator toggles column active.
Pause ==
  /\ Fault
  /\ sub.active /\ SetSubscriptionActive(FALSE)
  /\ UNCHANGED <<logVars, local, history>>

Resume ==
  /\ ~sub.active /\ SetSubscriptionActive(TRUE)
  /\ UNCHANGED <<logVars, local, history, faults>>

\* A lease runs out, perhaps that of a worker which is still busy.
Expire ==
  /\ LeaseExpires
  /\ overrun' = (overrun \/ \E w \in Workers : Runs(w) /\ call[w].owner = sub.owner)
  /\ UNCHANGED <<logVars, local, handled, first, unrecorded, asked, faults>>

Step(w) ==
  \/ Upsert(w) \/ AddType(w) \/ Claim(w) \/ ClaimRefused(w)
  \/ LoadBack(w) \/ ReadStart(w) \/ SetCursor(w)
  \/ Reload(w) \/ Fetch(w) \/ Wait(w) \/ Handle(w) \/ Advance(w) \/ Renew(w)
  \/ Stop(w) \/ Release(w)

Next ==
  \/ LogNext /\ UNCHANGED <<sub, local, history, faults>>
  \/ \E w \in Workers : Step(w) \/ Cancel(w) \/ Fail(w) \/ Crash(w)
  \/ Pause \/ Resume \/ Expire

Spec == Init /\ [][Next]_vars

-----------------------------------------------------------------------------
(* Fairness: a statement is answered, a handler returns, RunSubscription is  *)
(* called again after it returned (the retry loop README.md asks for), and   *)
(* a lease nobody renews runs out.  Nothing is assumed of writers, faults,   *)
(* or the operator.                                                          *)

Fairness == WF_vars(Expire) /\ \A w \in Workers : WF_vars(Step(w))

FairSpec == Spec /\ Fairness

-----------------------------------------------------------------------------
(* Properties                                                               *)

TypeOK ==
  /\ LogTypeOK
  /\ sub \in SubscriptionRow
  /\ pc \in [Workers -> {"idle", "types", "claim"} \cup Running]
  /\ call \in [Workers -> Calls \cup {NoCall}]
  /\ todo \in [Workers -> SUBSET TypesOfEvents]
  /\ view \in [Workers -> SubscriptionRow \cup {NoCopy}]
  /\ batch \in [Workers -> SUBSET EventIds]
  /\ goal \in [Workers -> 0 .. MaxEventId]
  /\ cancelled \in [Workers -> BOOLEAN]
  /\ handled \in SUBSET EventIds
  /\ first \in -1 .. MaxEventId
  /\ overrun \in BOOLEAN /\ unrecorded \in BOOLEAN
  /\ asked \in SUBSET {c.filter : c \in Calls}
  /\ faults \in 0 .. MaxFaults

\* The subscription's start comes before event i: the first position a worker
\* took, or, with StartTimestamp, the first event from that time on.
StartedBefore(i) ==
  IF sub.start.kind = "timestamp"
    THEN \E j \in visible : j <= i /\ row[j].time >= sub.start.time
    ELSE first < i

\* Ids a subscriber is owed: committed, not before the start, and wanted by every
\* filter the name was called with.  Of an event that only some of them want nothing
\* is promised: whose filter counts depends on who wrote the row last.
Owed(i) ==
  i \in visible /\ first # -1 /\ StartedBefore(i) /\ \A f \in asked : Wanted(f, i)

\* At-least-once delivery: the stored cursor never passes an event that no
\* handler call has accepted, whatever crashes, expired leases and stale cursor
\* writes there were (README.md "Delivery is at-least-once").
NothingSkipped == \A i \in EventIds : Owed(i) /\ i <= sub.cursor => i \in handled

\* Global order: a handler is given an event only when every earlier one has
\* been accepted or comes in the same batch.
DeliveredInOrder ==
  \A w \in Workers : pc[w] = "handle" =>
    \A i \in EventIds : Owed(i) /\ i < Highest(batch[w]) => i \in handled \cup batch[w]

\* The event types that a fetch may go by: those some caller asked for, or all of them
\* while several were asked for and the join table has none yet.
TypesAsked ==
  {f.types : f \in asked}
    \cup {types \in {{}} : sub.types = {} /\ \E f \in asked : JoinTypes(f.types) # {}}

\* What a worker fetches was asked for: the aggregates by one caller, the event types by
\* one, maybe another (README.md "SubscriptionFilter: narrow by aggregate type, event
\* types").  More is not true where callers of a name pass different filters: the row
\* that a worker reloads is that of the last caller, a refused one too, so a handler is
\* given what its own call did not ask for; event types go to the join table one by one,
\* under a worker that runs; and they never leave it.
OnlyWhatWasAsked ==
  [][\A w \in Workers : \A i \in batch'[w] \ batch[w] :
       \E f \in asked, types \in TypesAsked : Wanted([f EXCEPT !.types = types], i)]_vars

\* One worker at a time between claiming and releasing, unless a lease ran out
\* under one of them (README.md "a lease so only one worker processes a
\* subscription at a time").
OneWorkerAtATime ==
  overrun \/ \A v, w \in Workers : Runs(v) /\ Runs(w) => v = w

\* A second delivery is the price of a lease that ran out or of a failure between
\* the handler and the cursor; a cancellation never causes one (subscriptions.go
\* "Ensure we advance the cursor even if the caller canceled ctx during handler").
NoRedelivery ==
  \A w \in Workers : pc[w] = "handle" /\ batch[w] \cap handled # {} => overrun \/ unrecorded

\* The stored cursor never moves back, unless a lease ran out under a worker.
CursorNeverRegresses == [][overrun \/ sub'.cursor >= sub.cursor]_vars

\* While the subscription is not paused for good, every event it is owed is accepted by
\* a handler in the end, unless it is called with a filter that does not want the event.
EveryEventHandled ==
  <>[]sub.active => \A i \in EventIds : Owed(i) ~> (i \in handled \/ ~Owed(i))

\* A paused subscription stops its runner (README.md "Toggle Active ... to pause").
PauseTakesEffect == <>[](~sub.active) => <>[](\A w \in Workers : ~Runs(w))
=============================================================================
