---------------------- MODULE DurableSubscriptionProofs ----------------------
(***************************************************************************)
(* What RunSubscription promises, for any number of workers, callers and   *)
(* events: types, the lease, redelivery, filters and delivery.             *)
(***************************************************************************)
EXTENDS DurableSubscription, SubscriptionTableProofs

-----------------------------------------------------------------------------
(* Types.                                                                   *)

\* The worker has loaded the row back.
HasCopy(w) == pc[w] \in Running \ {"load", "release"}

\* A worker in RunSubscription has arguments, and one that has claimed a copy of
\* the row; both are used without a check by the code that follows.
ArgumentsOK ==
  \A w \in Workers : /\ pc[w] # "idle" => call[w] \in Calls
                     /\ HasCopy(w) => view[w] \in SubscriptionRow

LocalOK ==
  /\ pc \in [Workers -> {"idle", "types", "claim"} \cup Running]
  /\ call \in [Workers -> Calls \cup {NoCall}]
  /\ todo \in [Workers -> SUBSET TypesOfEvents]
  /\ view \in [Workers -> SubscriptionRow \cup {NoCopy}]
  /\ batch \in [Workers -> SUBSET EventIds]
  /\ goal \in [Workers -> 0 .. MaxEventId]
  /\ cancelled \in [Workers -> BOOLEAN]
  /\ ArgumentsOK

HistoryOK ==
  /\ handled \in SUBSET EventIds
  /\ first \in -1 .. MaxEventId
  /\ overrun \in BOOLEAN /\ unrecorded \in BOOLEAN
  /\ asked \in SUBSET {c.filter : c \in Calls}
  /\ faults \in 0 .. MaxFaults

TypeInv == LogInv /\ sub \in SubscriptionRow /\ LocalOK /\ HistoryOK

\* What callers pass is what the row's columns may hold.
LEMMA CallTypes ==
  ASSUME NEW c \in Calls
  PROVE  /\ c.owner \in Owners
         /\ JoinTypes(c.filter.types) \in SUBSET TypesOfEvents
         /\ c.start \in {d.start : d \in Calls}
         /\ Columns(c.filter) \in {Columns(d.filter) : d \in Calls}
<1>1. c.filter \in Filter BY SubscriptionTableAssumption DEF SubscriptionTableAssumption
<1>2. c.filter.types \in SUBSET TypesOfEvents BY <1>1 DEF Filter
<1> QED BY <1>2 DEF JoinTypes, Owners

\* A start in the row has an id and a time.
LEMMA StartTypes ==
  ASSUME NEW r \in SubscriptionRow
  PROVE  r.start \in StartFrom
<1>1. FromBeginning \in StartFrom
  <2>1. MaxEventId \in Nat BY EventLogAssumption DEF EventLogAssumption
  <2> QED BY <2>1 DEF FromBeginning, StartFrom, StartKinds
<1>2. \A c \in Calls : c.start \in StartFrom
  BY SubscriptionTableAssumption DEF SubscriptionTableAssumption
<1>3. r.start \in {FromBeginning} \cup {c.start : c \in Calls} BY DEF SubscriptionRow
<1> QED BY <1>1, <1>2, <1>3

\* Every statement leaves a row of the table.
LEMMA RowTypes ==
  ASSUME sub \in SubscriptionRow
  PROVE  /\ \A c \in Calls : UpsertSubscription(c) => sub' \in SubscriptionRow
         /\ \A t \in TypesOfEvents : AddSubscriptionEventType(t) => sub' \in SubscriptionRow
         /\ \A o \in Owners : ClaimSubscription(o) => sub' \in SubscriptionRow
         /\ \A o \in Owners : RenewSubscription(o) => sub' \in SubscriptionRow
         /\ \A o \in Owners : ReleaseSubscription(o) => sub' \in SubscriptionRow
         /\ \A i \in 0 .. MaxEventId : AdvanceSubscriptionCursor(i) => sub' \in SubscriptionRow
         /\ \A b \in BOOLEAN : SetSubscriptionActive(b) => sub' \in SubscriptionRow
         /\ LeaseExpires => sub' \in SubscriptionRow
<1>1. ASSUME NEW c \in Calls, UpsertSubscription(c) PROVE sub' \in SubscriptionRow
  <2>1. /\ Columns(c.filter) \in {NoColumns} \cup {Columns(d.filter) : d \in Calls}
        /\ c.start \in {FromBeginning} \cup {d.start : d \in Calls}
    BY CallTypes
  <2> QED BY <1>1, <2>1 DEF UpsertSubscription, SubscriptionRow
<1>2. ASSUME NEW t \in TypesOfEvents, AddSubscriptionEventType(t) PROVE sub' \in SubscriptionRow
  BY <1>2 DEF AddSubscriptionEventType, SubscriptionRow
<1>3. ASSUME NEW o \in Owners, ClaimSubscription(o) PROVE sub' \in SubscriptionRow
  BY <1>3 DEF ClaimSubscription, SubscriptionRow
<1>4. ASSUME NEW o \in Owners, RenewSubscription(o) PROVE sub' \in SubscriptionRow
  BY <1>4 DEF RenewSubscription, SubscriptionRow
<1>5. ASSUME NEW o \in Owners, ReleaseSubscription(o) PROVE sub' \in SubscriptionRow
  BY <1>5 DEF ReleaseSubscription, SubscriptionRow
<1>6. ASSUME NEW i \in 0 .. MaxEventId, AdvanceSubscriptionCursor(i) PROVE sub' \in SubscriptionRow
  BY <1>6 DEF AdvanceSubscriptionCursor, SubscriptionRow
<1>7. ASSUME NEW b \in BOOLEAN, SetSubscriptionActive(b) PROVE sub' \in SubscriptionRow
  BY <1>7 DEF SetSubscriptionActive, SubscriptionRow
<1>8. ASSUME LeaseExpires PROVE sub' \in SubscriptionRow
  BY <1>8 DEF LeaseExpires, SubscriptionRow
<1> QED BY <1>1, <1>2, <1>3, <1>4, <1>5, <1>6, <1>7, <1>8

\* The initial state.
LEMMA InitTypes == Init => TypeInv
<1> SUFFICES ASSUME Init PROVE TypeInv OBVIOUS
<1>0. MaxEventId \in Nat /\ MaxFaults \in Nat
  BY EventLogAssumption, DurableSubscriptionAssumption
     DEF EventLogAssumption, DurableSubscriptionAssumption
<1>1. LogInv BY LogInitInv DEF Init
<1>2. sub \in SubscriptionRow
  <2>1. 0 \in 0 .. MaxEventId BY <1>0
  <2> QED BY <2>1 DEF Init, TableInit, AbsentRow, SubscriptionRow
<1>3. LocalOK
  <2>1. 0 \in 0 .. MaxEventId BY <1>0
  <2>2. ArgumentsOK BY DEF Init, ArgumentsOK, HasCopy, Running
  <2>3. /\ pc \in [Workers -> {"idle", "types", "claim"} \cup Running]
        /\ call \in [Workers -> Calls \cup {NoCall}]
        /\ todo \in [Workers -> SUBSET TypesOfEvents]
        /\ view \in [Workers -> SubscriptionRow \cup {NoCopy}]
    BY DEF Init
  <2>4. /\ batch \in [Workers -> SUBSET EventIds]
        /\ goal \in [Workers -> 0 .. MaxEventId]
        /\ cancelled \in [Workers -> BOOLEAN]
    BY <2>1 DEF Init
  <2> QED BY <2>2, <2>3, <2>4 DEF LocalOK
<1>4. HistoryOK
  <2>1. first \in -1 .. MaxEventId BY <1>0 DEF Init
  <2>2. faults \in 0 .. MaxFaults BY <1>0 DEF Init
  <2> QED BY <2>1, <2>2 DEF Init, HistoryOK
<1> QED BY <1>1, <1>2, <1>3, <1>4 DEF TypeInv

\* RunSubscription returns, before or after the deferred release.
LEMMA ReturnTypes ==
  ASSUME LocalOK, NEW w \in Workers, pc[w] # "idle"
  PROVE  /\ ReturnTo(w, "idle") => LocalOK'
         /\ Return(w) => LocalOK'
<1>0. 0 \in 0 .. MaxEventId BY EventLogAssumption DEF EventLogAssumption
<1>1. ASSUME NEW l \in {"idle", "release"}, ReturnTo(w, l) PROVE LocalOK'
  <2>1. pc' = [pc EXCEPT ![w] = l] BY <1>1 DEF ReturnTo, Goto
  <2>2. pc' \in [Workers -> {"idle", "types", "claim"} \cup Running]
    BY <1>1, <2>1 DEF LocalOK, Running
  <2>3. /\ todo' \in [Workers -> SUBSET TypesOfEvents]
        /\ view' \in [Workers -> SubscriptionRow \cup {NoCopy}]
        /\ batch' \in [Workers -> SUBSET EventIds]
        /\ goal' \in [Workers -> 0 .. MaxEventId]
    BY <1>0, <1>1 DEF ReturnTo, LocalOK
  <2>4. /\ call' \in [Workers -> Calls \cup {NoCall}]
        /\ cancelled' \in [Workers -> BOOLEAN]
    BY <1>1 DEF ReturnTo, LocalOK
  <2>5. \A v \in Workers \ {w} : pc'[v] = pc[v] /\ call'[v] = call[v] /\ view'[v] = view[v]
    BY <1>1, <2>1 DEF ReturnTo, LocalOK
  <2>6. pc'[w] = l /\ (l # "idle" => call'[w] \in Calls)
    BY <1>1, <2>1 DEF ReturnTo, LocalOK, ArgumentsOK
  <2>7. ArgumentsOK' BY <2>5, <2>6, <1>1 DEF LocalOK, ArgumentsOK, HasCopy, Running
  <2> QED BY <2>2, <2>3, <2>4, <2>7 DEF LocalOK
<1>2. Return(w) => \E l \in {"idle", "release"} : ReturnTo(w, l) BY DEF Return
<1> QED BY <1>1, <1>2

\* The initial position is a cursor.
LEMMA AnchorTypes ==
  ASSUME TypeInv, NEW r \in SubscriptionRow, Anchor(r.start) > 0
  PROVE  CursorAtAnchor(r.start) \in 0 .. MaxEventId
<1>0. MaxEventId \in Nat BY EventLogAssumption DEF EventLogAssumption
<1>1. visible \in SUBSET EventIds BY DEF TypeInv, LogInv, LogTypeOK
<1>2. MaxEvent \in 0 .. MaxEventId BY <1>1, HighestType DEF MaxEvent
<1>3. FirstIdFrom(r.start.time) \in 0 .. MaxEventId
  <2>1. FirstIdFrom(r.start.time) \in EventIds \cup {0} BY <1>1, FirstIdFromIs
  <2> QED BY <1>0, <2>1 DEF EventIds
<1> QED BY <1>2, <1>3, <1>0 DEF Anchor, CursorAtAnchor

\* A step of RunSubscription.
LEMMA StepTypes ==
  ASSUME TypeInv, NEW w \in Workers, Step(w)
  PROVE  TypeInv'
<1>0. MaxEventId \in Nat /\ 0 \in 0 .. MaxEventId
  BY EventLogAssumption DEF EventLogAssumption
<1>a. LogInv /\ sub \in SubscriptionRow /\ LocalOK /\ HistoryOK BY DEF TypeInv
<1>b. NoCall \notin Calls /\ NoCopy \notin SubscriptionRow
  BY DurableSubscriptionAssumption DEF DurableSubscriptionAssumption
<1>c. ASSUME UNCHANGED logVars PROVE LogInv'
  BY <1>a, <1>c DEF logVars, LogInv, LogTypeOK, LogRowsOK, SerialOK
<1>d. ASSUME UNCHANGED history, UNCHANGED faults PROVE HistoryOK'
  BY <1>a, <1>d DEF history, HistoryOK
<1>e. pc[w] # "idle" => call[w] \in Calls /\ call[w].owner \in Owners
  BY <1>a, CallTypes DEF LocalOK, ArgumentsOK
<1>f. ASSUME NEW cursor \in 0 .. MaxEventId, EnterLoop(w, cursor), UNCHANGED faults
      PROVE  HistoryOK'
  BY <1>0, <1>a, <1>f DEF EnterLoop, HistoryOK
<1>1. CASE Upsert(w)
  <2>1. PICK c \in Calls :
          /\ UpsertSubscription(c)
          /\ asked' = asked \cup {c.filter}
          /\ call' = [call EXCEPT ![w] = c]
          /\ todo' = [todo EXCEPT ![w] = JoinTypes(c.filter.types)]
          /\ Goto(w, IF JoinTypes(c.filter.types) = {} THEN "claim" ELSE "types")
    BY <1>1 DEF Upsert
  <2>2. sub' \in SubscriptionRow BY <1>a, <2>1, RowTypes
  <2>3. JoinTypes(c.filter.types) \in SUBSET TypesOfEvents BY CallTypes
  <2>4. LocalOK' BY <1>1, <1>a, <2>1, <2>3 DEF Upsert, Goto, LocalOK, ArgumentsOK, HasCopy, Running
  <2>5. HistoryOK' BY <1>1, <1>a, <2>1 DEF Upsert, HistoryOK
  <2> QED BY <1>1, <1>c, <2>2, <2>4, <2>5 DEF Upsert, TypeInv
<1>2. CASE AddType(w)
  <2>1. PICK t \in todo[w] :
          /\ AddSubscriptionEventType(t)
          /\ todo' = [todo EXCEPT ![w] = @ \ {t}]
          /\ Goto(w, IF todo[w] = {t} THEN "claim" ELSE "types")
    BY <1>2 DEF AddType
  <2>2. t \in TypesOfEvents BY <1>a DEF LocalOK
  <2>3. sub' \in SubscriptionRow BY <1>a, <2>1, <2>2, RowTypes
  <2>4. LocalOK' BY <1>2, <1>a, <2>1 DEF AddType, Goto, LocalOK, ArgumentsOK, HasCopy, Running
  <2> QED BY <1>2, <1>c, <1>d, <2>3, <2>4 DEF AddType, TypeInv
<1>3. CASE Claim(w)
  <2>1. sub' \in SubscriptionRow BY <1>3, <1>a, <1>e, RowTypes DEF Claim
  <2>2. LocalOK' BY <1>3, <1>a DEF Claim, Goto, LocalOK, ArgumentsOK, HasCopy, Running
  <2> QED BY <1>3, <1>c, <1>d, <2>1, <2>2 DEF Claim, TypeInv
<1>4. CASE ClaimRefused(w)
  <2>1. LocalOK' BY <1>4, <1>a, ReturnTypes DEF ClaimRefused
  <2> QED BY <1>4, <1>a, <1>c, <1>d, <2>1 DEF ClaimRefused, TypeInv
<1>5. CASE LoadBack(w)
  <2>0. sub.cursor \in 0 .. MaxEventId /\ sub.start.id \in 0 .. MaxEventId
    BY <1>a, StartTypes DEF SubscriptionRow, StartFrom
  <2>1. pc' = [pc EXCEPT ![w] = pc'[w]] /\ pc'[w] \in {"poll", "set", "init"}
    BY <1>5, <1>a DEF LoadBack, EnterLoop, Goto, LocalOK
  <2>2. goal' \in [Workers -> 0 .. MaxEventId] BY <1>5, <1>a, <2>0 DEF LoadBack, LocalOK
  <2>3. view' = [view EXCEPT ![w] = sub] /\ UNCHANGED <<call, todo, batch, cancelled>>
    BY <1>5 DEF LoadBack, CopyRow
  <2>4. LocalOK' BY <1>5, <1>a, <1>e, <2>1, <2>2, <2>3 DEF LoadBack, LocalOK, ArgumentsOK, HasCopy, Running
  <2>5. HistoryOK' BY <1>5, <1>d, <1>f, <2>0 DEF LoadBack
  <2> QED BY <1>5, <1>a, <1>c, <2>4, <2>5 DEF LoadBack, TypeInv
<1>6. CASE ReadStart(w)
  <2>0. view[w] \in SubscriptionRow BY <1>6, <1>a DEF ReadStart, LocalOK, ArgumentsOK, HasCopy, Running
  <2>1. pc' = [pc EXCEPT ![w] = pc'[w]] /\ pc'[w] \in {"poll", "set"}
    BY <1>6, <1>a DEF ReadStart, EnterLoop, Goto, LocalOK
  <2>2. goal' \in [Workers -> 0 .. MaxEventId]
    BY <1>6, <1>a, <2>0, AnchorTypes DEF ReadStart, LocalOK
  <2>3. LocalOK' BY <1>6, <1>a, <2>1, <2>2 DEF ReadStart, LocalOK, ArgumentsOK, HasCopy, Running
  <2>4. HistoryOK' BY <1>0, <1>6, <1>d, <1>f DEF ReadStart
  <2> QED BY <1>6, <1>a, <1>c, <2>3, <2>4 DEF ReadStart, TypeInv
<1>7. CASE SetCursor(w)
  <2>1. goal[w] \in 0 .. MaxEventId BY <1>a DEF LocalOK
  <2>2. sub' \in SubscriptionRow BY <1>7, <1>a, <2>1, RowTypes DEF SetCursor
  <2>3. LocalOK' BY <1>0, <1>7, <1>a DEF SetCursor, EnterLoop, Goto, LocalOK, ArgumentsOK, HasCopy, Running
  <2>4. HistoryOK' BY <1>7, <1>f, <2>1 DEF SetCursor
  <2> QED BY <1>7, <1>c, <2>2, <2>3, <2>4 DEF SetCursor, TypeInv
<1>8. CASE Reload(w)
  <2>1. CASE sub.active
    <3>1. LocalOK' BY <1>8, <1>a, <2>1 DEF Reload, CopyRow, Goto, LocalOK, ArgumentsOK, HasCopy, Running
    <3> QED BY <1>8, <1>a, <1>c, <1>d, <3>1 DEF Reload, TypeInv
  <2>2. CASE ~sub.active
    <3>1. LocalOK' BY <1>8, <1>a, <2>2, ReturnTypes DEF Reload
    <3> QED BY <1>8, <1>a, <1>c, <1>d, <3>1 DEF Reload, TypeInv
  <2> QED BY <2>1, <2>2
<1>9. CASE Fetch(w)
  <2>1. Due(w) \in SUBSET EventIds BY <1>a DEF Due, EventsFor, LogInv, LogTypeOK
  <2>2. LocalOK' BY <1>9, <1>a, <2>1 DEF Fetch, Goto, LocalOK, ArgumentsOK, HasCopy, Running
  <2> QED BY <1>9, <1>a, <1>c, <1>d, <2>2 DEF Fetch, TypeInv
<1>10. CASE Wait(w)
  <2>1. sub' \in SubscriptionRow BY <1>10, <1>a, <1>e, RowTypes DEF Wait
  <2>2. LocalOK' BY <1>10, <1>a DEF Wait, Goto, LocalOK, ArgumentsOK, HasCopy, Running
  <2> QED BY <1>10, <1>c, <1>d, <2>1, <2>2 DEF Wait, TypeInv
<1>11. CASE Handle(w)
  <2>1. LocalOK' BY <1>11, <1>a DEF Handle, Goto, LocalOK, ArgumentsOK, HasCopy, Running
  <2>2. HistoryOK' BY <1>11, <1>a DEF Handle, HistoryOK, LocalOK
  <2> QED BY <1>11, <1>a, <1>c, <2>1, <2>2 DEF Handle, TypeInv
<1>12. CASE Advance(w)
  <2>1. LastId(batch[w]) \in 0 .. MaxEventId BY <1>a, HighestType DEF LastId, LocalOK
  <2>2. sub' \in SubscriptionRow BY <1>12, <1>a, <2>1, RowTypes DEF Advance
  <2>3. LocalOK' BY <1>12, <1>a DEF Advance, Goto, LocalOK, ArgumentsOK, HasCopy, Running
  <2> QED BY <1>12, <1>c, <1>d, <2>2, <2>3 DEF Advance, TypeInv
<1>13. CASE Renew(w)
  <2>1. sub' \in SubscriptionRow BY <1>13, <1>a, <1>e, RowTypes DEF Renew
  <2>2. LocalOK' BY <1>13, <1>a DEF Renew, Goto, LocalOK, ArgumentsOK, HasCopy, Running
  <2> QED BY <1>13, <1>c, <1>d, <2>1, <2>2 DEF Renew, TypeInv
<1>14. CASE Stop(w)
  <2>1. LocalOK' BY <1>14, <1>a, ReturnTypes DEF Stop
  <2> QED BY <1>14, <1>a, <1>c, <1>d, <2>1 DEF Stop, TypeInv
<1>15. CASE Release(w)
  <2>1. sub' \in SubscriptionRow BY <1>15, <1>a, <1>e, RowTypes DEF Release
  <2>2. LocalOK' BY <1>15, <1>a, ReturnTypes DEF Release
  <2> QED BY <1>15, <1>c, <1>d, <2>1, <2>2 DEF Release, TypeInv
<1> QED BY <1>1, <1>2, <1>3, <1>4, <1>5, <1>6, <1>7, <1>8, <1>9, <1>10, <1>11, <1>12,
           <1>13, <1>14, <1>15 DEF Step

\* A cancellation, an error, a crash, an operator or the clock.
LEMMA FaultTypes ==
  ASSUME TypeInv,
         \/ \E w \in Workers : Cancel(w) \/ Fail(w) \/ Crash(w)
         \/ Pause \/ Resume \/ Expire
  PROVE  TypeInv'
<1>0. MaxFaults \in Nat BY DurableSubscriptionAssumption DEF DurableSubscriptionAssumption
<1>a. LogInv /\ sub \in SubscriptionRow /\ LocalOK /\ HistoryOK BY DEF TypeInv
<1>b. ASSUME UNCHANGED logVars PROVE LogInv'
  BY <1>a, <1>b DEF logVars, LogInv, LogTypeOK, LogRowsOK, SerialOK
<1>c. ASSUME UNCHANGED local PROVE LocalOK'
  BY <1>a, <1>c DEF local, LocalOK, ArgumentsOK, HasCopy
<1>d. Fault => faults' \in 0 .. MaxFaults BY <1>0, <1>a DEF Fault, HistoryOK
<1>e. ASSUME NEW w \in Workers, NoteUnrecorded(w), Fault PROVE HistoryOK'
  BY <1>a, <1>d, <1>e DEF NoteUnrecorded, HistoryOK
<1>1. ASSUME NEW w \in Workers, Cancel(w) PROVE TypeInv'
  <2>1. LocalOK' BY <1>1, <1>a DEF Cancel, LocalOK, ArgumentsOK, HasCopy
  <2>2. HistoryOK' BY <1>1, <1>a, <1>d DEF Cancel, history, HistoryOK
  <2> QED BY <1>1, <1>a, <1>b, <2>1, <2>2 DEF Cancel, TypeInv
<1>2. ASSUME NEW w \in Workers, Fail(w) PROVE TypeInv'
  <2>1. LocalOK' BY <1>2, <1>a, ReturnTypes DEF Fail
  <2> QED BY <1>2, <1>a, <1>b, <1>e, <2>1 DEF Fail, TypeInv
<1>3. ASSUME NEW w \in Workers, Crash(w) PROVE TypeInv'
  <2>1. LocalOK' BY <1>3, <1>a, ReturnTypes DEF Crash
  <2> QED BY <1>3, <1>a, <1>b, <1>e, <2>1 DEF Crash, TypeInv
<1>4. ASSUME Pause PROVE TypeInv'
  <2>1. sub' \in SubscriptionRow BY <1>4, <1>a, RowTypes DEF Pause
  <2>2. HistoryOK' BY <1>4, <1>a, <1>d DEF Pause, history, HistoryOK
  <2> QED BY <1>4, <1>b, <1>c, <2>1, <2>2 DEF Pause, TypeInv
<1>5. ASSUME Resume PROVE TypeInv'
  <2>1. sub' \in SubscriptionRow BY <1>5, <1>a, RowTypes DEF Resume
  <2>2. HistoryOK' BY <1>5, <1>a DEF Resume, history, HistoryOK
  <2> QED BY <1>5, <1>b, <1>c, <2>1, <2>2 DEF Resume, TypeInv
<1>6. ASSUME Expire PROVE TypeInv'
  <2>1. sub' \in SubscriptionRow BY <1>6, <1>a, RowTypes DEF Expire
  <2>2. HistoryOK' BY <1>6, <1>a DEF Expire, HistoryOK
  <2> QED BY <1>6, <1>b, <1>c, <2>1, <2>2 DEF Expire, TypeInv
<1> QED BY <1>1, <1>2, <1>3, <1>4, <1>5, <1>6

\* Every step.
LEMMA NextTypes == TypeInv /\ [Next]_vars => TypeInv'
<1> SUFFICES ASSUME TypeInv, [Next]_vars PROVE TypeInv' OBVIOUS
<1>1. CASE LogNext /\ UNCHANGED <<sub, local, history, faults>>
  BY <1>1, LogStep DEF TypeInv, local, history, LocalOK, ArgumentsOK, HasCopy, HistoryOK
<1>2. CASE \E w \in Workers : Step(w) BY <1>2, StepTypes
<1>3. CASE \/ \E w \in Workers : Cancel(w) \/ Fail(w) \/ Crash(w)
           \/ Pause \/ Resume \/ Expire
  BY <1>3, FaultTypes
<1>4. CASE UNCHANGED vars
  BY <1>4 DEF vars, logVars, local, history, TypeInv, LogInv, LogTypeOK, LogRowsOK, SerialOK,
              LocalOK, ArgumentsOK, HasCopy, HistoryOK
<1> QED BY <1>1, <1>2, <1>3, <1>4 DEF Next

\* Every state of a run of RunSubscription's workers is well typed; in particular
\* every cursor written is the id of an event that was there, or the start asked for.
THEOREM TypeCorrectness == Spec => []TypeOK
<1>1. TypeInv => TypeOK BY DEF TypeInv, LogInv, LocalOK, HistoryOK, TypeOK
<1> QED BY <1>1, InitTypes, NextTypes, PTL DEF Spec

-----------------------------------------------------------------------------
(* One worker's step and the others.                                        *)

\* A worker's step leaves what the other workers hold alone.
LEMMA OthersKeep ==
  ASSUME TypeInv, NEW w \in Workers, Step(w) \/ Cancel(w) \/ Fail(w) \/ Crash(w),
         NEW v \in Workers, v # w
  PROVE  /\ pc'[v] = pc[v] /\ call'[v] = call[v] /\ todo'[v] = todo[v]
         /\ view'[v] = view[v] /\ batch'[v] = batch[v] /\ goal'[v] = goal[v]
<1>a. LocalOK BY DEF TypeInv
<1> DEFINE Same == /\ pc'[v] = pc[v] /\ call'[v] = call[v] /\ todo'[v] = todo[v]
                   /\ view'[v] = view[v] /\ batch'[v] = batch[v] /\ goal'[v] = goal[v]
<1>b. ASSUME NEW l, ReturnTo(w, l) PROVE Same BY <1>a, <1>b DEF ReturnTo, Goto, LocalOK
<1>c. Return(w) => Same BY <1>b DEF Return
<1>1. CASE Upsert(w) BY <1>a, <1>1 DEF Upsert, Goto, LocalOK
<1>2. CASE AddType(w) BY <1>a, <1>2 DEF AddType, Goto, LocalOK
<1>3. CASE Claim(w) BY <1>a, <1>3 DEF Claim, Goto, LocalOK
<1>4. CASE ClaimRefused(w) BY <1>b, <1>4 DEF ClaimRefused
<1>5. CASE LoadBack(w) BY <1>a, <1>5 DEF LoadBack, CopyRow, EnterLoop, Goto, LocalOK
<1>6. CASE ReadStart(w) BY <1>a, <1>6 DEF ReadStart, EnterLoop, Goto, LocalOK
<1>7. CASE SetCursor(w) BY <1>a, <1>7 DEF SetCursor, EnterLoop, Goto, LocalOK
<1>8. CASE Reload(w) BY <1>a, <1>c, <1>8 DEF Reload, CopyRow, Goto, LocalOK
<1>9. CASE Fetch(w) BY <1>a, <1>9 DEF Fetch, Goto, LocalOK
<1>10. CASE Wait(w) BY <1>a, <1>10 DEF Wait, Goto, LocalOK
<1>11. CASE Handle(w) BY <1>a, <1>11 DEF Handle, Goto, LocalOK
<1>12. CASE Advance(w) BY <1>a, <1>12 DEF Advance, Goto, LocalOK
<1>13. CASE Renew(w) BY <1>a, <1>13 DEF Renew, Goto, LocalOK
<1>14. CASE Stop(w) \/ Fail(w) BY <1>c, <1>14 DEF Stop, Fail
<1>15. CASE Release(w) \/ Crash(w) BY <1>b, <1>15 DEF Release, Crash
<1>16. CASE Cancel(w) BY <1>a, <1>16 DEF Cancel
<1> QED BY <1>1, <1>2, <1>3, <1>4, <1>5, <1>6, <1>7, <1>8, <1>9, <1>10, <1>11, <1>12,
           <1>13, <1>14, <1>15, <1>16 DEF Step

\* A worker that returns has nothing left but, if it had claimed, its arguments
\* for the deferred release.
LEMMA Returns ==
  ASSUME TypeInv, NEW w \in Workers,
         \/ ClaimRefused(w) \/ (Reload(w) /\ ~sub.active) \/ Stop(w) \/ Release(w)
         \/ Fail(w) \/ Crash(w)
  PROVE  /\ pc'[w] \in {"idle", "release"} /\ batch'[w] = {} /\ todo'[w] = {}
         /\ pc'[w] = "release" => Runs(w) /\ call'[w] = call[w]
         /\ ~Release(w) => sub' = sub
         /\ UNCHANGED <<logVars, handled, first, overrun>>
<1>a. LocalOK BY DEF TypeInv
<1>1. ASSUME NEW l \in {"idle", "release"}, ReturnTo(w, l)
      PROVE  /\ pc'[w] = l /\ batch'[w] = {} /\ todo'[w] = {}
             /\ l = "release" => call'[w] = call[w]
  BY <1>a, <1>1 DEF ReturnTo, Goto, LocalOK
<1>2. Return(w) => ReturnTo(w, IF Runs(w) THEN "release" ELSE "idle") BY DEF Return
<1>3. CASE ClaimRefused(w) BY <1>1, <1>3 DEF ClaimRefused, history
<1>4. CASE Reload(w) /\ ~sub.active BY <1>1, <1>2, <1>4 DEF Reload, history
<1>5. CASE Stop(w) BY <1>1, <1>2, <1>5 DEF Stop, history
<1>6. CASE Release(w) BY <1>1, <1>6 DEF Release, history
<1>7. CASE Fail(w) BY <1>1, <1>2, <1>7 DEF Fail, NoteUnrecorded
<1>8. CASE Crash(w) BY <1>1, <1>8 DEF Crash, NoteUnrecorded
<1> QED BY <1>3, <1>4, <1>5, <1>6, <1>7, <1>8

-----------------------------------------------------------------------------
(* The lease.                                                               *)

\* As long as no lease ran out under its holder, the row's lease is that of the
\* one worker that runs.
LeaseInv ==
  ~overrun =>
    \A w \in Workers : Runs(w) =>
      /\ sub.owner = call[w].owner /\ ~sub.expired
      /\ \A v \in Workers : Runs(v) => v = w

\* No worker runs yet.
LEMMA InitLease == Init => LeaseInv
BY DEF Init, LeaseInv, Runs, Running

\* Nothing but a claim adds a worker, and a claim needs a lease that nobody holds.
LEMMA NextLease == TypeInv /\ LeaseInv /\ [Next]_vars => LeaseInv'
<1> SUFFICES ASSUME TypeInv, LeaseInv, [Next]_vars PROVE LeaseInv' OBVIOUS
<1>a. sub \in SubscriptionRow /\ LocalOK BY DEF TypeInv
<1>k. ASSUME sub'.owner = sub.owner, sub'.expired => sub.expired, overrun' = overrun,
             \A v \in Workers : Runs(v)' => Runs(v) /\ call'[v] = call[v]
      PROVE  LeaseInv'
  BY <1>k DEF LeaseInv
<1>1. ASSUME NEW w \in Workers, Step(w) \/ Cancel(w) \/ Fail(w) \/ Crash(w) PROVE LeaseInv'
  <2>o. \A v \in Workers \ {w} : /\ Runs(v)' <=> Runs(v)
                                 /\ call'[v] = call[v]
    BY <1>1, OthersKeep DEF Runs
  <2>1. CASE Upsert(w)
    <3>1. ~Runs(w)' BY <1>a, <2>1 DEF Upsert, Goto, LocalOK, Runs, Running
    <3>2. sub'.owner = sub.owner /\ sub'.expired = sub.expired
      BY <1>a, <2>1 DEF Upsert, UpsertSubscription, SubscriptionRow
    <3> QED BY <1>k, <2>1, <2>o, <3>1, <3>2 DEF Upsert, history
  <2>2. CASE AddType(w)
    <3>1. ~Runs(w)' BY <1>a, <2>2 DEF AddType, Goto, LocalOK, Runs, Running
    <3>2. sub'.owner = sub.owner /\ sub'.expired = sub.expired
      BY <1>a, <2>2 DEF AddType, AddSubscriptionEventType, SubscriptionRow
    <3> QED BY <1>k, <2>2, <2>o, <3>1, <3>2 DEF AddType, history
  <2>3. CASE Claim(w)
    <3>1. call[w] \in Calls /\ NoOwner \notin Owners /\ UNCHANGED <<call, overrun>>
      BY <1>a, <2>3, SubscriptionTableAssumption
         DEF Claim, LocalOK, ArgumentsOK, SubscriptionTableAssumption, history
    <3>2. sub'.owner = call[w].owner /\ ~sub'.expired
      BY <1>a, <2>3 DEF Claim, ClaimSubscription, SubscriptionRow
    <3>3. ASSUME ~overrun, NEW v \in Workers, Runs(v) PROVE FALSE
      <4>1. sub.owner = call[v].owner /\ ~sub.expired BY <3>3 DEF LeaseInv
      <4>2. call[v] \in Calls BY <1>a, <3>3 DEF LocalOK, ArgumentsOK, Runs, Running
      <4>3. sub.owner \in Owners BY <4>1, <4>2, CallTypes
      <4> QED BY <2>3, <3>1, <4>1, <4>3 DEF Claim, ClaimSubscription, Free
    <3>4. ~overrun => \A v \in Workers : Runs(v)' => v = w BY <2>o, <3>3
    <3> QED BY <3>1, <3>2, <3>4 DEF LeaseInv
  <2>4. CASE \/ ClaimRefused(w) \/ (Reload(w) /\ ~sub.active) \/ Stop(w) \/ Release(w)
             \/ Fail(w) \/ Crash(w)
    <3>1. CASE Release(w)
      <4>1. ~Runs(w)' /\ overrun' = overrun
        BY <1>a, <3>1 DEF Release, ReturnTo, Goto, LocalOK, Runs, Running, history
      <4>2. Runs(w) BY <3>1 DEF Release, Runs, Running
      <4>3. ~overrun => \A v \in Workers : ~Runs(v)' BY <2>o, <4>1, <4>2 DEF LeaseInv
      <4> QED BY <4>1, <4>3 DEF LeaseInv
    <3>2. CASE ~Release(w)
      <4>1. Runs(w)' => Runs(w) /\ call'[w] = call[w]
        BY <2>4, Returns DEF Runs, Running
      <4>2. sub' = sub /\ overrun' = overrun BY <2>4, <3>2, Returns
      <4> QED BY <1>k, <2>o, <4>1, <4>2
    <3> QED BY <3>1, <3>2
  <2>5. CASE \/ LoadBack(w) \/ ReadStart(w) \/ SetCursor(w) \/ (Reload(w) /\ sub.active)
             \/ Fetch(w) \/ Handle(w) \/ Advance(w) \/ Wait(w) \/ Renew(w) \/ Cancel(w)
    <3>1. call' = call /\ overrun' = overrun
      BY <2>5 DEF LoadBack, ReadStart, SetCursor, EnterLoop, Reload, Fetch, Handle, Advance, Wait,
                  Renew, Cancel, history
    <3>2. Runs(w)' => Runs(w)
      BY <1>a, <2>5 DEF LoadBack, ReadStart, SetCursor, Reload, Fetch, Handle, Advance, Wait,
                        Renew, Cancel, LocalOK, Runs, Running
    <3>3. sub'.owner = sub.owner /\ (sub'.expired => sub.expired)
      BY <1>a, <2>5 DEF LoadBack, ReadStart, SetCursor, Reload, Fetch, Handle, Advance, Wait,
                  Renew, Cancel, AdvanceSubscriptionCursor, RenewSubscription, SubscriptionRow
    <3> QED BY <1>k, <2>o, <3>1, <3>2, <3>3
  <2> QED BY <1>1, <2>1, <2>2, <2>3, <2>4, <2>5 DEF Step
<1>2. CASE Pause \/ Resume
  <2>1. sub'.owner = sub.owner /\ sub'.expired = sub.expired
    BY <1>a, <1>2 DEF Pause, Resume, SetSubscriptionActive, SubscriptionRow
  <2> QED BY <1>k, <1>2, <2>1 DEF Pause, Resume, local, history, Runs
<1>3. CASE Expire
  <2>1. overrun' = (overrun \/ \E w \in Workers : Runs(w) /\ call[w].owner = sub.owner)
    BY <1>3 DEF Expire
  <2>2. ~overrun' => \A w \in Workers : ~Runs(w) BY <2>1 DEF LeaseInv
  <2>3. pc' = pc BY <1>3 DEF Expire, local
  <2>4. ~overrun' => \A w \in Workers : ~Runs(w)' BY <2>2, <2>3 DEF Runs
  <2> QED BY <2>4 DEF LeaseInv
<1>4. CASE (LogNext /\ UNCHANGED <<sub, local, history, faults>>) \/ UNCHANGED vars
  BY <1>4 DEF vars, local, history, LeaseInv, Runs
<1> QED BY <1>1, <1>2, <1>3, <1>4 DEF Next

\* One worker processes a subscription at a time, unless a lease ran out under one.
THEOREM OneWorker == Spec => []OneWorkerAtATime
<1>1. LeaseInv => OneWorkerAtATime BY DEF LeaseInv, OneWorkerAtATime
<1> QED BY <1>1, InitTypes, NextTypes, InitLease, NextLease, PTL DEF Spec

-----------------------------------------------------------------------------
(* The cursor and what handlers have accepted.                              *)

\* A batch is what a worker fetched after the cursor of its copy.
BatchInv ==
  \A w \in Workers :
    /\ \A i \in batch[w] : i \in visible /\ i > view[w].cursor /\ pc[w] \in {"handle", "advance"}
    /\ pc[w] = "handle" => batch[w] # {}

\* As long as no lease ran out under its holder, the copy of the worker that runs
\* has the stored cursor.
CursorInv ==
  ~overrun =>
    \A w \in Workers : /\ pc[w] \in {"init", "set"} => sub.cursor = 0
                       /\ pc[w] \in {"fetch", "handle", "advance"} => view[w].cursor = sub.cursor

\* What handlers have accepted is recorded, or is about to be.
AcceptedInv ==
  ~overrun /\ ~unrecorded =>
    \A i \in handled : \/ i <= sub.cursor
                       \/ \E w \in Workers : pc[w] = "advance" /\ i \in batch[w]

DeliveredOnceInv == TypeInv /\ LeaseInv /\ BatchInv /\ CursorInv /\ AcceptedInv

\* No worker has fetched or accepted anything yet.
LEMMA InitBatch == Init => BatchInv /\ CursorInv /\ AcceptedInv
BY DEF Init, BatchInv, CursorInv, AcceptedInv

\* What a worker fetched follows its cursor, whatever the others do.
LEMMA NextBatch == TypeInv /\ BatchInv /\ [Next]_vars => BatchInv'
<1> SUFFICES ASSUME TypeInv, BatchInv, [Next]_vars PROVE BatchInv' OBVIOUS
<1>a. LogInv /\ sub \in SubscriptionRow /\ LocalOK BY DEF TypeInv
<1>1. ASSUME NEW w \in Workers, Step(w) \/ Cancel(w) \/ Fail(w) \/ Crash(w) PROVE BatchInv'
  <2>v. UNCHANGED visible
    BY <1>1 DEF Step, Upsert, AddType, Claim, ClaimRefused, LoadBack, ReadStart, SetCursor, Reload,
                Fetch, Wait, Handle, Advance, Renew, Stop, Release, Cancel, Fail, Crash, logVars
  <2>k. ASSUME \A i \in batch'[w] : /\ i \in visible /\ i > view'[w].cursor
                                    /\ pc'[w] \in {"handle", "advance"},
               pc'[w] = "handle" => batch'[w] # {}
        PROVE  BatchInv'
    BY <1>1, <2>v, <2>k, OthersKeep DEF BatchInv
  <2>1. CASE \/ ClaimRefused(w) \/ (Reload(w) /\ ~sub.active) \/ Stop(w) \/ Release(w)
             \/ Fail(w) \/ Crash(w)
    <3>1. batch'[w] = {} /\ pc'[w] # "handle" BY <2>1, Returns
    <3> QED BY <2>k, <3>1
  <2>2. CASE \/ Upsert(w) \/ AddType(w) \/ Claim(w) \/ LoadBack(w) \/ ReadStart(w)
             \/ SetCursor(w) \/ (Reload(w) /\ sub.active) \/ Wait(w) \/ Renew(w)
    <3>1. batch' = batch /\ pc[w] \notin {"handle", "advance"}
      BY <2>2 DEF Upsert, AddType, Claim, LoadBack, ReadStart, SetCursor, Reload, Wait, Renew
    <3>2. pc'[w] # "handle"
      BY <1>a, <2>2 DEF Upsert, AddType, Claim, LoadBack, ReadStart, SetCursor, EnterLoop, Reload,
                        Wait, Renew, Goto, LocalOK
    <3> QED BY <2>k, <3>1, <3>2 DEF BatchInv
  <2>3. CASE Fetch(w)
    <3>1. batch'[w] = Due(w) /\ view' = view BY <1>a, <2>3 DEF Fetch, LocalOK
    <3>2. \A i \in Due(w) : i \in visible /\ i > view[w].cursor BY DEF Due, EventsFor
    <3>3. pc'[w] = IF Due(w) = {} THEN "wait" ELSE "handle"
      BY <1>a, <2>3 DEF Fetch, Goto, LocalOK
    <3> QED BY <2>k, <3>1, <3>2, <3>3
  <2>4. CASE Handle(w)
    <3>1. pc'[w] = "advance" /\ UNCHANGED <<batch, view>> BY <1>a, <2>4 DEF Handle, Goto, LocalOK
    <3> QED BY <2>k, <3>1 DEF BatchInv
  <2>5. CASE Advance(w)
    <3>1. batch'[w] = {} /\ pc'[w] = "renew" BY <1>a, <2>5 DEF Advance, Goto, LocalOK
    <3> QED BY <2>k, <3>1
  <2>6. CASE Cancel(w) BY <2>6 DEF Cancel, logVars, BatchInv
  <2> QED BY <1>1, <2>1, <2>2, <2>3, <2>4, <2>5, <2>6 DEF Step
<1>2. CASE LogNext /\ UNCHANGED <<sub, local, history, faults>>
  <2>1. visible \subseteq visible' BY <1>a, <1>2, LogStep
  <2> QED BY <1>2, <2>1 DEF local, BatchInv
<1>3. CASE Pause \/ Resume \/ Expire \/ UNCHANGED vars
  BY <1>3 DEF Pause, Resume, Expire, vars, local, logVars, BatchInv
<1> QED BY <1>1, <1>2, <1>3 DEF Next

\* Only the worker that runs writes the cursor.
LEMMA NextCursor == TypeInv /\ LeaseInv /\ CursorInv /\ [Next]_vars => CursorInv'
<1> SUFFICES ASSUME TypeInv, LeaseInv, CursorInv, [Next]_vars PROVE CursorInv' OBVIOUS
<1>a. sub \in SubscriptionRow /\ LocalOK BY DEF TypeInv
<1> DEFINE Synced(w) == /\ pc[w] \in {"init", "set"} => sub.cursor = 0
                        /\ pc[w] \in {"fetch", "handle", "advance"} => view[w].cursor = sub.cursor
<1>1. ASSUME NEW w \in Workers, Step(w) \/ Cancel(w) \/ Fail(w) \/ Crash(w), ~overrun' PROVE CursorInv'
  <2>v. overrun' = overrun
    BY <1>1 DEF Step, Upsert, AddType, Claim, ClaimRefused, LoadBack, ReadStart, SetCursor, EnterLoop,
                Reload, Fetch, Wait, Handle, Advance, Renew, Stop, Release, Cancel, Fail, Crash,
                NoteUnrecorded, history
  <2>o. \A v \in Workers \ {w} : pc'[v] = pc[v] /\ view'[v] = view[v] BY <1>1, OthersKeep
  <2>k. ASSUME sub'.cursor = sub.cursor, Synced(w)' PROVE CursorInv'
    BY <1>1, <2>k, <2>o, <2>v DEF CursorInv
  <2>1. CASE \/ ClaimRefused(w) \/ (Reload(w) /\ ~sub.active) \/ Stop(w) \/ Release(w)
             \/ Fail(w) \/ Crash(w)
    <3>1. pc'[w] \in {"idle", "release"} BY <2>1, Returns
    <3>2. sub'.cursor = sub.cursor
      <4>1. CASE Release(w) BY <1>a, <4>1 DEF Release, ReleaseSubscription, SubscriptionRow
      <4>2. CASE ~Release(w) BY <2>1, <4>2, Returns
      <4> QED BY <4>1, <4>2
    <3> QED BY <2>k, <3>1, <3>2
  <2>2. CASE Upsert(w) \/ AddType(w) \/ Claim(w) \/ Wait(w) \/ Renew(w)
    <3>1. sub'.cursor = sub.cursor
      BY <1>a, <2>2 DEF Upsert, AddType, Claim, Wait, Renew, UpsertSubscription,
         AddSubscriptionEventType, ClaimSubscription, RenewSubscription, SubscriptionRow
    <3>2. pc'[w] \in {"types", "claim", "load", "poll"}
      BY <1>a, <2>2 DEF Upsert, AddType, Claim, Wait, Renew, Goto, LocalOK
    <3> QED BY <2>k, <3>1, <3>2
  <2>3. CASE LoadBack(w)
    <3>1. pc'[w] \in {"init", "set"} => sub.cursor = 0
      BY <1>a, <2>3 DEF LoadBack, EnterLoop, Goto, StartTaken, LocalOK
    <3>2. pc'[w] \in {"init", "set", "poll"} BY <1>a, <2>3 DEF LoadBack, EnterLoop, Goto, LocalOK
    <3> QED BY <2>3, <2>k, <3>1, <3>2 DEF LoadBack
  <2>4. CASE ReadStart(w)
    <3>1. pc'[w] \in {"set", "poll"} /\ pc[w] = "init"
      BY <1>a, <2>4 DEF ReadStart, EnterLoop, Goto, LocalOK
    <3> QED BY <1>1, <2>4, <2>k, <2>v, <3>1 DEF ReadStart, CursorInv
  <2>5. CASE SetCursor(w) \/ Advance(w)
    <3>1. pc'[w] \in {"poll", "renew"}
      BY <1>a, <2>5 DEF SetCursor, Advance, EnterLoop, Goto, LocalOK
    <3>2. Runs(w) BY <2>5 DEF SetCursor, Advance, Runs, Running
    <3>3. \A v \in Workers \ {w} : ~Runs(v) BY <1>1, <2>v, <3>2 DEF LeaseInv
    <3>4. \A v \in Workers : pc'[v] \notin {"init", "set", "fetch", "handle", "advance"}
      BY <2>o, <3>1, <3>3 DEF Runs, Running
    <3> QED BY <3>4 DEF CursorInv
  <2>6. CASE Reload(w) /\ sub.active
    <3>1. pc'[w] = "fetch" /\ view'[w] = sub /\ sub' = sub
      BY <1>a, <2>6 DEF Reload, CopyRow, Goto, LocalOK
    <3> QED BY <2>k, <3>1
  <2>7. CASE Fetch(w) \/ Handle(w)
    <3>1. /\ pc'[w] \in {"wait", "handle", "advance"} /\ pc[w] \in {"fetch", "handle"}
          /\ UNCHANGED <<sub, view>>
      BY <1>a, <2>7 DEF Fetch, Handle, Goto, LocalOK
    <3> QED BY <1>1, <2>k, <2>v, <3>1 DEF CursorInv
  <2>8. CASE Cancel(w) BY <2>8, <2>v DEF Cancel, CursorInv
  <2> QED BY <1>1, <2>1, <2>2, <2>3, <2>4, <2>5, <2>6, <2>7, <2>8 DEF Step
<1>2. CASE Pause \/ Resume \/ Expire
  <2>1. sub'.cursor = sub.cursor
    BY <1>a, <1>2 DEF Pause, Resume, Expire, SetSubscriptionActive, LeaseExpires, SubscriptionRow
  <2>2. overrun => overrun' BY <1>2 DEF Pause, Resume, Expire, history
  <2>3. pc' = pc /\ view' = view BY <1>2 DEF Pause, Resume, Expire, local
  <2> QED BY <2>1, <2>2, <2>3 DEF CursorInv
<1>3. CASE (LogNext /\ UNCHANGED <<sub, local, history, faults>>) \/ UNCHANGED vars
  BY <1>3 DEF vars, local, history, CursorInv
<1> QED BY <1>1, <1>2, <1>3 DEF Next, CursorInv

\* The id of a batch's last event is after the cursor, and after all of the batch.
LEMMA LastIdIs ==
  ASSUME TypeInv, BatchInv, NEW w \in Workers, batch[w] # {}
  PROVE  /\ LastId(batch[w]) \in batch[w] /\ LastId(batch[w]) > view[w].cursor
         /\ \A i \in batch[w] : i <= LastId(batch[w])
<1>1. batch[w] \in SUBSET EventIds BY DEF TypeInv, LocalOK
<1>2. LastId(batch[w]) \in batch[w] /\ \A i \in batch[w] : i <= LastId(batch[w])
  BY <1>1, HighestOf DEF LastId
<1> QED BY <1>2 DEF BatchInv

\* The stored cursor moves back only after a lease ran out under its holder.
LEMMA CursorGrows ==
  TypeInv /\ LeaseInv /\ BatchInv /\ CursorInv /\ [Next]_vars => overrun \/ sub'.cursor >= sub.cursor
<1> SUFFICES ASSUME TypeInv, LeaseInv, BatchInv, CursorInv, [Next]_vars, ~overrun
             PROVE  sub'.cursor >= sub.cursor
  OBVIOUS
<1>0. MaxEventId \in Nat BY EventLogAssumption DEF EventLogAssumption
<1>a. sub \in SubscriptionRow /\ LocalOK BY DEF TypeInv
<1>b. sub.cursor \in 0 .. MaxEventId BY <1>a DEF SubscriptionRow
<1>k. sub'.cursor = sub.cursor => sub'.cursor >= sub.cursor BY <1>b
<1>1. ASSUME NEW w \in Workers, SetCursor(w) PROVE sub'.cursor >= sub.cursor
  <2>1. sub'.cursor = goal[w] BY <1>a, <1>1 DEF SetCursor, AdvanceSubscriptionCursor, SubscriptionRow
  <2>2. sub.cursor = 0 BY <1>1 DEF SetCursor, CursorInv
  <2>3. goal[w] \in 0 .. MaxEventId BY <1>a DEF LocalOK
  <2> QED BY <2>1, <2>2, <2>3
<1>2. ASSUME NEW w \in Workers, Advance(w) PROVE sub'.cursor >= sub.cursor
  <2>1. view[w].cursor = sub.cursor BY <1>2 DEF Advance, CursorInv
  <2>2. LastId(batch[w]) \in 0 .. MaxEventId BY <1>a, HighestType DEF LastId, LocalOK
  <2>3. \/ sub'.cursor = LastId(batch[w]) /\ LastId(batch[w]) > view[w].cursor
        \/ sub'.cursor = sub.cursor
    BY <1>a, <1>2 DEF Advance, AdvanceSubscriptionCursor, SubscriptionRow
  <2> QED BY <1>b, <1>k, <2>1, <2>2, <2>3
<1>3. ASSUME NEW w \in Workers, \/ Step(w) /\ ~SetCursor(w) /\ ~Advance(w)
                                \/ Cancel(w) \/ Fail(w) \/ Crash(w)
      PROVE  sub'.cursor = sub.cursor
  <2>1. CASE \/ Upsert(w) \/ AddType(w) \/ Claim(w) \/ Wait(w) \/ Renew(w) \/ Release(w)
    BY <1>a, <2>1 DEF Upsert, AddType, Claim, Wait, Renew, Release, UpsertSubscription,
         AddSubscriptionEventType, ClaimSubscription, RenewSubscription, ReleaseSubscription,
         SubscriptionRow
  <2>2. CASE \/ ClaimRefused(w) \/ LoadBack(w) \/ ReadStart(w) \/ Reload(w) \/ Fetch(w) \/ Handle(w)
             \/ Stop(w) \/ Cancel(w) \/ Fail(w) \/ Crash(w)
    BY <2>2 DEF ClaimRefused, LoadBack, ReadStart, Reload, Fetch, Handle, Stop, Cancel, Fail, Crash
  <2> QED BY <1>3, <2>1, <2>2 DEF Step
<1>4. CASE Pause \/ Resume \/ Expire
  BY <1>a, <1>4 DEF Pause, Resume, Expire, SetSubscriptionActive, LeaseExpires, SubscriptionRow
<1>5. ASSUME UNCHANGED sub PROVE sub'.cursor = sub.cursor BY <1>5
<1>6. UNCHANGED vars => UNCHANGED sub BY DEF vars
<1> QED BY <1>k, <1>1, <1>2, <1>3, <1>4, <1>5, <1>6 DEF Next

\* What a handler accepts stays recorded or about to be, until a worker fails
\* between its handler and the cursor.
LEMMA NextAccepted ==
  TypeInv /\ LeaseInv /\ BatchInv /\ CursorInv /\ AcceptedInv /\ [Next]_vars => AcceptedInv'
<1> SUFFICES ASSUME TypeInv, LeaseInv, BatchInv, CursorInv, AcceptedInv, [Next]_vars,
                    ~overrun', ~unrecorded'
             PROVE  \A i \in handled' : \/ i <= sub'.cursor
                                        \/ \E w \in Workers : pc'[w] = "advance" /\ i \in batch'[w]
  BY DEF AcceptedInv
<1>0. MaxEventId \in Nat BY EventLogAssumption DEF EventLogAssumption
<1>a. sub \in SubscriptionRow /\ LocalOK /\ HistoryOK BY DEF TypeInv
<1>b. TypeInv' BY NextTypes
<1>c. sub.cursor \in 0 .. MaxEventId /\ sub'.cursor \in 0 .. MaxEventId
  BY <1>a, <1>b DEF TypeInv, SubscriptionRow
<1>d. \A i \in handled : i \in Nat
  <2>1. \A i \in EventIds : i \in Nat BY <1>0 DEF EventIds
  <2> QED BY <1>a, <2>1 DEF HistoryOK
<1>1. ~overrun /\ ~unrecorded
  <2>1. ASSUME NEW w \in Workers, Step(w) PROVE overrun' = overrun /\ unrecorded' = unrecorded
    BY <2>1 DEF Step, Upsert, AddType, Claim, ClaimRefused, LoadBack, ReadStart, SetCursor,
         EnterLoop, Reload, Fetch, Wait, Handle, Advance, Renew, Stop, Release, history
  <2>2. ASSUME NEW w \in Workers, Cancel(w) \/ Fail(w) \/ Crash(w)
        PROVE  overrun' = overrun /\ (unrecorded => unrecorded')
    <3>1. CASE Cancel(w) BY <3>1 DEF Cancel, history
    <3>2. CASE Fail(w) BY <3>2 DEF Fail, NoteUnrecorded
    <3>3. CASE Crash(w) BY <3>3 DEF Crash, NoteUnrecorded
    <3> QED BY <2>2, <3>1, <3>2, <3>3
  <2>3. ASSUME Pause \/ Resume \/ Expire
        PROVE  (overrun => overrun') /\ unrecorded' = unrecorded
    <3>1. CASE Expire BY <3>1 DEF Expire
    <3>2. CASE Pause \/ Resume
      <4>1. UNCHANGED history BY <3>2 DEF Pause, Resume
      <4> QED BY <4>1 DEF history
    <3> QED BY <2>3, <3>1, <3>2
  <2>4. ASSUME UNCHANGED history PROVE UNCHANGED <<overrun, unrecorded>> BY <2>4 DEF history
  <2>5. UNCHANGED vars => UNCHANGED history BY DEF vars
  <2> QED BY <2>1, <2>2, <2>3, <2>4, <2>5 DEF Next
<1>2. sub'.cursor >= sub.cursor BY <1>1, CursorGrows
<1>3. \A i \in handled : \/ i <= sub.cursor
                         \/ \E w \in Workers : pc[w] = "advance" /\ i \in batch[w]
  BY <1>1 DEF AcceptedInv
<1>4. \A i \in handled : i <= sub.cursor => i <= sub'.cursor BY <1>c, <1>d, <1>2
<1>5. ASSUME NEW w \in Workers, Step(w) \/ Cancel(w) \/ Fail(w) \/ Crash(w)
      PROVE  \A i \in handled' : \/ i <= sub'.cursor
                                 \/ \E v \in Workers : pc'[v] = "advance" /\ i \in batch'[v]
  <2>o. \A v \in Workers \ {w} : pc'[v] = pc[v] /\ batch'[v] = batch[v] BY <1>5, OthersKeep
  <2>1. CASE Handle(w)
    <3>1. /\ handled' = handled \cup batch[w]
          /\ pc'[w] = "advance" /\ batch'[w] = batch[w] /\ pc[w] = "handle"
      BY <1>a, <2>1 DEF Handle, Goto, LocalOK
    <3>2. \A v \in Workers : pc[v] = "advance" => v # w BY <3>1
    <3> QED BY <1>3, <1>4, <2>o, <3>1, <3>2
  <2>2. CASE Advance(w)
    <3>1. handled' = handled BY <2>2 DEF Advance, history
    <3>2. \A i \in batch[w] : i <= sub'.cursor
      <4>1. CASE batch[w] = {} BY <4>1
      <4>2. CASE batch[w] # {}
        <5>1. LastId(batch[w]) > view[w].cursor /\ \A i \in batch[w] : i <= LastId(batch[w])
          BY <4>2, LastIdIs
        <5>2. sub'.cursor = LastId(batch[w])
          BY <1>a, <2>2, <5>1 DEF Advance, AdvanceSubscriptionCursor, SubscriptionRow
        <5> QED BY <5>1, <5>2
      <4> QED BY <4>1, <4>2
    <3> QED BY <1>3, <1>4, <2>o, <3>1, <3>2
  <2>3. CASE ~Handle(w) /\ ~Advance(w)
    <3>1. handled' = handled
      BY <1>5, <2>3 DEF Step, Upsert, AddType, Claim, ClaimRefused, LoadBack, ReadStart, SetCursor,
         EnterLoop, Reload, Fetch, Wait, Renew, Stop, Release, Cancel, Fail, Crash,
         NoteUnrecorded, history
    <3>2. pc[w] = "advance" => pc'[w] = "advance" /\ batch'[w] = batch[w]
      BY <1>5, <2>3 DEF Step, Upsert, AddType, Claim, ClaimRefused, LoadBack, ReadStart, SetCursor,
         Reload, Fetch, Wait, Renew, Stop, Release, Cancel, Fail, Crash, NoteUnrecorded
    <3> QED BY <1>3, <1>4, <2>o, <3>1, <3>2
  <2> QED BY <2>1, <2>2, <2>3
<1>6. CASE \/ Pause \/ Resume \/ Expire \/ UNCHANGED vars
           \/ (LogNext /\ UNCHANGED <<sub, local, history, faults>>)
  <2>1. UNCHANGED <<handled, pc, batch>>
    BY <1>6 DEF Pause, Resume, Expire, vars, local, history
  <2> QED BY <1>3, <1>4, <2>1
<1> QED BY <1>5, <1>6 DEF Next

\* Together: nothing is accepted before the first step.
LEMMA InitDeliveredOnce == Init => DeliveredOnceInv
BY InitTypes, InitLease, InitBatch DEF DeliveredOnceInv

\* Each part is inductive given those before it.
LEMMA NextDeliveredOnce == DeliveredOnceInv /\ [Next]_vars => DeliveredOnceInv'
BY NextTypes, NextLease, NextBatch, NextCursor, NextAccepted DEF DeliveredOnceInv

\* No event is handed to a handler that one has accepted, unless a lease ran out
\* under its holder or a worker failed between the handler and the cursor.
THEOREM DeliveredOnce == Spec => []NoRedelivery
<1>1. DeliveredOnceInv => NoRedelivery
  <2> SUFFICES ASSUME DeliveredOnceInv, ~overrun, ~unrecorded,
                      NEW w \in Workers, pc[w] = "handle", NEW i \in batch[w] \cap handled
               PROVE  FALSE
    BY DEF NoRedelivery
  <2>0. MaxEventId \in Nat BY EventLogAssumption DEF EventLogAssumption
  <2>a. sub \in SubscriptionRow /\ LocalOK BY DEF DeliveredOnceInv, TypeInv
  <2>b. i \in Nat /\ sub.cursor \in Nat BY <2>0, <2>a DEF LocalOK, EventIds, SubscriptionRow
  <2>1. i > sub.cursor BY DEF DeliveredOnceInv, BatchInv, CursorInv
  <2>2. PICK v \in Workers : pc[v] = "advance" BY <2>b, <2>1 DEF DeliveredOnceInv, AcceptedInv
  <2>3. v = w BY <2>2 DEF DeliveredOnceInv, LeaseInv, Runs, Running
  <2> QED BY <2>2, <2>3
<1> QED BY <1>1, InitDeliveredOnce, NextDeliveredOnce, PTL DEF Spec

\* The stored cursor never moves back, unless a lease ran out under its holder.
THEOREM CursorMonotone == Spec => CursorNeverRegresses
<1>1. DeliveredOnceInv /\ [Next]_vars => overrun \/ sub'.cursor >= sub.cursor
  BY CursorGrows DEF DeliveredOnceInv
<1> QED BY <1>1, InitDeliveredOnce, NextDeliveredOnce, PTL DEF Spec, CursorNeverRegresses

-----------------------------------------------------------------------------
(* Filters.  The row's filter is whatever the last caller asked for.         *)

ColumnsAsked == {Columns(f) : f \in asked}
JoinTypesAsked == UNION {JoinTypes(f.types) : f \in asked}

\* The row, and the copies of it, hold what some caller asked for.
AskedInv ==
  /\ sub.exists => sub.columns \in ColumnsAsked
  /\ sub.types \subseteq JoinTypesAsked
  /\ \A w \in Workers : /\ pc[w] # "idle" => sub.exists
                        /\ todo[w] \subseteq JoinTypesAsked
                        /\ HasCopy(w) => view[w].columns \in ColumnsAsked

\* Nobody has asked for anything, and there is no row.
LEMMA InitAsked == Init => AskedInv
BY DEF Init, TableInit, AbsentRow, AskedInv, HasCopy, Running

\* What was asked for stays so, and only an upsert adds to it.
LEMMA AskedGrows ==
  ASSUME [Next]_vars
  PROVE  /\ asked \subseteq asked'
         /\ ColumnsAsked \subseteq ColumnsAsked' /\ JoinTypesAsked \subseteq JoinTypesAsked'
<1>1. asked \subseteq asked'
  <2>1. ASSUME NEW w \in Workers, Step(w) \/ Cancel(w) \/ Fail(w) \/ Crash(w)
        PROVE  asked \subseteq asked'
    BY <2>1 DEF Step, Upsert, AddType, Claim, ClaimRefused, LoadBack, ReadStart, SetCursor, EnterLoop,
                Reload, Fetch, Wait, Handle, Advance, Renew, Stop, Release, Cancel, Fail, Crash,
                NoteUnrecorded, history
  <2>2. CASE Pause \/ Resume \/ Expire BY <2>2 DEF Pause, Resume, Expire, history
  <2>3. CASE (LogNext /\ UNCHANGED <<sub, local, history, faults>>) \/ UNCHANGED vars
    BY <2>3 DEF vars, history
  <2> QED BY <2>1, <2>2, <2>3 DEF Next
<1> QED BY <1>1 DEF ColumnsAsked, JoinTypesAsked

\* An upsert and the loop over the event types write what their caller asked for, and
\* a copy is one of the row.
LEMMA NextAsked == TypeInv /\ AskedInv /\ [Next]_vars => AskedInv'
<1> SUFFICES ASSUME TypeInv, AskedInv, [Next]_vars PROVE AskedInv' OBVIOUS
<1>a. sub \in SubscriptionRow /\ LocalOK BY DEF TypeInv
<1>g. ColumnsAsked \subseteq ColumnsAsked' /\ JoinTypesAsked \subseteq JoinTypesAsked'
  BY AskedGrows
<1>1. ASSUME NEW w \in Workers, Step(w) \/ Cancel(w) \/ Fail(w) \/ Crash(w) PROVE AskedInv'
  <2>o. \A v \in Workers \ {w} : pc'[v] = pc[v] /\ todo'[v] = todo[v] /\ view'[v] = view[v]
    BY <1>1, OthersKeep
  <2>k. ASSUME sub'.exists, sub'.columns \in ColumnsAsked', sub'.types \subseteq JoinTypesAsked',
               todo'[w] \subseteq JoinTypesAsked',
               HasCopy(w)' => view'[w].columns \in ColumnsAsked'
        PROVE  AskedInv'
    BY <1>g, <2>k, <2>o DEF AskedInv, HasCopy
  <2>s. ASSUME pc[w] # "idle", sub'.exists = sub.exists, sub'.columns = sub.columns
        PROVE  sub'.exists /\ sub.columns \in ColumnsAsked /\ sub'.columns \in ColumnsAsked'
    BY <1>g, <2>s DEF AskedInv
  <2>1. CASE \/ ClaimRefused(w) \/ (Reload(w) /\ ~sub.active) \/ Stop(w) \/ Release(w)
             \/ Fail(w) \/ Crash(w)
    <3>1. pc'[w] \in {"idle", "release"} /\ todo'[w] = {} BY <2>1, Returns
    <3>2. /\ sub'.exists = sub.exists /\ sub'.columns = sub.columns /\ sub'.types = sub.types
      <4>1. CASE Release(w) BY <1>a, <4>1 DEF Release, ReleaseSubscription, SubscriptionRow
      <4>2. CASE ~Release(w) BY <2>1, <4>2, Returns
      <4> QED BY <4>1, <4>2
    <3>3. pc[w] # "idle" BY <2>1 DEF ClaimRefused, Reload, Stop, Release, Fail, Crash
    <3>4. ~HasCopy(w)' BY <3>1 DEF HasCopy, Running
    <3> QED BY <1>g, <2>k, <2>s, <3>1, <3>2, <3>3, <3>4 DEF AskedInv
  <2>2. CASE Upsert(w)
    <3>1. PICK c \in Calls : /\ UpsertSubscription(c) /\ asked' = asked \cup {c.filter}
                             /\ todo' = [todo EXCEPT ![w] = JoinTypes(c.filter.types)]
                             /\ Goto(w, IF JoinTypes(c.filter.types) = {} THEN "claim" ELSE "types")
      BY <2>2 DEF Upsert
    <3>2. sub'.exists /\ sub'.columns = Columns(c.filter) /\ sub'.types = sub.types
      BY <1>a, <3>1 DEF UpsertSubscription, SubscriptionRow
    <3>3. todo'[w] = JoinTypes(c.filter.types) /\ pc'[w] \in {"types", "claim"}
      BY <1>a, <3>1 DEF Goto, LocalOK
    <3>4. Columns(c.filter) \in ColumnsAsked' BY <3>1 DEF ColumnsAsked
    <3>5. JoinTypes(c.filter.types) \subseteq JoinTypesAsked' BY <3>1 DEF JoinTypesAsked
    <3>6. ~HasCopy(w)' BY <3>3 DEF HasCopy, Running
    <3> QED BY <1>g, <2>k, <3>2, <3>3, <3>4, <3>5, <3>6 DEF AskedInv
  <2>3. CASE AddType(w)
    <3>1. PICK t \in todo[w] : /\ AddSubscriptionEventType(t)
                               /\ todo' = [todo EXCEPT ![w] = @ \ {t}]
                               /\ Goto(w, IF todo[w] = {t} THEN "claim" ELSE "types")
      BY <2>3 DEF AddType
    <3>2. /\ sub'.exists = sub.exists /\ sub'.columns = sub.columns
          /\ sub'.types = sub.types \cup {t}
      BY <1>a, <3>1 DEF AddSubscriptionEventType, SubscriptionRow
    <3>3. todo'[w] \subseteq todo[w] /\ pc'[w] \in {"types", "claim"} /\ pc[w] # "idle"
      BY <1>a, <2>3, <3>1 DEF AddType, Goto, LocalOK
    <3>4. ~HasCopy(w)' BY <3>3 DEF HasCopy, Running
    <3>5. todo[w] \subseteq JoinTypesAsked' /\ sub.types \subseteq JoinTypesAsked'
      BY <1>g DEF AskedInv
    <3> QED BY <2>k, <2>s, <3>2, <3>3, <3>4, <3>5
  <2>4. CASE \/ Claim(w) \/ ReadStart(w) \/ SetCursor(w) \/ Fetch(w) \/ Wait(w)
             \/ Handle(w) \/ Advance(w) \/ Renew(w) \/ Cancel(w)
    <3>1. /\ sub'.exists = sub.exists /\ sub'.columns = sub.columns /\ sub'.types = sub.types
      BY <1>a, <2>4 DEF Claim, ReadStart, SetCursor, Fetch, Wait, Handle, Advance, Renew, Cancel,
         ClaimSubscription, RenewSubscription, AdvanceSubscriptionCursor, SubscriptionRow
    <3>2. pc[w] # "idle" /\ todo' = todo /\ view' = view
      BY <2>4 DEF Claim, ReadStart, SetCursor, Fetch, Wait, Handle, Advance, Renew, Cancel
    <3>3. HasCopy(w)' => HasCopy(w)
      BY <1>a, <2>4 DEF Claim, ReadStart, SetCursor, EnterLoop, Fetch, Wait, Handle, Advance,
         Renew, Cancel, Goto, HasCopy, Running, LocalOK
    <3> QED BY <1>g, <2>k, <2>s, <3>1, <3>2, <3>3 DEF AskedInv
  <2>5. CASE LoadBack(w) \/ (Reload(w) /\ sub.active)
    <3>1. sub' = sub /\ view'[w] = sub /\ todo' = todo /\ pc[w] # "idle"
      BY <1>a, <2>5 DEF LoadBack, Reload, CopyRow, LocalOK
    <3> QED BY <1>g, <2>k, <2>s, <3>1 DEF AskedInv
  <2> QED BY <1>1, <2>1, <2>2, <2>3, <2>4, <2>5 DEF Step
<1>2. CASE Pause \/ Resume \/ Expire
  <2>1. sub'.exists = sub.exists /\ sub'.columns = sub.columns /\ sub'.types = sub.types
    BY <1>a, <1>2 DEF Pause, Resume, Expire, SetSubscriptionActive, LeaseExpires, SubscriptionRow
  <2>2. UNCHANGED <<pc, todo, view>> BY <1>2 DEF Pause, Resume, Expire, local
  <2> QED BY <1>g, <2>1, <2>2 DEF AskedInv, HasCopy
<1>3. CASE (LogNext /\ UNCHANGED <<sub, local, history, faults>>) \/ UNCHANGED vars
  <2>1. UNCHANGED <<sub, pc, todo, view>> BY <1>3 DEF vars, local
  <2> QED BY <1>g, <2>1 DEF AskedInv, HasCopy
<1> QED BY <1>1, <1>2, <1>3 DEF Next

\* What a fetch finds was asked for: by the columns alone, by the join table, or by
\* columns without a type while the event types wait to be added to the join table.
LEMMA DueAsked ==
  ASSUME TypeInv, AskedInv, NEW w \in Workers, HasCopy(w), NEW i \in Due(w)
  PROVE  \E f \in asked, types \in TypesAsked : Wanted([f EXCEPT !.types = types], i)
<1>1. PICK f \in asked : view[w].columns = Columns(f) BY DEF AskedInv, ColumnsAsked
<1>2. Selects(Columns(f), sub.types, i) BY <1>1 DEF Due, EventsFor
<1>3. PICK c \in Calls : f = c.filter BY DEF TypeInv, HistoryOK
<1>4. f \in Filter BY <1>3, SubscriptionTableAssumption DEF SubscriptionTableAssumption
<1>5. /\ f.aggType = NoType \/ f.aggType = TypeOf[row[i].agg]
      /\ f.key = NoKey \/ f.key = keyOf[row[i].agg]
      /\ IF sub.types # {} THEN row[i].type \in sub.types
                           ELSE TypeColumn(f.types) \in {NoType, row[i].type}
  BY <1>2 DEF Selects, Columns
<1>6. \A types : types = {} \/ row[i].type \in types => Wanted([f EXCEPT !.types = types], i)
  BY <1>4, <1>5 DEF Filter, Wanted
<1>7. \A g \in asked : g.types \in TypesAsked BY DEF TypesAsked
<1>8. CASE sub.types # {}
  <2>1. PICK g \in asked : row[i].type \in JoinTypes(g.types)
    BY <1>5, <1>8 DEF AskedInv, JoinTypesAsked
  <2>2. row[i].type \in g.types BY <2>1 DEF JoinTypes
  <2> QED BY <1>6, <1>7, <2>2
<1>9. CASE sub.types = {} /\ JoinTypes(f.types) = {}
  <2>1. f.types = {} \/ row[i].type \in f.types BY <1>3, <1>5, <1>9, WhereTypesAre
  <2> QED BY <1>6, <1>7, <2>1
<1>10. CASE sub.types = {} /\ JoinTypes(f.types) # {}
  <2>1. {} \in TypesAsked BY <1>10 DEF TypesAsked
  <2> QED BY <1>6, <2>1
<1> QED BY <1>8, <1>9, <1>10

\* A step that is not a fetch adds nothing to a batch.
LEMMA OnlyFetchAdds ==
  ASSUME TypeInv, [Next]_vars, NEW w \in Workers, NEW i \in batch'[w] \ batch[w]
  PROVE  Fetch(w) /\ i \in Due(w)
<1>a. LocalOK BY DEF TypeInv
<1>1. ASSUME NEW v \in Workers, Step(v) \/ Cancel(v) \/ Fail(v) \/ Crash(v)
      PROVE  Fetch(w) /\ i \in Due(w)
  <2>1. v = w BY <1>1, OthersKeep
  <2>2. CASE Fetch(w) BY <1>a, <2>2 DEF Fetch, LocalOK
  <2>3. CASE \/ ClaimRefused(w) \/ (Reload(w) /\ ~sub.active) \/ Stop(w) \/ Release(w)
             \/ Fail(w) \/ Crash(w)
    BY <2>3, Returns
  <2>4. CASE \/ Upsert(w) \/ AddType(w) \/ Claim(w) \/ LoadBack(w) \/ ReadStart(w) \/ SetCursor(w)
             \/ (Reload(w) /\ sub.active) \/ Wait(w) \/ Handle(w) \/ Renew(w) \/ Cancel(w)
    BY <2>4 DEF Upsert, AddType, Claim, LoadBack, ReadStart, SetCursor, Reload, Wait, Handle, Renew,
                Cancel
  <2>5. CASE Advance(w) BY <1>a, <2>5 DEF Advance, LocalOK
  <2> QED BY <1>1, <2>1, <2>2, <2>3, <2>4, <2>5 DEF Step
<1>2. CASE \/ Pause \/ Resume \/ Expire \/ UNCHANGED vars
           \/ (LogNext /\ UNCHANGED <<sub, local, history, faults>>)
  BY <1>2 DEF Pause, Resume, Expire, vars, local
<1> QED BY <1>1, <1>2 DEF Next

\* Whoever rewrites the row while a worker runs, what the worker fetches for its handler
\* was asked for: its aggregate by one caller, its event type by one, maybe another.
THEOREM FilterRespected == Spec => OnlyWhatWasAsked
<1> DEFINE Inv == TypeInv /\ AskedInv
<1>1. Init => Inv BY InitTypes, InitAsked
<1>2. Inv /\ [Next]_vars => Inv' BY NextTypes, NextAsked
<1>3. Inv /\ [Next]_vars
        => \A w \in Workers : \A i \in batch'[w] \ batch[w] :
             \E f \in asked, types \in TypesAsked : Wanted([f EXCEPT !.types = types], i)
  <2> SUFFICES ASSUME Inv, [Next]_vars, NEW w \in Workers, NEW i \in batch'[w] \ batch[w]
               PROVE  \E f \in asked, types \in TypesAsked : Wanted([f EXCEPT !.types = types], i)
    OBVIOUS
  <2>1. Fetch(w) /\ i \in Due(w) BY OnlyFetchAdds
  <2>2. HasCopy(w) BY <2>1 DEF Fetch, HasCopy, Running
  <2> QED BY <2>1, <2>2, DueAsked
<1> QED BY <1>1, <1>2, <1>3, PTL DEF Spec, OnlyWhatWasAsked

-----------------------------------------------------------------------------
(* The join table.  It is filled under the workers of other callers, and a   *)
(* changed natural key shows at once in the view: what follows is for        *)
(* callers of one name that ask for the same event types where they ask for  *)
(* several, and for no key.                                                  *)

SameJoin ==
  \A c, d \in Calls : JoinTypes(c.filter.types) = JoinTypes(d.filter.types) /\ c.filter.key = NoKey

RowFilterOK(c) ==
  /\ sub.types \subseteq JoinTypes(c.filter.types)
  /\ first # -1 => sub.types = JoinTypes(c.filter.types)

WorkerFilterOK(w, c) ==
  /\ pc[w] \in {"claim"} \cup Running => sub.types = JoinTypes(c.filter.types)
  /\ pc[w] = "types" => /\ todo[w] \subseteq JoinTypes(c.filter.types)
                        /\ JoinTypes(c.filter.types) \subseteq sub.types \cup todo[w]

\* The join table is complete from the first claim on.
FilterInv == \A c \in Calls : RowFilterOK(c) /\ \A w \in Workers : WorkerFilterOK(w, c)

\* There is no row yet, and no position.
LEMMA InitFilter == Init => FilterInv
BY DEF Init, TableInit, AbsentRow, FilterInv, RowFilterOK, WorkerFilterOK, Running

\* A step that keeps the join table, or takes it closer to what the callers ask for.
LEMMA FilterKept ==
  ASSUME NEW c \in Calls,
         sub.types \subseteq sub'.types, sub'.types \subseteq JoinTypes(c.filter.types)
  PROVE  /\ RowFilterOK(c) /\ first' = first => RowFilterOK(c)'
         /\ \A v \in Workers :
              WorkerFilterOK(v, c) /\ pc'[v] = pc[v] /\ todo'[v] = todo[v] => WorkerFilterOK(v, c)'
BY DEF RowFilterOK, WorkerFilterOK

\* Only the loop over the event types changes the join table, and it takes it to what
\* the callers ask for.
LEMMA NextFilter == SameJoin /\ TypeInv /\ FilterInv /\ [Next]_vars => FilterInv'
<1> SUFFICES ASSUME SameJoin, TypeInv, FilterInv, [Next]_vars, NEW c \in Calls
             PROVE  RowFilterOK(c)' /\ \A v \in Workers : WorkerFilterOK(v, c)'
  BY DEF FilterInv
<1>a. sub \in SubscriptionRow /\ LocalOK BY DEF TypeInv
<1>b. RowFilterOK(c) /\ \A v \in Workers : WorkerFilterOK(v, c) BY DEF FilterInv
<1>c. sub.types \subseteq JoinTypes(c.filter.types) BY <1>b DEF RowFilterOK
<1>1. ASSUME NEW w \in Workers, Step(w) \/ Cancel(w) \/ Fail(w) \/ Crash(w)
      PROVE  RowFilterOK(c)' /\ \A v \in Workers : WorkerFilterOK(v, c)'
  <2>k. ASSUME sub.types \subseteq sub'.types, sub'.types \subseteq JoinTypes(c.filter.types),
               first' = first \/ RowFilterOK(c)', WorkerFilterOK(w, c)'
        PROVE  RowFilterOK(c)' /\ \A v \in Workers : WorkerFilterOK(v, c)'
    <3>1. \A v \in Workers \ {w} : pc'[v] = pc[v] /\ todo'[v] = todo[v] BY <1>1, OthersKeep
    <3> QED BY <1>b, <2>k, <3>1, FilterKept
  <2>1. CASE \/ ClaimRefused(w) \/ (Reload(w) /\ ~sub.active) \/ Stop(w) \/ Release(w)
             \/ Fail(w) \/ Crash(w)
    <3>1. /\ pc'[w] \in {"idle", "release"} /\ first' = first
          /\ pc'[w] = "release" => Runs(w)
      BY <2>1, Returns
    <3>2. sub'.types = sub.types
      <4>1. CASE Release(w) BY <1>a, <4>1 DEF Release, ReleaseSubscription, SubscriptionRow
      <4>2. CASE ~Release(w) BY <2>1, <4>2, Returns
      <4> QED BY <4>1, <4>2
    <3>3. WorkerFilterOK(w, c)' BY <1>b, <3>1, <3>2 DEF WorkerFilterOK, Runs, Running
    <3> QED BY <1>c, <2>k, <3>1, <3>2, <3>3
  <2>2. CASE Upsert(w)
    <3>1. PICK d \in Calls : /\ UpsertSubscription(d)
                             /\ todo' = [todo EXCEPT ![w] = JoinTypes(d.filter.types)]
                             /\ Goto(w, IF JoinTypes(d.filter.types) = {} THEN "claim" ELSE "types")
      BY <2>2 DEF Upsert
    <3>2. JoinTypes(d.filter.types) = JoinTypes(c.filter.types) BY DEF SameJoin
    <3>3. sub'.types = sub.types BY <1>a, <3>1 DEF UpsertSubscription, SubscriptionRow
    <3>4. /\ todo'[w] = JoinTypes(c.filter.types) /\ first' = first
          /\ pc'[w] = IF JoinTypes(c.filter.types) = {} THEN "claim" ELSE "types"
      BY <1>a, <2>2, <3>1, <3>2 DEF Upsert, Goto, LocalOK
    <3>5. WorkerFilterOK(w, c)' BY <1>c, <3>3, <3>4 DEF WorkerFilterOK, Running
    <3> QED BY <1>c, <2>k, <3>3, <3>4, <3>5
  <2>3. CASE AddType(w)
    <3>1. PICK t \in todo[w] : /\ AddSubscriptionEventType(t)
                               /\ todo' = [todo EXCEPT ![w] = @ \ {t}]
                               /\ Goto(w, IF todo[w] = {t} THEN "claim" ELSE "types")
      BY <2>3 DEF AddType
    <3>2. sub'.types = sub.types \cup {t}
      BY <1>a, <3>1 DEF AddSubscriptionEventType, SubscriptionRow
    <3>3. /\ todo'[w] = todo[w] \ {t} /\ first' = first
          /\ pc'[w] = IF todo[w] = {t} THEN "claim" ELSE "types"
      BY <1>a, <2>3, <3>1 DEF AddType, Goto, LocalOK, history
    <3>4. /\ pc[w] = "types" /\ todo[w] \subseteq JoinTypes(c.filter.types)
          /\ JoinTypes(c.filter.types) \subseteq sub.types \cup todo[w]
      BY <1>b, <2>3 DEF AddType, WorkerFilterOK
    <3>5. sub'.types \subseteq JoinTypes(c.filter.types) BY <1>c, <3>2, <3>4
    <3>6. /\ pc'[w] = "claim" => JoinTypes(c.filter.types) \subseteq sub'.types
          /\ JoinTypes(c.filter.types) \subseteq sub'.types \cup todo'[w]
      BY <3>2, <3>3, <3>4
    <3>7. WorkerFilterOK(w, c)' BY <3>3, <3>4, <3>5, <3>6 DEF WorkerFilterOK, Running
    <3> QED BY <2>k, <3>2, <3>3, <3>5, <3>7
  <2>4. CASE \/ Claim(w) \/ LoadBack(w) \/ ReadStart(w) \/ SetCursor(w) \/ (Reload(w) /\ sub.active)
             \/ Fetch(w) \/ Wait(w) \/ Handle(w) \/ Advance(w) \/ Renew(w)
    <3>1. sub'.types = sub.types
      BY <1>a, <2>4 DEF Claim, LoadBack, ReadStart, SetCursor, Reload, Fetch, Wait, Handle, Advance,
         Renew, ClaimSubscription, RenewSubscription, AdvanceSubscriptionCursor, SubscriptionRow
    <3>2. pc[w] \in {"claim"} \cup Running /\ pc'[w] \in Running
      BY <1>a, <2>4 DEF Claim, LoadBack, ReadStart, SetCursor, EnterLoop, Reload, Fetch, Wait, Handle,
         Advance, Renew, Goto, LocalOK, Running
    <3>3. sub.types = JoinTypes(c.filter.types) BY <1>b, <3>2 DEF WorkerFilterOK
    <3>4. RowFilterOK(c)' BY <3>1, <3>3 DEF RowFilterOK
    <3>5. WorkerFilterOK(w, c)' BY <3>1, <3>2, <3>3 DEF WorkerFilterOK, Running
    <3> QED BY <2>k, <3>1, <3>3, <3>4, <3>5
  <2>5. CASE Cancel(w)
    <3>1. UNCHANGED <<sub, pc, todo, first>> BY <2>5 DEF Cancel, history
    <3> QED BY <1>b, <1>c, <3>1, FilterKept
  <2> QED BY <1>1, <2>1, <2>2, <2>3, <2>4, <2>5 DEF Step
<1>2. CASE Pause \/ Resume \/ Expire
  <2>1. sub'.types = sub.types
    BY <1>a, <1>2 DEF Pause, Resume, Expire, SetSubscriptionActive, LeaseExpires, SubscriptionRow
  <2>2. UNCHANGED <<pc, todo, first>> BY <1>2 DEF Pause, Resume, Expire, local, history
  <2> QED BY <1>b, <1>c, <2>1, <2>2, FilterKept
<1>3. CASE (LogNext /\ UNCHANGED <<sub, local, history, faults>>) \/ UNCHANGED vars
  <2>1. UNCHANGED <<sub, pc, todo, first>> BY <1>3 DEF vars, local, history
  <2> QED BY <1>b, <1>c, <2>1, FilterKept
<1> QED BY <1>1, <1>2, <1>3 DEF Next

-----------------------------------------------------------------------------
(* Delivery.  What follows is also for callers that pass the same start, not  *)
(* the end of the log, and for writers that commit in the order of their ids. *)

SameStart == \A c, d \in Calls : c.start = d.start /\ c.start.kind # "end"

\* The row and the workers' copies have the callers' start.
StartInv ==
  /\ first # -1 => \E c \in Calls : sub.start = c.start
  /\ \A w \in Workers : /\ pc[w] # "idle" => sub.start = call[w].start
                        /\ HasCopy(w) => view[w].start = call[w].start

\* No event that is committed later is owed at or before position p.
Reached(p) ==
  \/ p = 0
  \/ \E j \in visible : p <= j
  \/ sub.start.kind # "timestamp" /\ p <= first

\* What is owed up to position p is accepted, or among the ids in more.
Covers(p, more) == Reached(p) /\ \A i \in EventIds : Owed(i) /\ i <= p => i \in handled \cup more

Looping == {"poll", "fetch", "wait", "handle", "advance", "renew"}

\* The position that a worker is about to store is the one the start asks for.
GoalOK(w) ==
  /\ pc[w] = "init" => sub.start.kind = "timestamp"
  /\ pc[w] = "set" =>
       \/ sub.start.kind = "event_id" /\ goal[w] = sub.start.id
       \/ /\ sub.start.kind = "timestamp"
          /\ goal[w] + 1 \in visible
          /\ \A j \in visible : j <= goal[w] => ~(row[j].time >= sub.start.time)

WorkerDelivers(w) ==
  /\ first = -1 => pc[w] \notin Looping
  /\ GoalOK(w)
  /\ pc[w] = "fetch" => Covers(view[w].cursor, {})
  /\ pc[w] = "handle" => Covers(Highest(batch[w]), batch[w])
  /\ pc[w] = "advance" => Covers(Highest(batch[w]), {})

\* Every position that is stored, or that a worker holds and may store however
\* late, is covered.
DeliveryInv ==
  /\ first = -1 => sub.cursor = 0
  /\ first # -1 /\ sub.start.kind = "event_id" => first = sub.start.id
  /\ Covers(sub.cursor, {})
  /\ \A w \in Workers : WorkerDelivers(w)

\* Nothing is owed before the row exists.
LEMMA InitDelivery == Init => StartInv /\ DeliveryInv
BY DEF Init, TableInit, AbsentRow, StartInv, DeliveryInv, WorkerDelivers, GoalOK, Covers, Reached,
       Owed, Looping, HasCopy, Running

\* An upsert leaves the start that all callers pass.
LEMMA NextStart == SameStart /\ TypeInv /\ StartInv /\ [Next]_vars => StartInv'
<1> SUFFICES ASSUME SameStart, TypeInv, StartInv, [Next]_vars PROVE StartInv' OBVIOUS
<1>a. sub \in SubscriptionRow /\ LocalOK BY DEF TypeInv
<1>b. \A v \in Workers : pc[v] # "idle" => call[v] \in Calls BY <1>a DEF LocalOK, ArgumentsOK
<1>k. ASSUME sub'.start = sub.start, first' = first, UNCHANGED <<pc, call, view>> PROVE StartInv'
  BY <1>k DEF StartInv, HasCopy
<1>1. ASSUME NEW w \in Workers, Step(w) \/ Cancel(w) \/ Fail(w) \/ Crash(w) PROVE StartInv'
  <2>o. \A v \in Workers \ {w} : pc'[v] = pc[v] /\ call'[v] = call[v] /\ view'[v] = view[v]
    BY <1>1, OthersKeep
  <2>k. ASSUME sub'.start = sub.start, first' = first \/ pc[w] # "idle",
               pc'[w] # "idle" => pc[w] # "idle" /\ call'[w] = call[w],
               HasCopy(w)' => view'[w].start = sub.start
        PROVE  StartInv'
    <3>1. \A v \in Workers : /\ pc'[v] # "idle" => sub'.start = call'[v].start
                             /\ HasCopy(v)' => view'[v].start = call'[v].start
      <4>1. ASSUME NEW v \in Workers, v # w
            PROVE  /\ pc'[v] # "idle" => sub'.start = call'[v].start
                   /\ HasCopy(v)' => view'[v].start = call'[v].start
        BY <2>k, <2>o, <4>1 DEF StartInv, HasCopy
      <4>2. /\ pc'[w] # "idle" => sub'.start = call'[w].start
            /\ HasCopy(w)' => view'[w].start = call'[w].start
        BY <2>k DEF StartInv, HasCopy, Running
      <4> QED BY <4>1, <4>2
    <3>2. first' # -1 => \E c \in Calls : sub'.start = c.start
      <4>1. CASE first' = first BY <2>k, <4>1 DEF StartInv
      <4>2. CASE pc[w] # "idle" BY <1>b, <2>k, <4>2 DEF StartInv
      <4> QED BY <2>k, <4>1, <4>2
    <3> QED BY <3>1, <3>2 DEF StartInv
  <2>1. CASE \/ ClaimRefused(w) \/ (Reload(w) /\ ~sub.active) \/ Stop(w) \/ Release(w)
             \/ Fail(w) \/ Crash(w)
    <3>1. /\ pc'[w] \in {"idle", "release"} /\ first' = first
          /\ pc'[w] = "release" => Runs(w) /\ call'[w] = call[w]
      BY <2>1, Returns
    <3>2. sub'.start = sub.start
      <4>1. CASE Release(w) BY <1>a, <4>1 DEF Release, ReleaseSubscription, SubscriptionRow
      <4>2. CASE ~Release(w) BY <2>1, <4>2, Returns
      <4> QED BY <4>1, <4>2
    <3>3. ~HasCopy(w)' BY <3>1 DEF HasCopy, Running
    <3>4. pc'[w] # "idle" => pc[w] # "idle" /\ call'[w] = call[w] BY <3>1 DEF Runs, Running
    <3> QED BY <2>k, <3>1, <3>2, <3>3, <3>4
  <2>2. CASE Upsert(w)
    <3>1. PICK c \in Calls : UpsertSubscription(c) /\ call' = [call EXCEPT ![w] = c]
      BY <2>2 DEF Upsert
    <3>2. sub'.start = c.start BY <1>a, <3>1 DEF UpsertSubscription, SubscriptionRow
    <3>3. \A d \in Calls : d.start = c.start BY DEF SameStart
    <3>4. first' = first /\ call'[w] = c /\ pc'[w] \in {"types", "claim"}
      BY <1>a, <2>2, <3>1 DEF Upsert, Goto, LocalOK, history
    <3>5. ~HasCopy(w)' BY <3>4 DEF HasCopy, Running
    <3>6. \A v \in Workers \ {w} : /\ pc'[v] # "idle" => sub'.start = call'[v].start
                                   /\ HasCopy(v)' => view'[v].start = call'[v].start
      BY <1>b, <2>o, <3>2, <3>3 DEF StartInv, HasCopy
    <3> QED BY <3>2, <3>3, <3>4, <3>5, <3>6 DEF StartInv
  <2>3. CASE \/ AddType(w) \/ Claim(w) \/ ReadStart(w) \/ SetCursor(w) \/ Fetch(w) \/ Wait(w)
             \/ Handle(w) \/ Advance(w) \/ Renew(w) \/ Cancel(w)
    <3>1. sub'.start = sub.start
      BY <1>a, <2>3 DEF AddType, Claim, ReadStart, SetCursor, Fetch, Wait, Handle, Advance, Renew,
         Cancel, AddSubscriptionEventType, ClaimSubscription, RenewSubscription,
         AdvanceSubscriptionCursor, SubscriptionRow
    <3>2. pc[w] # "idle" /\ call' = call /\ view' = view
      BY <2>3 DEF AddType, Claim, ReadStart, SetCursor, Fetch, Wait, Handle, Advance, Renew, Cancel
    <3>3. HasCopy(w)' => HasCopy(w)
      BY <1>a, <2>3 DEF AddType, Claim, ReadStart, SetCursor, EnterLoop, Fetch, Wait, Handle, Advance,
         Renew, Cancel, Goto, HasCopy, Running, LocalOK
    <3>4. HasCopy(w)' => view'[w].start = sub.start BY <3>2, <3>3 DEF StartInv
    <3> QED BY <2>k, <3>1, <3>2, <3>4
  <2>4. CASE LoadBack(w) \/ (Reload(w) /\ sub.active)
    <3>1. sub' = sub /\ view'[w] = sub /\ call' = call /\ pc[w] # "idle"
      BY <1>a, <2>4 DEF LoadBack, Reload, CopyRow, LocalOK
    <3> QED BY <2>k, <3>1
  <2> QED BY <1>1, <2>1, <2>2, <2>3, <2>4 DEF Step
<1>2. CASE Pause \/ Resume \/ Expire
  <2>1. sub'.start = sub.start
    BY <1>a, <1>2 DEF Pause, Resume, Expire, SetSubscriptionActive, LeaseExpires, SubscriptionRow
  <2>2. UNCHANGED local /\ first' = first BY <1>2 DEF Pause, Resume, Expire, history
  <2> QED BY <1>k, <2>1, <2>2 DEF local
<1>3. CASE (LogNext /\ UNCHANGED <<sub, local, history, faults>>) \/ UNCHANGED vars
  <2>1. UNCHANGED <<sub, local, history>> BY <1>3 DEF vars
  <2> QED BY <1>k, <2>1 DEF local, history
<1> QED BY <1>1, <1>2, <1>3 DEF Next

\* What every step does to the log and to the history.
LogExtends ==
  /\ visible \subseteq visible' /\ visible' \subseteq EventIds
  /\ \A i \in visible : row'[i] = row[i]
  /\ \A i \in visible' \ visible, j \in visible : j < i

\* What every step keeps where writers take turns: the log grows at its end, accepted
\* events stay accepted, and a known first position stays.
LEMMA Extends ==
  ASSUME SerialWriters, TypeInv, [Next]_vars
  PROVE  /\ LogExtends /\ handled \subseteq handled'
         /\ first # -1 => first' = first
         /\ first' # first => \E w \in Workers : LoadBack(w) \/ ReadStart(w) \/ SetCursor(w)
<1>a. LogInv /\ TypeInv' BY NextTypes DEF TypeInv
<1>b. visible \subseteq EventIds /\ visible' \subseteq EventIds BY <1>a DEF TypeInv, LogInv, LogTypeOK
<1>k. UNCHANGED logVars => LogExtends BY <1>b DEF logVars, LogExtends
<1>h. UNCHANGED history => handled \subseteq handled' /\ first' = first BY DEF history
<1>1. ASSUME NEW w \in Workers, Step(w) \/ Cancel(w) \/ Fail(w) \/ Crash(w)
      PROVE  /\ UNCHANGED logVars /\ handled \subseteq handled'
             /\ first # -1 => first' = first
             /\ first' # first => LoadBack(w) \/ ReadStart(w) \/ SetCursor(w)
  <2>1. CASE LoadBack(w) \/ ReadStart(w) \/ SetCursor(w)
    <3>1. UNCHANGED history \/ \E c : EnterLoop(w, c)
      BY <2>1 DEF LoadBack, ReadStart, SetCursor
    <3>2. (\E c : EnterLoop(w, c)) => handled' = handled /\ (first # -1 => first' = first)
      BY DEF EnterLoop
    <3>3. UNCHANGED logVars BY <2>1 DEF LoadBack, ReadStart, SetCursor
    <3> QED BY <1>h, <2>1, <3>1, <3>2, <3>3
  <2>2. CASE \/ AddType(w) \/ Claim(w) \/ ClaimRefused(w) \/ Reload(w) \/ Fetch(w)
             \/ Wait(w) \/ Advance(w) \/ Renew(w) \/ Stop(w) \/ Release(w) \/ Cancel(w)
    <3>1. UNCHANGED logVars /\ UNCHANGED history
      BY <2>2 DEF AddType, Claim, ClaimRefused, Reload, Fetch, Wait, Advance, Renew, Stop,
                  Release, Cancel
    <3> QED BY <1>h, <3>1
  <2>3. CASE Upsert(w) \/ Handle(w) \/ Fail(w) \/ Crash(w)
    BY <2>3 DEF Upsert, Handle, Fail, Crash, NoteUnrecorded
  <2> QED BY <1>1, <2>1, <2>2, <2>3 DEF Step
<1>2. CASE Pause \/ Resume \/ Expire
  <2>1. UNCHANGED logVars /\ handled' = handled /\ first' = first
    BY <1>2, <1>h DEF Pause, Resume, Expire, history
  <2> QED BY <1>k, <2>1
<1>3. CASE LogNext /\ UNCHANGED <<sub, local, history, faults>>
  <2>1. LogExtends BY <1>3, <1>a, <1>b, LogStep, LogGrowsUp DEF LogExtends
  <2> QED BY <1>3, <1>h, <2>1
<1>4. CASE UNCHANGED vars
  <2>1. UNCHANGED logVars /\ UNCHANGED history BY <1>4 DEF vars
  <2> QED BY <1>k, <1>h, <2>1
<1> QED BY <1>1, <1>2, <1>3, <1>4, <1>k DEF Next

\* A covered position stays covered: what is committed later is owed after it.
LEMMA CoversKept ==
  ASSUME TypeInv, LogExtends, handled \subseteq handled',
         first # -1, first' = first, sub'.start = sub.start,
         asked \subseteq asked', \A f \in asked : f.key = NoKey,
         NEW p \in 0 .. MaxEventId, NEW more, Covers(p, more)
  PROVE  Covers(p, more)'
<1>0. MaxEventId \in Nat BY EventLogAssumption DEF EventLogAssumption
<1>a. first \in Int /\ \A i \in EventIds : i \in Int /\ i > 0
  BY <1>0 DEF EventIds, TypeInv, HistoryOK
<1>1. Reached(p)' BY DEF Covers, Reached, LogExtends
<1>2. ASSUME NEW i \in EventIds, Owed(i)', i <= p PROVE i \in handled' \cup more
  <2>1. i \in visible' /\ StartedBefore(i)' /\ \A f \in asked' : Wanted(f, i)'
    BY <1>2 DEF Owed
  <2>2. CASE i \in visible
    <3>1. row'[i] = row[i] BY <2>2 DEF LogExtends
    <3>2. \A f \in asked : Wanted(f, i) BY <2>1, <3>1 DEF Wanted
    <3>3. StartedBefore(i)
      <4>1. CASE sub.start.kind = "timestamp"
        <5>1. PICK j \in visible' : j <= i /\ row'[j].time >= sub.start.time
          BY <2>1, <4>1 DEF StartedBefore
        <5>2. j \in Int /\ i \in Int BY <1>a, <5>1 DEF LogExtends
        <5>3. j \in visible BY <2>2, <5>1, <5>2 DEF LogExtends
        <5>4. row'[j] = row[j] BY <5>3 DEF LogExtends
        <5> QED BY <4>1, <5>1, <5>3, <5>4 DEF StartedBefore
      <4>2. CASE sub.start.kind # "timestamp" BY <2>1, <4>2 DEF StartedBefore
      <4> QED BY <4>1, <4>2
    <3>4. Owed(i) BY <2>2, <3>2, <3>3 DEF Owed
    <3> QED BY <1>2, <3>4 DEF Covers
  <2>3. CASE i \notin visible
    <3>1. \A j \in visible : j < i BY <2>1, <2>3 DEF LogExtends
    <3>2. \A j \in visible : j \in Int BY <1>a DEF TypeInv, LogInv, LogTypeOK
    <3>3. ~(\E j \in visible : p <= j) BY <1>2, <1>a, <3>1, <3>2
    <3>4. p # 0 BY <1>2, <1>a
    <3>5. sub.start.kind # "timestamp" /\ p <= first BY <3>3, <3>4 DEF Covers, Reached
    <3>6. first < i BY <2>1, <3>5 DEF StartedBefore
    <3> QED BY <1>2, <1>a, <3>5, <3>6
  <2> QED BY <2>2, <2>3
<1> QED BY <1>1, <1>2 DEF Covers

\* The position before all events is covered.
LEMMA CoversZero == ASSUME NEW more PROVE Covers(0, more) /\ Covers(0, more)'
<1>1. \A i \in EventIds : ~(i <= 0) BY EventLogAssumption DEF EventLogAssumption, EventIds
<1> QED BY <1>1 DEF Covers, Reached

\* A batch holds everything that is owed between the cursor and its last event.
LEMMA FetchCovers ==
  ASSUME TypeInv, AskedInv, NEW w \in Workers, HasCopy(w), Covers(view[w].cursor, {}), Due(w) # {},
         \A c \in Calls : sub.types = JoinTypes(c.filter.types)
  PROVE  Covers(Highest(Due(w)), Due(w))
<1> DEFINE later == {i \in visible : i > view[w].cursor /\ Selects(view[w].columns, sub.types, i)}
           h == Highest(Due(w))
<1>0. MaxEventId \in Nat BY EventLogAssumption DEF EventLogAssumption
<1>a. visible \in SUBSET EventIds BY DEF TypeInv, LogInv, LogTypeOK
<1>b. \A i \in EventIds : i \in Nat BY <1>0 DEF EventIds
<1>c. view[w].cursor \in Nat BY <1>0 DEF TypeInv, LocalOK, ArgumentsOK, SubscriptionRow
<1>d. PICK f \in asked : view[w].columns = Columns(f) BY DEF AskedInv, ColumnsAsked
<1>e. PICK c \in Calls : f = c.filter BY DEF TypeInv, HistoryOK
<1>1. h \in later /\ \A i \in later : i <= h => i \in Due(w) BY <1>a, EventsForIs DEF Due
<1>2. Reached(h) BY <1>a, <1>b, <1>1 DEF Reached
<1>3. ASSUME NEW i \in EventIds, Owed(i), i <= h PROVE i \in handled \cup Due(w)
  <2>1. CASE i <= view[w].cursor BY <1>3, <2>1 DEF Covers
  <2>2. CASE i > view[w].cursor
    <3>1. i \in visible /\ Wanted(f, i) BY <1>3 DEF Owed
    <3>2. Selects(view[w].columns, sub.types, i) BY <1>d, <1>e, <3>1, SelectsWanted
    <3>3. i \in later BY <2>2, <3>1, <3>2
    <3> QED BY <1>1, <1>3, <3>3
  <2> QED BY <1>3, <1>b, <1>c, <2>1, <2>2
<1> QED BY <1>2, <1>3 DEF Covers

SameCalls == SerialWriters /\ SameJoin /\ SameStart

CallsInv == TypeInv /\ AskedInv /\ FilterInv /\ StartInv

\* As long as a position is known, the row's start is what the callers ask for; before
\* that, it changes only while nobody is in RunSubscription.
LEMMA RowSteady ==
  ASSUME SameCalls, CallsInv, CallsInv', first # -1 => first' = first
  PROVE  /\ first # -1 => sub'.start = sub.start
         /\ \A v \in Workers : pc[v] # "idle" /\ pc'[v] # "idle" => sub'.start = sub.start
<1>1. ASSUME first # -1 PROVE sub'.start = sub.start
  <2>1. \E c \in Calls : sub.start = c.start BY <1>1 DEF CallsInv, StartInv
  <2>2. \E d \in Calls : sub'.start = d.start BY <1>1 DEF CallsInv, StartInv
  <2> QED BY <2>1, <2>2 DEF SameCalls, SameStart
<1>2. ASSUME NEW v \in Workers, pc[v] # "idle", pc'[v] # "idle" PROVE sub'.start = sub.start
  <2>1. call[v] \in Calls /\ sub.start = call[v].start
    BY <1>2 DEF CallsInv, TypeInv, LocalOK, ArgumentsOK, StartInv
  <2>2. call'[v] \in Calls /\ sub'.start = call'[v].start
    BY <1>2 DEF CallsInv, TypeInv, LocalOK, ArgumentsOK, StartInv
  <2> QED BY <2>1, <2>2 DEF SameCalls, SameStart
<1> QED BY <1>1, <1>2

\* The positions that a worker holds stay covered under the steps of others.
LEMMA WorkerKept ==
  ASSUME TypeInv, LogExtends, handled \subseteq handled',
         NEW v \in Workers, WorkerDelivers(v),
         pc'[v] = pc[v], view'[v] = view[v], batch'[v] = batch[v], goal'[v] = goal[v],
         first # -1 => first' = first, first' # -1 \/ first = -1,
         pc[v] \in {"init", "set"} => sub'.start = sub.start,
         first # -1 => sub'.start = sub.start,
         asked \subseteq asked', \A f \in asked : f.key = NoKey
  PROVE  WorkerDelivers(v)'
<1>0. MaxEventId \in Nat BY EventLogAssumption DEF EventLogAssumption
<1>a. LogInv /\ LocalOK BY DEF TypeInv
<1>b. first = -1 => pc[v] \notin Looping BY DEF WorkerDelivers
<1>1. GoalOK(v)'
  <2> SUFFICES ASSUME pc[v] \in {"init", "set"} PROVE GoalOK(v)' BY DEF GoalOK
  <2>1. sub'.start = sub.start /\ GoalOK(v) BY DEF WorkerDelivers
  <2>2. CASE pc[v] = "init" \/ sub.start.kind # "timestamp"
    <3>1. /\ pc[v] = "init" => sub'.start.kind = "timestamp"
          /\ pc[v] = "set" => sub'.start.kind = "event_id" /\ goal'[v] = sub'.start.id
      BY <2>1, <2>2 DEF GoalOK
    <3> QED BY <3>1 DEF GoalOK
  <2>3. CASE pc[v] = "set" /\ sub.start.kind = "timestamp"
    <3>1. /\ goal[v] + 1 \in visible
          /\ \A j \in visible : j <= goal[v] => ~(row[j].time >= sub.start.time)
      BY <2>1, <2>3 DEF GoalOK
    <3>2. ASSUME NEW j \in visible', j <= goal[v] PROVE ~(row'[j].time >= sub.start.time)
      <4>1. j \in Int /\ goal[v] \in Int
        <5>1. j \in EventIds BY DEF LogExtends
        <5>2. goal[v] \in 0 .. MaxEventId BY <1>a DEF LocalOK
        <5> QED BY <1>0, <5>1, <5>2 DEF EventIds
      <4>2. j \in visible BY <3>1, <3>2, <4>1 DEF LogExtends
      <4> QED BY <3>1, <3>2, <4>2 DEF LogExtends
    <3>3. /\ sub'.start.kind = "timestamp" /\ goal'[v] + 1 \in visible'
          /\ \A j \in visible' : j <= goal'[v] => ~(row'[j].time >= sub'.start.time)
      BY <2>1, <2>3, <3>1, <3>2 DEF LogExtends
    <3>4. pc'[v] # "init" BY <2>3
    <3> QED BY <3>3, <3>4 DEF GoalOK
  <2> QED BY <2>2, <2>3
<1>2. ASSUME pc[v] = "fetch" PROVE Covers(view[v].cursor, {})'
  <2>1. view[v] \in SubscriptionRow BY <1>2, <1>a DEF LocalOK, ArgumentsOK, HasCopy, Running
  <2>2. view[v].cursor \in 0 .. MaxEventId BY <2>1 DEF SubscriptionRow
  <2>3. PICK p \in 0 .. MaxEventId : p = view[v].cursor BY <2>2
  <2>4. Covers(p, {}) /\ first # -1 BY <1>2, <1>b, <2>3 DEF WorkerDelivers, Looping
  <2>5. Covers(p, {})' BY <2>4, CoversKept
  <2> QED BY <2>3, <2>5
<1>3. ASSUME pc[v] = "handle" PROVE Covers(Highest(batch[v]), batch[v])'
  <2>1. Highest(batch[v]) \in 0 .. MaxEventId BY <1>a, HighestType DEF LocalOK
  <2>2. PICK p \in 0 .. MaxEventId, more \in SUBSET EventIds : p = Highest(more) /\ more = batch[v]
    BY <1>a, <2>1 DEF LocalOK
  <2>3. Covers(p, more) /\ first # -1 BY <1>3, <1>b, <2>2 DEF WorkerDelivers, Looping
  <2>4. Covers(p, more)' BY <2>3, CoversKept
  <2> QED BY <2>2, <2>4
<1>4. ASSUME pc[v] = "advance" PROVE Covers(Highest(batch[v]), {})'
  <2>1. Highest(batch[v]) \in 0 .. MaxEventId BY <1>a, HighestType DEF LocalOK
  <2>2. PICK p \in 0 .. MaxEventId, more \in SUBSET EventIds : p = Highest(more) /\ more = batch[v]
    BY <1>a, <2>1 DEF LocalOK
  <2>3. Covers(p, {}) /\ first # -1 BY <1>4, <1>b, <2>2 DEF WorkerDelivers, Looping
  <2>4. Covers(p, {})' BY <2>3, CoversKept
  <2> QED BY <2>2, <2>4
<1>5. first' = -1 => pc'[v] \notin Looping BY <1>b
<1> QED BY <1>1, <1>2, <1>3, <1>4, <1>5 DEF WorkerDelivers

\* The position that is stored first is the one the start asks for.
LEMMA GoalCovered ==
  ASSUME TypeInv, DeliveryInv, NEW w \in Workers, SetCursor(w), sub'.start = sub.start,
         NEW q \in 0 .. MaxEventId, q = goal[w]
  PROVE  /\ Covers(q, {})'
         /\ sub.start.kind = "event_id" => first' = sub.start.id
<1>0. MaxEventId \in Nat BY EventLogAssumption DEF EventLogAssumption
<1>a. GoalOK(w) /\ pc[w] = "set" BY DEF DeliveryInv, WorkerDelivers, SetCursor
<1>b. \A i \in EventIds : i \in Nat /\ i > 0 BY <1>0 DEF EventIds
<1>c. first' = IF first = -1 THEN q ELSE first BY DEF SetCursor, EnterLoop
<1>d. visible' = visible /\ row' = row BY DEF SetCursor, logVars
<1>e. visible \subseteq EventIds BY DEF TypeInv, LogInv, LogTypeOK
<1>1. CASE sub.start.kind = "event_id"
  <2>1. q = sub.start.id BY <1>a, <1>1 DEF GoalOK
  <2>2. first' = q BY <1>1, <1>c, <2>1 DEF DeliveryInv
  <2>3. Reached(q)' BY <1>0, <1>1, <2>2 DEF Reached
  <2>4. ASSUME NEW i \in EventIds, Owed(i)', i <= q PROVE FALSE
    <3>1. q < i BY <1>1, <2>2, <2>4 DEF Owed, StartedBefore
    <3> QED BY <1>0, <1>b, <2>4, <3>1
  <2> QED BY <2>1, <2>2, <2>3, <2>4 DEF Covers
<1>2. CASE sub.start.kind # "event_id"
  <2>1. /\ sub.start.kind = "timestamp" /\ q + 1 \in visible
        /\ \A j \in visible : j <= q => ~(row[j].time >= sub.start.time)
    BY <1>a, <1>2 DEF GoalOK
  <2>2. Reached(q)' BY <1>0, <1>d, <2>1 DEF Reached
  <2>3. ASSUME NEW i \in EventIds, Owed(i)', i <= q PROVE FALSE
    <3>1. PICK j \in visible' : j <= i /\ row'[j].time >= sub'.start.time
      BY <2>1, <2>3 DEF Owed, StartedBefore
    <3>2. j \in Nat /\ i \in Nat BY <1>b, <1>d, <1>e, <3>1
    <3> QED BY <1>0, <1>d, <2>1, <2>3, <3>1, <3>2
  <2> QED BY <1>2, <2>2, <2>3 DEF Covers
<1> QED BY <1>1, <1>2

\* Every position that a step stores is covered.
LEMMA NextDelivery ==
  ASSUME SameCalls, CallsInv, CallsInv', DeliveryInv, [Next]_vars
  PROVE  DeliveryInv'
<1>0. MaxEventId \in Nat BY EventLogAssumption DEF EventLogAssumption
<1>a. TypeInv /\ TypeInv' /\ sub \in SubscriptionRow /\ LocalOK /\ HistoryOK
  BY DEF CallsInv, TypeInv
<1>b. /\ LogExtends /\ handled \subseteq handled' /\ (first # -1 => first' = first)
      /\ first' # first => \E w \in Workers : LoadBack(w) \/ ReadStart(w) \/ SetCursor(w)
  BY <1>a, Extends DEF SameCalls
<1>c. /\ first # -1 => sub'.start = sub.start
      /\ \A v \in Workers : pc[v] # "idle" /\ pc'[v] # "idle" => sub'.start = sub.start
  BY <1>b, RowSteady
<1>s. asked \subseteq asked' /\ \A f \in asked : f.key = NoKey
  BY <1>a, AskedGrows DEF SameCalls, SameJoin, HistoryOK
<1>d. ASSUME first # -1, NEW p \in 0 .. MaxEventId, NEW more, Covers(p, more)
      PROVE  Covers(p, more)'
  BY <1>a, <1>b, <1>c, <1>d, <1>s, CoversKept
<1>e. ASSUME NEW v \in Workers, WorkerDelivers(v),
             pc'[v] = pc[v], view'[v] = view[v], batch'[v] = batch[v], goal'[v] = goal[v]
      PROVE  WorkerDelivers(v)'
  <2>1. pc[v] \in {"init", "set"} => sub'.start = sub.start BY <1>c, <1>e
  <2>2. first' # -1 \/ first = -1 BY <1>b
  <2> QED BY <1>a, <1>b, <1>c, <1>e, <1>s, <2>1, <2>2, WorkerKept
<1>f. sub.cursor \in 0 .. MaxEventId /\ sub'.cursor \in 0 .. MaxEventId
  BY <1>a DEF TypeInv, SubscriptionRow
<1>g. ASSUME sub'.cursor = sub.cursor PROVE (first' = -1 => sub'.cursor = 0) /\ Covers(sub.cursor, {})'
  <2>1. CASE first = -1
    <3>1. sub'.cursor = 0 BY <1>g, <2>1 DEF DeliveryInv
    <3>2. PICK p \in 0 .. MaxEventId : p = sub'.cursor /\ p = 0 BY <1>f, <3>1
    <3>3. Covers(0, {})' BY CoversZero
    <3> QED BY <3>1, <3>2, <3>3
  <2>2. CASE first # -1
    <3>1. PICK p \in 0 .. MaxEventId : p = sub.cursor BY <1>f
    <3>2. Covers(p, {}) BY <3>1 DEF DeliveryInv
    <3>3. Covers(p, {})' BY <1>d, <2>2, <3>2
    <3> QED BY <1>b, <1>g, <2>2, <3>1, <3>3
  <2> QED BY <2>1, <2>2
<1>h. ASSUME first' = first
      PROVE  first' # -1 /\ sub'.start.kind = "event_id" => first' = sub'.start.id
  BY <1>c, <1>h DEF DeliveryInv
<1>k. ASSUME first' = first, sub'.cursor = sub.cursor, \A v \in Workers : WorkerDelivers(v)'
      PROVE  DeliveryInv'
  BY <1>g, <1>h, <1>k DEF DeliveryInv
<1>1. ASSUME NEW w \in Workers, Step(w) \/ Cancel(w) \/ Fail(w) \/ Crash(w) PROVE DeliveryInv'
  <2>a. WorkerDelivers(w) BY DEF DeliveryInv
  <2>o. \A v \in Workers \ {w} : WorkerDelivers(v)'
    BY <1>1, <1>a, <1>e, OthersKeep DEF DeliveryInv
  <2>k. ASSUME first' = first, sub'.cursor = sub.cursor, WorkerDelivers(w)' PROVE DeliveryInv'
    BY <1>k, <2>k, <2>o
  <2>p. pc[w] \in Looping => first # -1 BY <2>a DEF WorkerDelivers
  <2>q. ASSUME pc'[w] \notin {"init", "set", "fetch", "handle", "advance"},
               pc'[w] \in Looping => first' # -1
        PROVE  WorkerDelivers(w)'
    BY <2>q DEF WorkerDelivers, GoalOK
  <2>1. CASE \/ ClaimRefused(w) \/ (Reload(w) /\ ~sub.active) \/ Stop(w) \/ Release(w)
             \/ Fail(w) \/ Crash(w)
    <3>1. pc'[w] \in {"idle", "release"} /\ first' = first BY <1>a, <2>1, Returns
    <3>2. sub'.cursor = sub.cursor
      <4>1. CASE Release(w) BY <1>a, <4>1 DEF Release, ReleaseSubscription, SubscriptionRow
      <4>2. CASE ~Release(w) BY <1>a, <2>1, <4>2, Returns
      <4> QED BY <4>1, <4>2
    <3> QED BY <2>k, <2>q, <3>1, <3>2 DEF Looping
  <2>2. CASE Upsert(w) \/ AddType(w) \/ Claim(w) \/ Wait(w) \/ Renew(w)
    <3>1. sub'.cursor = sub.cursor /\ first' = first
      BY <1>a, <2>2 DEF Upsert, AddType, Claim, Wait, Renew, UpsertSubscription,
         AddSubscriptionEventType, ClaimSubscription, RenewSubscription, SubscriptionRow, history
    <3>2. /\ pc'[w] \in {"types", "claim", "load", "poll"}
          /\ pc'[w] = "poll" => pc[w] \in {"wait", "renew"}
      BY <1>a, <2>2 DEF Upsert, AddType, Claim, Wait, Renew, Goto, LocalOK
    <3>3. pc'[w] \in Looping => first' # -1 BY <2>p, <3>1, <3>2 DEF Looping
    <3> QED BY <2>k, <2>q, <3>1, <3>2, <3>3
  <2>3. CASE LoadBack(w)
    <3>1. sub' = sub /\ pc[w] = "load" BY <2>3 DEF LoadBack
    <3>2. sub.start.kind # "end"
      <4>1. call[w] \in Calls /\ sub.start = call[w].start
        BY <1>a, <3>1 DEF CallsInv, StartInv, LocalOK, ArgumentsOK
      <4> QED BY <4>1 DEF SameCalls, SameStart
    <3>3. CASE StartTaken(sub)
      <4>1. pc'[w] = "poll" /\ first' = IF first = -1 THEN sub.cursor ELSE first
        BY <1>a, <2>3, <3>3 DEF LoadBack, EnterLoop, Goto, LocalOK
      <4>2. first' # -1 BY <1>0, <1>f, <4>1
      <4>3. sub.start.kind = "event_id" => first' = sub.start.id
        BY <3>3, <4>1 DEF StartTaken, DeliveryInv
      <4>4. WorkerDelivers(w)' BY <2>q, <4>1, <4>2
      <4> QED BY <1>g, <2>o, <3>1, <4>2, <4>3, <4>4 DEF DeliveryInv
    <3>4. CASE ~StartTaken(sub) /\ sub.start.kind = "event_id"
      <4>1. pc'[w] = "set" /\ goal'[w] = sub.start.id /\ first' = first
        BY <1>a, <2>3, <3>4 DEF LoadBack, Goto, LocalOK, history
      <4>2. GoalOK(w)' BY <3>1, <3>4, <4>1 DEF GoalOK
      <4>3. WorkerDelivers(w)' BY <4>1, <4>2 DEF WorkerDelivers, Looping
      <4> QED BY <2>k, <3>1, <4>1, <4>3
    <3>5. CASE ~StartTaken(sub) /\ sub.start.kind # "event_id"
      <4>1. pc'[w] = "init" /\ sub.start.kind = "timestamp" /\ first' = first
        BY <1>a, <2>3, <3>2, <3>5 DEF LoadBack, Goto, LocalOK, history
      <4>2. GoalOK(w)' BY <3>1, <4>1 DEF GoalOK
      <4>3. WorkerDelivers(w)' BY <4>1, <4>2 DEF WorkerDelivers, Looping
      <4> QED BY <2>k, <3>1, <4>1, <4>3
    <3> QED BY <3>3, <3>4, <3>5
  <2>4. CASE ReadStart(w)
    <3>1. sub' = sub /\ visible' = visible /\ row' = row /\ pc[w] = "init"
      BY <2>4 DEF ReadStart, logVars
    <3>2. sub.start.kind = "timestamp" /\ view[w].start = sub.start
      <4>1. sub.start.kind = "timestamp" BY <2>a, <3>1 DEF WorkerDelivers, GoalOK
      <4>2. view[w].start = sub.start
        BY <3>1 DEF CallsInv, StartInv, HasCopy, Running
      <4> QED BY <4>1, <4>2
    <3> DEFINE since == {i \in visible : row[i].time >= sub.start.time}
    <3>3. Anchor(view[w].start) = FirstIdFrom(sub.start.time) BY <3>2 DEF Anchor
    <3>4. visible \in SUBSET EventIds BY <1>a DEF TypeInv, LogInv, LogTypeOK
    <3>5. CASE Anchor(view[w].start) > 0
      <4>1. /\ pc'[w] = "set" /\ first' = first
            /\ goal'[w] = FirstIdFrom(sub.start.time) - 1
        BY <1>a, <2>4, <3>2, <3>3, <3>5 DEF ReadStart, CursorAtAnchor, Goto, LocalOK, history
      <4>2. since # {} BY <1>0, <3>3, <3>4, <3>5, FirstIdFromIs
      <4>3. FirstIdFrom(sub.start.time) \in since /\ \A i \in since : FirstIdFrom(sub.start.time) <= i
        BY <3>4, <4>2, FirstIdFromIs
      <4>4. \A i \in visible : i \in Int BY <1>0, <3>4 DEF EventIds
      <4>5. /\ goal'[w] + 1 \in visible
            /\ \A j \in visible : j <= goal'[w] => ~(row[j].time >= sub.start.time)
        BY <4>1, <4>3, <4>4
      <4>6. GoalOK(w)' BY <3>1, <3>2, <4>1, <4>5 DEF GoalOK
      <4>7. WorkerDelivers(w)' BY <4>1, <4>6 DEF WorkerDelivers, Looping
      <4> QED BY <2>k, <3>1, <4>1, <4>7
    <3>6. CASE ~(Anchor(view[w].start) > 0)
      <4>1. pc'[w] = "poll" /\ first' = IF first = -1 THEN 0 ELSE first
        BY <1>a, <2>4, <3>6 DEF ReadStart, EnterLoop, Goto, LocalOK
      <4>2. first' # -1 BY <4>1
      <4>3. WorkerDelivers(w)' BY <2>q, <4>1, <4>2
      <4> QED BY <1>g, <2>o, <3>1, <3>2, <4>2, <4>3 DEF DeliveryInv
    <3> QED BY <3>5, <3>6
  <2>5. CASE SetCursor(w)
    <3>1. sub'.cursor = goal[w] /\ sub'.start = sub.start
      BY <1>a, <2>5 DEF SetCursor, AdvanceSubscriptionCursor, SubscriptionRow
    <3>2. pc'[w] = "poll" /\ first' = IF first = -1 THEN goal[w] ELSE first
      BY <1>a, <2>5 DEF SetCursor, EnterLoop, Goto, LocalOK
    <3>3. goal[w] \in 0 .. MaxEventId BY <1>a DEF LocalOK
    <3>4. first' # -1 BY <1>0, <3>2, <3>3
    <3>5. PICK q \in 0 .. MaxEventId : q = goal[w] BY <3>3
    <3>6. Covers(q, {})' /\ (sub.start.kind = "event_id" => first' = sub.start.id)
      BY <1>a, <2>5, <3>1, <3>5, GoalCovered
    <3>7. Covers(sub.cursor, {})' BY <3>1, <3>5, <3>6
    <3>8. WorkerDelivers(w)' BY <2>q, <3>2, <3>4
    <3> QED BY <2>o, <3>1, <3>4, <3>6, <3>7, <3>8 DEF DeliveryInv
  <2>6. CASE Reload(w) /\ sub.active
    <3>1. /\ sub' = sub /\ first' = first /\ pc[w] = "poll" /\ pc'[w] = "fetch"
          /\ view'[w] = sub
      BY <1>a, <2>6 DEF Reload, CopyRow, Goto, LocalOK, history
    <3>2. first' # -1 BY <2>p, <3>1 DEF Looping
    <3>3. PICK p \in 0 .. MaxEventId : p = sub.cursor BY <1>f
    <3>4. Covers(p, {}) BY <3>3 DEF DeliveryInv
    <3>5. Covers(p, {})' BY <1>d, <3>1, <3>2, <3>4
    <3>6. view'[w].cursor = p BY <3>1, <3>3
    <3>7. Covers(view[w].cursor, {})' BY <3>5, <3>6
    <3>8. WorkerDelivers(w)' BY <3>1, <3>2, <3>7 DEF WorkerDelivers, GoalOK
    <3> QED BY <2>k, <3>1, <3>8
  <2>7. CASE Fetch(w)
    <3>1. /\ sub' = sub /\ first' = first /\ pc[w] = "fetch" /\ batch'[w] = Due(w)
          /\ pc'[w] = IF Due(w) = {} THEN "wait" ELSE "handle"
      BY <1>a, <2>7 DEF Fetch, Goto, LocalOK, history
    <3>2. first' # -1 BY <2>p, <3>1 DEF Looping
    <3>3. CASE Due(w) = {} BY <2>k, <2>q, <3>1, <3>2, <3>3
    <3>4. CASE Due(w) # {}
      <4>1. HasCopy(w) BY <3>1 DEF HasCopy, Running
      <4>2. \A c \in Calls : sub.types = JoinTypes(c.filter.types)
        BY <3>1 DEF CallsInv, FilterInv, WorkerFilterOK, Running
      <4>3. Covers(view[w].cursor, {}) BY <2>a, <3>1 DEF WorkerDelivers
      <4>4. Covers(Highest(Due(w)), Due(w)) BY <3>4, <4>1, <4>2, <4>3, FetchCovers DEF CallsInv
      <4>5. Due(w) \in SUBSET EventIds BY <1>a DEF Due, EventsFor, TypeInv, LogInv, LogTypeOK
      <4>6. Highest(Due(w)) \in 0 .. MaxEventId BY <4>5, HighestType
      <4>7. PICK p \in 0 .. MaxEventId, more \in SUBSET EventIds : p = Highest(more) /\ more = Due(w)
        BY <4>5, <4>6
      <4>8. Covers(p, more)' BY <1>d, <3>1, <3>2, <4>4, <4>7
      <4>9. Covers(Highest(batch[w]), batch[w])' BY <3>1, <4>7, <4>8
      <4>10. WorkerDelivers(w)' BY <3>1, <3>2, <3>4, <4>9 DEF WorkerDelivers, GoalOK
      <4> QED BY <2>k, <3>1, <4>10
    <3> QED BY <3>3, <3>4
  <2>8. CASE Handle(w)
    <3>1. /\ sub' = sub /\ first' = first /\ pc[w] = "handle" /\ pc'[w] = "advance"
          /\ batch'[w] = batch[w] /\ handled' = handled \cup batch[w]
      BY <1>a, <2>8 DEF Handle, Goto, LocalOK
    <3>2. first' # -1 BY <2>p, <3>1 DEF Looping
    <3>3. batch[w] \in SUBSET EventIds /\ Highest(batch[w]) \in 0 .. MaxEventId
      BY <1>a, HighestType DEF LocalOK
    <3>4. PICK p \in 0 .. MaxEventId, more \in SUBSET EventIds : p = Highest(more) /\ more = batch[w]
      BY <3>3
    <3>5. Covers(p, more) BY <2>a, <3>1, <3>4 DEF WorkerDelivers
    <3>6. Covers(p, more)' BY <1>d, <3>1, <3>2, <3>5
    <3>7. Covers(p, {})' BY <3>1, <3>4, <3>6 DEF Covers
    <3>8. Covers(Highest(batch[w]), {})' BY <3>1, <3>4, <3>7
    <3>9. WorkerDelivers(w)' BY <3>1, <3>2, <3>8 DEF WorkerDelivers, GoalOK
    <3> QED BY <2>k, <3>1, <3>9
  <2>9. CASE Advance(w)
    <3>1. /\ first' = first /\ pc[w] = "advance" /\ pc'[w] = "renew"
      BY <1>a, <2>9 DEF Advance, Goto, LocalOK, history
    <3>2. first' # -1 BY <2>p, <3>1 DEF Looping
    <3>3. WorkerDelivers(w)' BY <2>q, <3>1, <3>2
    <3>4. CASE sub' = sub BY <2>k, <3>1, <3>3, <3>4
    <3>5. CASE AdvanceSubscriptionCursor(LastId(batch[w]))
      <4>1. sub'.cursor = Highest(batch[w])
        BY <1>a, <3>5 DEF AdvanceSubscriptionCursor, SubscriptionRow, LastId
      <4>2. PICK p \in 0 .. MaxEventId : p = Highest(batch[w]) BY <1>f, <4>1
      <4>3. Covers(p, {}) BY <2>a, <3>1, <4>2 DEF WorkerDelivers
      <4>4. Covers(p, {})' BY <1>d, <3>1, <3>2, <4>3
      <4>5. Covers(sub.cursor, {})' BY <4>1, <4>2, <4>4
      <4> QED BY <1>h, <2>o, <3>1, <3>2, <3>3, <4>5 DEF DeliveryInv
    <3> QED BY <2>9, <3>4, <3>5 DEF Advance
  <2>10. CASE Cancel(w)
    <3>1. /\ sub' = sub /\ first' = first /\ pc' = pc /\ view' = view /\ batch' = batch
          /\ goal' = goal
      BY <2>10 DEF Cancel, history
    <3> QED BY <1>e, <2>a, <2>k, <3>1
  <2> QED BY <1>1, <2>1, <2>2, <2>3, <2>4, <2>5, <2>6, <2>7, <2>8, <2>9, <2>10 DEF Step
<1>2. CASE \/ Pause \/ Resume \/ Expire \/ UNCHANGED vars
           \/ (LogNext /\ UNCHANGED <<sub, local, history, faults>>)
  <2>1. UNCHANGED local /\ first' = first BY <1>2 DEF Pause, Resume, Expire, vars, history
  <2>2. sub'.cursor = sub.cursor
    <3>1. CASE Pause \/ Resume \/ Expire
      BY <1>a, <3>1 DEF Pause, Resume, Expire, SetSubscriptionActive, LeaseExpires, SubscriptionRow
    <3>2. CASE UNCHANGED sub BY <3>2
    <3>3. UNCHANGED vars => UNCHANGED sub BY DEF vars
    <3> QED BY <1>2, <3>1, <3>2, <3>3
  <2>3. \A v \in Workers : WorkerDelivers(v)' BY <1>e, <2>1 DEF local, DeliveryInv
  <2> QED BY <1>k, <2>1, <2>2, <2>3
<1> QED BY <1>1, <1>2 DEF Next

\* The conjunction from which NothingLost and InGlobalOrder follow.
LEMMA DeliveryInvariant == ASSUME SameCalls PROVE Spec => [](CallsInv /\ DeliveryInv)
<1>1. Init => CallsInv /\ DeliveryInv
  BY InitTypes, InitAsked, InitFilter, InitDelivery DEF CallsInv
<1>2. CallsInv /\ DeliveryInv /\ [Next]_vars => CallsInv' /\ DeliveryInv'
  <2> SUFFICES ASSUME CallsInv, DeliveryInv, [Next]_vars PROVE CallsInv' /\ DeliveryInv' OBVIOUS
  <2>1. CallsInv' BY SameCalls, NextTypes, NextAsked, NextFilter, NextStart DEF SameCalls, CallsInv
  <2> QED BY SameCalls, <2>1, NextDelivery
<1> QED BY <1>1, <1>2, PTL DEF Spec

\* The stored cursor never passes an event that no handler has accepted, whatever
\* crashes, expired leases and late writes of the cursor there were.
THEOREM NothingLost == ASSUME SameCalls PROVE Spec => []NothingSkipped
<1>1. CallsInv /\ DeliveryInv => NothingSkipped BY DEF DeliveryInv, Covers, NothingSkipped
<1> QED BY <1>1, SameCalls, DeliveryInvariant, PTL

\* A handler is given an event only when every earlier one that the subscription is
\* owed has been accepted or comes with it.
THEOREM InGlobalOrder == ASSUME SameCalls PROVE Spec => []DeliveredInOrder
<1>1. CallsInv /\ DeliveryInv => DeliveredInOrder
  <2> SUFFICES ASSUME CallsInv, DeliveryInv, NEW w \in Workers, pc[w] = "handle",
                      NEW i \in EventIds, Owed(i), i < Highest(batch[w])
               PROVE  i \in handled \cup batch[w]
    BY DEF DeliveredInOrder
  <2>0. MaxEventId \in Nat BY EventLogAssumption DEF EventLogAssumption
  <2>1. Highest(batch[w]) \in 0 .. MaxEventId BY HighestType DEF CallsInv, TypeInv, LocalOK
  <2>2. i <= Highest(batch[w]) BY <2>0, <2>1 DEF EventIds
  <2> QED BY <2>2 DEF DeliveryInv, WorkerDelivers, Covers
<1> QED BY <1>1, SameCalls, DeliveryInvariant, PTL
=============================================================================
