--------------------------- MODULE StateAggregate ---------------------------
(***************************************************************************)
(* StateAggregate and StateEvent (base/stateaggregate.go,                  *)
(* base/stateevent.go): an event is a struct whose fields are copied by    *)
(* name into the aggregate's state, is stored as JSON under the name of    *)
(* its type, and is decoded by whatever decoder claims that name when the  *)
(* aggregate is loaded again.                                              *)
(*                                                                         *)
(* One context at a time works on one aggregate; what several contexts do  *)
(* to each other is the subject of EventStore.                             *)
(***************************************************************************)
EXTENDS Integers, Sequences, FiniteSets, FiniteSetsExt

CONSTANTS
  StateFields,        \* StateFields[f]: the type of field f of the state T
  StructFields,       \* StructFields[s]: the fields of event struct s, in order,
                      \* records [name, type, pointer]; s is a record [package, name]
  EventStates,        \* what is applied: records [struct, value]
  Width,              \* values of type "narrow" are 0 .. Width - 1
  Null,               \* a nil pointer
  NoObject,           \* no aggregate is held
  SnapshotFrequency,  \* GetSnapshotFrequency, 10 in the code
  MaxSequence         \* bound: length of the stream

Structs == DOMAIN StructFields
Types == {"wide", "narrow", "text"}
State == [DOMAIN StateFields -> [kind : {"number", "text", "rune"}, of : Nat]]

\* What Go's types say of a value that is not a nil pointer.
HasType(v, type) ==
  /\ v \in [kind : {IF type = "text" THEN "text" ELSE "number"}, of : Nat]
  /\ type = "narrow" => v.of < Width

\* A struct has one field of a name, and only pointers may be nil, which is no value.
ASSUME StateAggregateAssumption ==
  /\ Width \in Nat \ {0} /\ SnapshotFrequency \in Nat /\ MaxSequence \in Nat
  /\ \A f \in DOMAIN StateFields : StateFields[f] \in Types
  /\ \A type \in Types : ~HasType(Null, type)
  /\ \A s \in Structs :
       /\ Len(StructFields[s]) \in Nat /\ DOMAIN StructFields[s] = 1 .. Len(StructFields[s])
       /\ \A i \in DOMAIN StructFields[s] : StructFields[s][i].type \in Types
       /\ \A i, j \in DOMAIN StructFields[s] :
            StructFields[s][i].name = StructFields[s][j].name => i = j
  /\ \A e \in EventStates :
       /\ e.struct \in Structs
       /\ \A i \in DOMAIN StructFields[e.struct] :
            LET field == StructFields[e.struct][i]
            IN HasType(e.value[i], field.type) \/ (field.pointer /\ e.value[i] = Null)
  /\ NoObject \notin [sequence : Nat, state : State, astray : BOOLEAN]

VARIABLES
  program,    \* the decoders registered: records [stateEvents, events], functions from
              \* names of types to structs
  stored,     \* the events of the stream: records [type, json, struct]; struct is
              \* a history field, the Go type that was serialized
  snapshot,   \* the newest snapshot: [sequence, state]
  object,     \* the aggregate held by the context: [sequence, state, astray]; astray
              \* is a history field: the callback went on after ApplyEventTo had failed,
              \* or a decoder took an event for one of another struct
  captured,   \* the context's events
  staged,     \* the context's snapshot, the last one if there are several
  tainted,    \* history: such an object was saved
  committed   \* history: the state the object had when it was last stored

objectVars == <<object, captured, staged>>
aggregateVars == <<stored, snapshot, objectVars, tainted, committed>>

-----------------------------------------------------------------------------
(* Values.                                                                  *)

Number(n) == [kind |-> "number", of |-> n]
Text(n) == [kind |-> "text", of |-> n]

Zero(type) == IF type = "text" THEN Text(0) ELSE Number(0)
ZeroState == [f \in DOMAIN StateFields |-> Zero(StateFields[f])]

\* reflect's ConvertibleTo: numbers to numbers, and a number to the text of one rune.
ConvertibleTo(from, to) == from = to \/ from # "text"

\* A number is cut off to the width of its new type.
Convert(v, from, to) ==
  CASE from # "text" /\ to = "text" -> [kind |-> "rune", of |-> v.of]
    [] from # "text" /\ to = "narrow" -> Number(v.of % Width)
    [] OTHER -> v

-----------------------------------------------------------------------------
(* CopyFields.                                                              *)

Fields(e) == StructFields[e.struct]

\* The fields the loop does not skip: T has one of that name, and no nil pointer.
Copied(e) ==
  {i \in DOMAIN Fields(e) : Fields(e)[i].name \in DOMAIN StateFields /\ e.value[i] # Null}

CannotAssign(e) ==
  {i \in Copied(e) : ~ConvertibleTo(Fields(e)[i].type, StateFields[Fields(e)[i].name])}

\* The state after the loop, which returns at the first field that it cannot
\* assign: those before it stay copied.
CopyFields(e, state) ==
  LET done == {i \in Copied(e) : \A j \in CannotAssign(e) : i < j}
  IN [f \in DOMAIN StateFields |->
        IF \E i \in done : Fields(e)[i].name = f
          THEN LET i == CHOOSE i \in done : Fields(e)[i].name = f
               IN Convert(e.value[i], Fields(e)[i].type, StateFields[f])
          ELSE state[f]]

-----------------------------------------------------------------------------
(* Storing and decoding.                                                    *)

\* TypeNameFromType: the name of the type without its package.  The mutant takes
\* the package.
PackageName(e) == e.struct.package
GetEventType(e) == e.struct.name

\* SerializeToJson: the fields by name.
Serialize(e) ==
  [f \in {Fields(e)[i].name : i \in DOMAIN Fields(e)} |->
     e.value[CHOOSE i \in DOMAIN Fields(e) : Fields(e)[i].name = f]]

\* DeserializeFromJson into struct s.  What the JSON does not have, or has as null,
\* stays zero; a value of another kind, or too large, is an error.  The mutant has no
\* nil pointers.
HasValue(json, field) == field.name \in DOMAIN json /\ json[field.name] # Null
Unmarshals(json, s) ==
  \A i \in DOMAIN StructFields[s] :
    LET field == StructFields[s][i]
    IN HasValue(json, field) =>
         /\ json[field.name].kind = Zero(field.type).kind
         /\ field.type = "narrow" => json[field.name].of < Width
DeserializeToZero(json, s) ==
  [struct |-> s, value |-> [i \in DOMAIN StructFields[s] |->
     LET field == StructFields[s][i]
     IN IF HasValue(json, field) THEN json[field.name] ELSE Zero(field.type)]]
Deserialize(json, s) ==
  [struct |-> s, value |-> [i \in DOMAIN StructFields[s] |->
     LET field == StructFields[s][i]
     IN IF HasValue(json, field) THEN json[field.name]
        ELSE IF field.pointer THEN Null ELSE Zero(field.type)]]

\* DecodeEvent: the decoders are asked in turn and the first that knows the type,
\* or fails, answers.  Generated ones know state events, then other events.
DecodesTo(p, ev) ==
  IF ev.type \in DOMAIN p.stateEvents THEN p.stateEvents[ev.type] ELSE p.events[ev.type]
Decodes(p, ev) ==
  /\ ev.type \in DOMAIN p.stateEvents \cup DOMAIN p.events
  /\ Unmarshals(ev.json, DecodesTo(p, ev))
DecodeEvent(p, ev) == Deserialize(ev.json, DecodesTo(p, ev))

\* ApplyEventState takes only state events that CopyFields copies to the end.
Applies(p, ev) ==
  /\ Decodes(p, ev) /\ ev.type \in DOMAIN p.stateEvents
  /\ CannotAssign(DecodeEvent(p, ev)) = {}

\* applyState: the snapshot, then each event after it.
Replay(p, snap) ==
  LET at[n \in 0 .. Len(stored)] ==
        IF n <= snap.sequence THEN snap.state
        ELSE CopyFields(DecodeEvent(p, stored[n]), at[n - 1])
  IN at[Len(stored)]

Loads(p, snap) == \A n \in snap.sequence + 1 .. Len(stored) : Applies(p, stored[n])

NoSnapshot == [sequence |-> 0, state |-> ZeroState]

-----------------------------------------------------------------------------
AggregateInit ==
  /\ stored = <<>>
  /\ snapshot = NoSnapshot /\ staged = NoSnapshot
  /\ object = NoObject
  /\ captured = <<>>
  /\ tainted = FALSE
  /\ committed = ZeroState

\* A load that fails leaves the context without the aggregate: the object may have a
\* part of the state, but got no id, and what a callback still applies to it is of
\* aggregate 0 and not of this stream.  A load may succeed although a decoder of the
\* program makes another struct of an event than it was.
Load ==
  /\ object = NoObject
  /\ Loads(program, snapshot)
  /\ object' = [sequence |-> Len(stored), state |-> Replay(program, snapshot),
                astray |-> \E n \in snapshot.sequence + 1 .. Len(stored) :
                             DecodesTo(program, stored[n]) # stored[n].struct]
  /\ UNCHANGED <<stored, snapshot, captured, staged, tainted, committed>>

SnapshotDue(n) == SnapshotFrequency > 0 /\ n % SnapshotFrequency = 0

\* ApplyEventTo of NewStateEvent(e).  If GetSnapshotState fails, the event is captured
\* all the same, and the callback may go on without the snapshot.
ApplyEvent(e) ==
  LET state == CopyFields(e, object.state)
      n == object.sequence + 1
  IN /\ object # NoObject /\ n <= MaxSequence
     /\ CannotAssign(e) = {}
     /\ object' = [object EXCEPT !.sequence = n, !.state = state]
     /\ captured' = Append(captured,
          [type |-> GetEventType(e), json |-> Serialize(e), struct |-> e.struct])
     /\ \/ staged' = staged
        \/ SnapshotDue(n) /\ staged' = [sequence |-> n, state |-> state]
     /\ UNCHANGED <<stored, snapshot, tainted, committed>>

\* ApplyEventTo returns CopyFields' error before the event is captured, and the
\* callback does not stop.
ApplyFails(e) ==
  /\ object # NoObject
  /\ CannotAssign(e) # {}
  /\ object' = [object EXCEPT !.state = CopyFields(e, @), !.astray = TRUE]
  /\ UNCHANGED <<stored, snapshot, captured, staged, tainted, committed>>

\* The context is dropped with all it has captured and staged.  The mutant keeps the
\* snapshot for the next one.
ForgetEvents ==
  /\ object' = NoObject
  /\ captured' = <<>>
  /\ UNCHANGED staged
Forget ==
  /\ object' = NoObject
  /\ captured' = <<>>
  /\ staged' = NoSnapshot

Commit ==
  /\ object # NoObject
  /\ stored' = stored \o captured
  /\ snapshot' = IF staged = NoSnapshot THEN snapshot ELSE staged
  /\ committed' = object.state
  /\ tainted' = (tainted \/ object.astray)
  /\ Forget

\* Errors the callback does not ignore, and all others.
Abort ==
  /\ object # NoObject
  /\ Forget
  /\ UNCHANGED <<stored, snapshot, tainted, committed>>
=============================================================================
