------------------------- MODULE MCGeneratedProject -------------------------
(* Instances of GeneratedProject for TLC.                                   *)
EXTENDS GeneratedProject

File(dir, name) == [dir |-> dir, name |-> name, hidden |-> FALSE, go |-> TRUE]

billing == File("billing", "events.go")
orders == File("orders", "events.go")
readme == [File("", "README.md") EXCEPT !.go = FALSE]
generated == File("gen", "generated.go")
aggregatesGo == File("gen/aggregates", "aggregates.go")
eventsGo == File("gen/events", "events.go")

ProjectWalk == <<readme, billing, aggregatesGo, eventsGo, generated, orders>>
ProjectOutputs == <<generated, aggregatesGo, eventsGo>>

Mark(type, struct) == [type |-> type, struct |-> struct]
Order(ms) == [f \in {readme, billing, orders} |->
  [package |-> f.go, data |-> Absent,
   marks |-> IF f = orders THEN ms
             ELSE IF f = billing THEN
               <<Mark("aggregate", "Account"), Mark("state-event", "Created"),
                 Mark("state-event", "Closed")>>
             ELSE <<>>]]

\* Package orders marks an event that package billing marks too, one of its own, one
\* of its own after a directive nobody knows.
ThreeProjects ==
  {Order(<<Mark("state-event", "Created")>>),
   Order(<<Mark("event", "Viewed"), Mark("state-event", "Changed")>>),
   Order(<<Mark("command", "Changed")>>)}

Field(name, type, pointer) == [name |-> name, type |-> type, pointer |-> pointer]
Struct(dir, name) == [package |-> dir, name |-> name]
Account == [Name |-> "text", Level |-> "narrow"]
FourStructs ==
  Struct("billing", "Created") :>
    <<Field("Name", "text", FALSE), Field("Level", "wide", FALSE), Field("Note", "text", FALSE)>>
  @@ Struct("orders", "Created") :> <<Field("Level", "wide", TRUE)>>
  @@ Struct("orders", "Changed") :> <<Field("Level", "wide", TRUE), Field("Name", "wide", TRUE)>>
  @@ Struct("billing", "Closed") :> <<Field("Name", "text", FALSE), Field("Level", "text", FALSE)>>

Event(dir, name, value) == [struct |-> Struct(dir, name), value |-> value]
SomeEvents ==
  {Event("billing", "Closed", <<Text(2), Text(1)>>),
   Event("billing", "Created", <<Text(1), Number(3), Text(1)>>),
   Event("orders", "Created", <<Number(0)>>),
   Event("orders", "Changed", <<Null, Number(2)>>)}
=============================================================================
