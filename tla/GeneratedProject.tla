-------------------------- MODULE GeneratedProject --------------------------
(***************************************************************************)
(* A project that uses evercoregen: its developer edits sources and runs   *)
(* the generator, the compiler builds what is there, and the program runs  *)
(* with the decoders it was built with over events that earlier builds     *)
(* have stored.  Composes Evercoregen and StateAggregate; code of          *)
(* templates/targetcode.tmpl and templates/events.tmpl.                    *)
(***************************************************************************)
EXTENDS Evercoregen, StateAggregate

\* The structs that are marked as state events are among those whose fields are given.
ASSUME GeneratedProjectAssumption ==
  \A p \in Projects : \A f \in Sources : p[f] # Absent =>
    \A m \in Range(p[f].marks) : m.type = "state-event" /\ m.struct # NoStruct =>
      [package |-> f.dir, name |-> m.struct] \in Structs

VARIABLES
  marks,   \* history: the state events marked in the sources the program was built from
  sound    \* history: the generated files agreed with these sources

vars == <<genVars, aggregateVars, program, marks, sound>>

Init ==
  /\ GenInit
  /\ AggregateInit
  /\ program = Nothing
  /\ marks = {} /\ sound = FALSE

Data(i) == files[Outputs[i]].data

\* The generated files compile: all three are complete, events.go has a constant for
\* each case of generated.go, and declares none twice.
Compiles ==
  /\ \A f \in Range(Outputs) : files[f] # Absent /\ files[f].data # Absent
  /\ LET names(d) == DOMAIN d.stateEvents \cup DOMAIN d.events
     IN names(Data(1)) \subseteq names(Data(3))
  /\ DOMAIN Data(3).stateEvents \cap DOMAIN Data(3).events = {}

\* The structs that the sources mark as state events, each with its package.
StateEventsMarked ==
  UNION {Range(Marked(f, files[f], "state-event")) : f \in {f \in Sources : ~Skipped(f)}}

\* The program is built and restarted; what its contexts held is gone.
Build ==
  /\ Compiles
  /\ program' = Data(1)
  /\ marks' = StateEventsMarked
  /\ sound' = (agree /\ pc = "idle")
  /\ Forget
  /\ UNCHANGED <<genVars, stored, snapshot, tainted, committed>>

\* The program applies the state events it knows.  A context shares nothing with a
\* run of the generator, so that their steps need not be interleaved.
Run ==
  /\ program # Nothing /\ pc = "idle"
  /\ \/ Load
     \/ \E e \in EventStates : e.struct \in marks /\ (ApplyEvent(e) \/ ApplyFails(e))
     \/ Commit \/ Abort
  /\ UNCHANGED <<genVars, program, marks, sound>>

Generate ==
  /\ object = NoObject
  /\ GenNext
  /\ UNCHANGED <<aggregateVars, program, marks, sound>>

Next == Generate \/ Build \/ Run

Spec == Init /\ [][Next]_vars

\* Builds and contexts owe nothing.
FairSpec == Spec /\ GenFairness

-----------------------------------------------------------------------------
(* Properties                                                               *)

\* A run that ends has written, into all three files, what the sources say: for a
\* name that several packages mark, the struct of the file that is walked last
\* (README.md "will look for sentinel comments in your *.go files").
OutputsAgree ==
  pc = "idle" /\ agree => \A f \in Range(Outputs) : files[f].data = Wanted

\* The events are what the program was told its own sources mark, under names that
\* only one package uses.
Unambiguous ==
  /\ sound
  /\ \A s, t \in marks : s.name = t.name => s = t
  /\ \A n \in DOMAIN stored : stored[n].struct \in marks

\* What is stored can be loaded: each event decodes to the struct it was, with the
\* value it had, whichever of several builds and interrupted generator runs came in
\* between, and is copied to the end (stateaggregate.go RegisterEventDecoder "should
\* be able to decode all events").
StoredEventsDecode ==
  Unambiguous => \A n \in DOMAIN stored :
    /\ Applies(program, stored[n])
    /\ DecodesTo(program, stored[n]) = stored[n].struct
    /\ Serialize(DecodeEvent(program, stored[n])) = stored[n].json

\* A load through the snapshot and one from the first event both give the state that
\* was saved, unless a callback ignored an error of ApplyEventTo, which may have
\* copied some fields of an event that is not stored, or an earlier program took an
\* event for one of the same name in another package (context.go ApplyEventTo and
\* loadState, stateaggregate.go CopyFields "the field is skipped").
LoadsGiveWhatWasSaved ==
  Unambiguous /\ ~tainted =>
    Replay(program, snapshot) = committed /\ Replay(program, NoSnapshot) = committed

\* Numbers in the state fit their fields, although a wider event field was converted.
TypeOK ==
  /\ pc \in {"idle", "walk", "create", "clause", "body"}
  /\ next \in CASE pc = "idle" -> {1} [] pc = "walk" -> 1 .. Len(Walk) + 1
                [] OTHER -> 1 .. Len(Outputs)
  /\ edits \in 0 .. MaxEdits /\ deaths \in 0 .. MaxDeaths
  /\ \A f \in DOMAIN StateFields : StateFields[f] = "narrow" => committed[f].of < Width
  /\ object # NoObject => object.sequence \in 0 .. MaxSequence
  /\ Len(stored) \in 0 .. MaxSequence /\ snapshot.sequence \in 0 .. Len(stored)
  /\ tainted \in BOOLEAN /\ sound \in BOOLEAN /\ agree \in BOOLEAN

\* When edits and crashes end, running the generator again succeeds, unless the
\* sources have an error or a run died between creating one of its files and writing
\* the package clause: every later run then refuses that file (processor.go "no
\* package declaration found").
Regenerates ==
  []<>(SourcesRefused \/ Torn \/ (agree /\ pc = "idle"))
=============================================================================
