---------------------------- MODULE Evercoregen -----------------------------
(***************************************************************************)
(* The generator cmd/evercoregen: it walks the project, collects the       *)
(* structs marked // evercore:..., and writes three files of Go into the   *)
(* project it walks.  A run may die at any step, may meet what an earlier  *)
(* run left, and the sources may be edited while it runs.                  *)
(***************************************************************************)
EXTENDS Integers, Sequences, SequencesExt, FiniteSets, Functions

CONSTANTS
  Walk,       \* the files of the project in the order of filepath.Walk: records
              \* [dir, name, hidden, go]; dir "" is the root
  Outputs,    \* generated.go, aggregates.go and events.go, in the order of GenerateCode
  Projects,   \* what the other files may hold: functions from files to contents
  Absent,     \* there is no such file
  NoStruct,   \* what follows a directive is not the declaration of a struct
  MaxEdits, MaxDeaths  \* bounds

Sources == Range(Walk) \ Range(Outputs)
DirectiveTypes == {"aggregate", "event", "state-event"}

ASSUME EvercoregenAssumption ==
  /\ Walk \in Seq(Range(Walk)) /\ Outputs \in Seq(Range(Walk)) /\ Outputs # <<>>
  /\ \A p \in Projects : DOMAIN p = Sources
  /\ MaxEdits \in Nat /\ MaxDeaths \in Nat

VARIABLES
  files,    \* contents: Absent or [package, marks, data]; package says whether there is
            \* a package clause, marks are the directives [type, struct] in order, data
            \* is what GenerateCode wrote after the clause, complete, or Absent
  pc,       \* where the run is; "idle" when there is none
  next,     \* index in Walk, then in Outputs
  located,  \* locatedDirectives
  agree,    \* history: the last run has ended without error, nothing was edited since
            \* it started
  edits, deaths

genVars == <<files, pc, next, located, agree, edits, deaths>>

Clause(marks) == [package |-> TRUE, marks |-> marks, data |-> Absent]
EmptyFile == [package |-> FALSE, marks |-> <<>>, data |-> Absent]
Nothing == [aggregates |-> <<>>, stateEvents |-> <<>>, events |-> <<>>]

GenInit ==
  /\ \E p \in Projects : files = [f \in Range(Walk) |-> IF f \in Sources THEN p[f] ELSE Absent]
  /\ pc = "idle" /\ next = 1
  /\ located = Nothing
  /\ agree = FALSE
  /\ edits = 0 /\ deaths = 0

-----------------------------------------------------------------------------
(* One file.                                                                *)

\* shouldProcessFile.  The patterns are matched with whole paths: "vendor" and
\* "testdata" with no file that ends in .go, ".*" with the hidden files of the root.
Selected(f) == f.go /\ ~(f.dir = "" /\ f.hidden)

\* processFile returns an error.  The mutant asks every file for a directive.
RefusesUnmarked(content) ==
  \/ ~content.package \/ content.marks = <<>>
  \/ \E m \in Range(content.marks) : m.type \notin DirectiveTypes \/ m.struct = NoStruct
Refuses(content) ==
  \/ ~content.package
  \/ \E m \in Range(content.marks) : m.type \notin DirectiveTypes \/ m.struct = NoStruct

\* The directives of one type in file f, by the bare name of their struct.
Marked(f, content, type) ==
  [n \in {m.struct : m \in {m \in Range(content.marks) : m.type = type}} |->
     [package |-> f.dir, name |-> n]]

\* walkProject's loops over a map of the file: its entries go over those that are there.
Over(new, old) ==
  [n \in DOMAIN new \cup DOMAIN old |-> IF n \in DOMAIN new THEN new[n] ELSE old[n]]

\* All three maps of file f.  The mutant keeps the entries that are there.
MergeUnder(f, content) ==
  [aggregates |-> Over(located.aggregates, Marked(f, content, "aggregate")),
   stateEvents |-> Over(located.stateEvents, Marked(f, content, "state-event")),
   events |-> Over(located.events, Marked(f, content, "event"))]
Merge(f, content) ==
  [aggregates |-> Over(Marked(f, content, "aggregate"), located.aggregates),
   stateEvents |-> Over(Marked(f, content, "state-event"), located.stateEvents),
   events |-> Over(Marked(f, content, "event"), located.events)]

-----------------------------------------------------------------------------
(* The run.                                                                 *)

Start ==
  /\ pc = "idle"
  /\ pc' = "walk" /\ next' = 1
  /\ located' = Nothing
  /\ agree' = TRUE
  /\ UNCHANGED <<files, edits, deaths>>

Skipped(f) == files[f] = Absent \/ ~Selected(f)

Visit ==
  /\ pc = "walk" /\ next <= Len(Walk)
  /\ LET f == Walk[next]
     IN /\ ~Skipped(f) => ~Refuses(files[f])
        /\ located' = IF Skipped(f) THEN located ELSE Merge(f, files[f])
  /\ next' = next + 1
  /\ UNCHANGED <<files, pc, agree, edits, deaths>>

Exit == pc' = "idle" /\ next' = 1 /\ located' = Nothing

\* The error ends the program.
Refuse ==
  /\ pc = "walk" /\ next <= Len(Walk)
  /\ ~Skipped(Walk[next]) /\ Refuses(files[Walk[next]])
  /\ Exit /\ agree' = FALSE
  /\ UNCHANGED <<files, edits, deaths>>

EndWalk ==
  /\ pc = "walk" /\ next > Len(Walk)
  /\ pc' = "create" /\ next' = 1
  /\ UNCHANGED <<files, located, agree, edits, deaths>>

\* os.Create truncates; then the template writes as it goes, the package clause
\* before everything that matters.
Write(content) == files' = [files EXCEPT ![Outputs[next]] = content]

Create ==
  /\ pc = "create" /\ pc' = "clause"
  /\ Write(EmptyFile)
  /\ UNCHANGED <<next, located, agree, edits, deaths>>

WriteClause ==
  /\ pc = "clause" /\ pc' = "body"
  /\ Write(Clause(<<>>))
  /\ UNCHANGED <<next, located, agree, edits, deaths>>

\* Then it is the turn of the next file, or main returns.
WriteBody ==
  /\ pc = "body"
  /\ Write([package |-> TRUE, marks |-> <<>>, data |-> located])
  /\ IF next < Len(Outputs)
       THEN pc' = "create" /\ next' = next + 1 /\ UNCHANGED located
       ELSE Exit
  /\ UNCHANGED <<agree, edits, deaths>>

\* The process is killed, or a file cannot be created or written.
Die ==
  /\ pc # "idle" /\ deaths < MaxDeaths
  /\ Exit /\ agree' = FALSE
  /\ deaths' = deaths + 1
  /\ UNCHANGED <<files, edits>>

\* The developer saves other sources.
Edit(p) ==
  /\ edits < MaxEdits
  /\ files' = [f \in Range(Walk) |-> IF f \in Sources THEN p[f] ELSE files[f]]
  /\ files' # files
  /\ agree' = FALSE
  /\ edits' = edits + 1
  /\ UNCHANGED <<pc, next, located, deaths>>

GenNext ==
  \/ Start \/ Visit \/ Refuse \/ EndWalk \/ Create \/ WriteClause \/ WriteBody
  \/ Die
  \/ \E p \in Projects : Edit(p)

\* A developer runs the generator again while its output does not agree with the
\* sources; a run that nothing kills goes on.
GenFairness ==
  /\ WF_genVars(Start /\ ~agree)
  /\ WF_genVars(Visit \/ Refuse \/ EndWalk \/ Create \/ WriteClause \/ WriteBody)

-----------------------------------------------------------------------------
(* What a run should find.                                                  *)

Read == {i \in DOMAIN Walk : ~Skipped(Walk[i])}

\* The struct that a name stands for: the marked one in the file that is walked last.
Latest(type) ==
  LET marked == [i \in Read |-> Marked(Walk[i], files[Walk[i]], type)]
      names == UNION {DOMAIN marked[i] : i \in Read}
  IN [n \in names |->
        marked[CHOOSE i \in Read : /\ n \in DOMAIN marked[i]
                                   /\ \A j \in Read : j > i => n \notin DOMAIN marked[j]][n]]

Wanted ==
  [aggregates |-> Latest("aggregate"), stateEvents |-> Latest("state-event"),
   events |-> Latest("event")]

\* The sources have an error, or a file of the generator's own has lost its clause.
SourcesRefused == \E f \in Sources : ~Skipped(f) /\ Refuses(files[f])
Torn == \E f \in Range(Outputs) : files[f] = EmptyFile
=============================================================================
