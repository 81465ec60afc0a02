----------------------- MODULE GeneratedProjectProofs -----------------------
(***************************************************************************)
(* Proofs about evercoregen and StateAggregate in a project that is        *)
(* edited, generated, built and run, for every walk, every set of sources, *)
(* every structs and events, and every number of edits and deaths.         *)
(***************************************************************************)
EXTENDS GeneratedProject, TLAPS, WellFoundedInduction, SequenceTheorems

-----------------------------------------------------------------------------
(* What a walk finds.                                                       *)

\* File i of the walk is read and marks a struct of this name.
MarksName(type, i, n) == i \in Read /\ n \in DOMAIN Marked(Walk[i], files[Walk[i]], type)

\* The names marked in the first k files, and the last of these files that marks one.
NamesUpTo(type, k) ==
  UNION {DOMAIN Marked(Walk[i], files[Walk[i]], type) : i \in {j \in Read : j <= k}}
IsLast(type, k, i, n) ==
  /\ i <= k /\ MarksName(type, i, n)
  /\ \A j \in Read : i < j /\ j <= k => ~MarksName(type, j, n)
LastUpTo(type, k, n) == CHOOSE i \in Read : IsLast(type, k, i, n)

LatestUpTo(type, k) ==
  [n \in NamesUpTo(type, k) |-> [package |-> Walk[LastUpTo(type, k, n)].dir, name |-> n]]

\* Wanted, had the walk ended after k files.
WantedUpTo(k) ==
  [aggregates |-> LatestUpTo("aggregate", k), stateEvents |-> LatestUpTo("state-event", k),
   events |-> LatestUpTo("event", k)]

\* A number below a bound that is in a set has a greatest one beside it.
LEMMA GreatestNumber ==
  ASSUME NEW k \in Nat, NEW S \in SUBSET Nat, NEW i \in S, i <= k
  PROVE  \E m \in S : m <= k /\ \A j \in S : m < j => ~(j <= k)
<1> DEFINE T == {k - j : j \in {x \in S : x <= k}}
<1>1. T \in SUBSET Nat /\ T # {}
  <2>1. \A j \in S : j <= k => k - j \in Nat OBVIOUS
  <2> QED BY <2>1
<1>2. PICK x \in T : \A y \in T : ~(<<y, x>> \in OpToRel(<, Nat))
  BY <1>1, NatLessThanWellFounded, WFMin
<1>3. \A y \in T : ~(y < x) BY <1>1, <1>2 DEF OpToRel
<1>4. PICK m \in S : m <= k /\ x = k - m BY <1>2
<1>5. ASSUME NEW j \in S, m < j, j <= k PROVE FALSE
  <2>1. k - j \in T BY <1>5
  <2>2. k - j < x BY <1>4, <1>5
  <2> QED BY <1>3, <2>1, <2>2
<1> QED BY <1>4, <1>5

\* The walk's files have numbers.
LEMMA WalkNumbers ==
  /\ Read \in SUBSET Nat /\ Len(Walk) \in Nat
  /\ \A i \in Read : i \in Nat /\ i >= 1 /\ i <= Len(Walk)
BY EvercoregenAssumption DEF EvercoregenAssumption, Read

\* A name that is marked has one last mark.
LEMMA LastMark ==
  ASSUME NEW type, NEW k \in Nat, NEW n \in NamesUpTo(type, k)
  PROVE  LastUpTo(type, k, n) \in Read /\ IsLast(type, k, LastUpTo(type, k, n), n)
<1>1. PICK i \in Read : i <= k /\ MarksName(type, i, n) BY DEF NamesUpTo, MarksName
<1> DEFINE S == {j \in Read : MarksName(type, j, n)}
<1>2. S \in SUBSET Nat /\ i \in S BY <1>1, WalkNumbers
<1>3. PICK m \in S : m <= k /\ \A j \in S : m < j => ~(j <= k) BY <1>1, <1>2, GreatestNumber
<1>4. m \in Read /\ IsLast(type, k, m, n) BY <1>3 DEF IsLast
<1> QED BY <1>4 DEF LastUpTo

\* And only one.
LEMMA OneLastMark ==
  ASSUME NEW type, NEW k \in Nat, NEW n, NEW i \in Read, NEW j \in Read,
         IsLast(type, k, i, n), IsLast(type, k, j, n)
  PROVE  i = j
BY WalkNumbers DEF IsLast

\* Nothing is found before the first file.
LEMMA FoundAtFirst == WantedUpTo(0) = Nothing
<1>1. \A type : NamesUpTo(type, 0) = {}
  <2>1. \A j \in Read : ~(j <= 0) BY WalkNumbers
  <2> QED BY <2>1 DEF NamesUpTo
<1>2. \A type : LatestUpTo(type, 0) = <<>>
  <2> SUFFICES ASSUME NEW type PROVE LatestUpTo(type, 0) = <<>> OBVIOUS
  <2>1. LatestUpTo(type, 0) = [n \in {} |-> [package |-> Walk[LastUpTo(type, 0, n)].dir, name |-> n]]
    BY <1>1 DEF LatestUpTo
  <2> QED BY <2>1
<1> QED BY <1>2 DEF WantedUpTo, Nothing

\* A file that is skipped adds nothing.
LEMMA SkippedFile ==
  ASSUME NEW k \in Nat, k + 1 \notin Read, NEW type
  PROVE  LatestUpTo(type, k + 1) = LatestUpTo(type, k)
<1>1. \A j \in Read : j <= k + 1 <=> j <= k BY WalkNumbers
<1>2. NamesUpTo(type, k + 1) = NamesUpTo(type, k) BY <1>1 DEF NamesUpTo
<1>3. \A n : \A i \in Read : IsLast(type, k + 1, i, n) <=> IsLast(type, k, i, n) BY <1>1 DEF IsLast
<1>4. \A n : LastUpTo(type, k + 1, n) = LastUpTo(type, k, n) BY <1>3 DEF LastUpTo
<1> QED BY <1>2, <1>4 DEF LatestUpTo

\* A file that is read goes over those before it.
LEMMA FileGoesOver ==
  ASSUME NEW k \in Nat, k + 1 \in Read, NEW type
  PROVE  Over(Marked(Walk[k + 1], files[Walk[k + 1]], type), LatestUpTo(type, k))
           = LatestUpTo(type, k + 1)
<1> DEFINE new == Marked(Walk[k + 1], files[Walk[k + 1]], type)
           old == LatestUpTo(type, k)
<1>1. \A j \in Read : j <= k + 1 <=> j <= k \/ j = k + 1 BY WalkNumbers
<1>2. NamesUpTo(type, k + 1) = DOMAIN new \cup NamesUpTo(type, k) BY <1>1 DEF NamesUpTo
<1>3. DOMAIN old = NamesUpTo(type, k) BY DEF LatestUpTo
<1>4. ASSUME NEW n \in DOMAIN new
      PROVE  new[n] = [package |-> Walk[LastUpTo(type, k + 1, n)].dir, name |-> n]
  <2>1. MarksName(type, k + 1, n) BY <1>4 DEF MarksName
  <2>2. IsLast(type, k + 1, k + 1, n)
    <3>1. k + 1 <= k + 1 /\ \A j \in Read : ~(k + 1 < j /\ j <= k + 1) BY WalkNumbers
    <3> QED BY <2>1, <3>1 DEF IsLast
  <2>3. LastUpTo(type, k + 1, n) = k + 1
    <3>1. k + 1 \in Nat /\ n \in NamesUpTo(type, k + 1) BY <1>2, <1>4
    <3>2. LastUpTo(type, k + 1, n) \in Read /\ IsLast(type, k + 1, LastUpTo(type, k + 1, n), n)
      BY <3>1, LastMark
    <3> QED BY <2>2, <3>1, <3>2, OneLastMark
  <2>4. new[n] = [package |-> Walk[k + 1].dir, name |-> n] BY <1>4 DEF Marked
  <2> QED BY <2>3, <2>4
<1>5. ASSUME NEW n \in NamesUpTo(type, k), n \notin DOMAIN new
      PROVE  LastUpTo(type, k + 1, n) = LastUpTo(type, k, n)
  <2> DEFINE i == LastUpTo(type, k, n)
  <2>1. i \in Read /\ IsLast(type, k, i, n) BY <1>5, LastMark
  <2>2. ~MarksName(type, k + 1, n) BY <1>5 DEF MarksName
  <2>3. IsLast(type, k + 1, i, n)
    <3>1. i <= k /\ MarksName(type, i, n) /\ i \in Nat BY <2>1, WalkNumbers DEF IsLast
    <3>2. \A j \in Read : i < j /\ j <= k + 1 => ~MarksName(type, j, n)
      BY <1>1, <2>1, <2>2 DEF IsLast
    <3> QED BY <3>1, <3>2 DEF IsLast
  <2>4. k + 1 \in Nat /\ n \in NamesUpTo(type, k + 1) BY <1>2, <1>5
  <2>5. LastUpTo(type, k + 1, n) \in Read /\ IsLast(type, k + 1, LastUpTo(type, k + 1, n), n)
    BY <2>4, LastMark
  <2> DEFINE j == LastUpTo(type, k + 1, n)
             m == k + 1
  <2>6. m \in Nat /\ i \in Read /\ j \in Read /\ IsLast(type, m, i, n) /\ IsLast(type, m, j, n)
    BY <2>1, <2>3, <2>4, <2>5
  <2> HIDE DEF i, j, m
  <2>7. i = j BY <2>6, OneLastMark
  <2> QED BY <2>7 DEF i, j, m
<1>6. \A n \in NamesUpTo(type, k) : old[n] = [package |-> Walk[LastUpTo(type, k, n)].dir, name |-> n]
  BY DEF LatestUpTo
<1> HIDE DEF new, old
<1>7. Over(new, old) =
        [n \in DOMAIN new \cup DOMAIN old |-> IF n \in DOMAIN new THEN new[n] ELSE old[n]]
  BY DEF Over
<1>8. \A n \in DOMAIN new \cup DOMAIN old :
        (IF n \in DOMAIN new THEN new[n] ELSE old[n])
          = [package |-> Walk[LastUpTo(type, k + 1, n)].dir, name |-> n]
  BY <1>3, <1>4, <1>5, <1>6
<1>9. Over(new, old) = [n \in NamesUpTo(type, k + 1) |->
                      [package |-> Walk[LastUpTo(type, k + 1, n)].dir, name |-> n]]
  BY <1>2, <1>3, <1>7, <1>8
<1> QED BY <1>9 DEF LatestUpTo, new, old

\* After the last file everything is found.
LEMMA FoundAtLast == WantedUpTo(Len(Walk)) = Wanted
<1> SUFFICES ASSUME NEW type PROVE LatestUpTo(type, Len(Walk)) = Latest(type)
  BY DEF WantedUpTo, Wanted
<1> DEFINE k == Len(Walk)
           marked == [i \in Read |-> Marked(Walk[i], files[Walk[i]], type)]
           names == UNION {DOMAIN marked[i] : i \in Read}
           last(n) == CHOOSE i \in Read : /\ n \in DOMAIN marked[i]
                                          /\ \A j \in Read : j > i => n \notin DOMAIN marked[j]
<1>1. k \in Nat /\ \A i \in Read : i <= k BY WalkNumbers
<1>2. names = NamesUpTo(type, k) BY <1>1 DEF NamesUpTo
<1>3. ASSUME NEW n \in names
      PROVE  marked[last(n)][n] = [package |-> Walk[LastUpTo(type, k, n)].dir, name |-> n]
  <2> DEFINE i == LastUpTo(type, k, n)
  <2>1. i \in Read /\ IsLast(type, k, i, n) BY <1>1, <1>2, <1>3, LastMark
  <2>2. \A j \in Read : MarksName(type, j, n) <=> n \in DOMAIN marked[j] BY DEF MarksName
  <2>3. \A j \in Read : IsLast(type, k, j, n) <=>
          n \in DOMAIN marked[j] /\ \A x \in Read : x > j => n \notin DOMAIN marked[x]
    <3>1. \A x, j \in Read : x > j <=> j < x BY WalkNumbers
    <3> HIDE DEF marked, k
    <3> QED BY <1>1, <2>2, <3>1 DEF IsLast
  <2> HIDE DEF marked, i, k
  <2>4. last(n) = i
    <3>1. last(n) \in Read /\ IsLast(type, k, last(n), n) BY <2>1, <2>3
    <3> QED BY <1>1, <2>1, <3>1, OneLastMark
  <2>5. n \in DOMAIN Marked(Walk[i], files[Walk[i]], type) BY <2>1 DEF IsLast, MarksName
  <2>6. Marked(Walk[i], files[Walk[i]], type)[n] = [package |-> Walk[i].dir, name |-> n]
    BY <2>5 DEF Marked
  <2> QED BY <2>1, <2>4, <2>6 DEF marked, i
<1>4. Latest(type) = [n \in names |-> marked[last(n)][n]] BY DEF Latest
<1> HIDE DEF marked, names, last, k
<1>5. Latest(type) = [n \in NamesUpTo(type, k) |->
                        [package |-> Walk[LastUpTo(type, k, n)].dir, name |-> n]]
  BY <1>2, <1>3, <1>4
<1> QED BY <1>5 DEF LatestUpTo, k

-----------------------------------------------------------------------------
(* The invariant of the generator.                                          *)

Writing == {"create", "clause", "body"}

\* What the generator writes marks nothing.
OutputsUnmarked ==
  /\ DOMAIN files = Range(Walk)
  /\ \A f \in Range(Outputs) : files[f] = Absent \/ files[f].marks = <<>>

\* A run that nothing disturbed knows what the sources say of the files that it has
\* visited, and has written it to the files before the one it is at.
RunOK ==
  agree =>
    /\ pc = "walk" => \A k \in 0 .. Len(Walk) : next = k + 1 => located = WantedUpTo(k)
    /\ pc \in Writing =>
         /\ located = Wanted
         /\ \A i \in 1 .. next - 1 :
              \/ files[Outputs[i]].data = Wanted
              \/ pc # "create" /\ Outputs[i] = Outputs[next]

\* Where a run is.
PositionOK ==
  /\ pc \in {"idle", "walk"} \cup Writing
  /\ pc = "idle" => next = 1
  /\ pc = "walk" => next \in 1 .. Len(Walk) + 1
  /\ pc \in Writing => next \in 1 .. Len(Outputs)
  /\ edits \in 0 .. MaxEdits /\ deaths \in 0 .. MaxDeaths /\ agree \in BOOLEAN

GenInv == OutputsUnmarked /\ PositionOK /\ RunOK /\ OutputsAgree

\* The files' numbers.
LEMMA OutputNumbers ==
  /\ Len(Outputs) \in Nat /\ Len(Outputs) >= 1 /\ Len(Walk) \in Nat
  /\ Range(Outputs) = {Outputs[i] : i \in 1 .. Len(Outputs)}
  /\ Range(Walk) = {Walk[i] : i \in 1 .. Len(Walk)}
  /\ Range(Outputs) \subseteq Range(Walk)
  /\ DOMAIN Walk = 1 .. Len(Walk)
<1>1. /\ Walk \in Seq(Range(Walk)) /\ Outputs \in Seq(Range(Walk)) /\ Outputs # <<>>
      /\ MaxEdits \in Nat /\ MaxDeaths \in Nat
  BY EvercoregenAssumption DEF EvercoregenAssumption
<1>2. Len(Outputs) >= 1 BY <1>1
<1>3. \A i \in 1 .. Len(Outputs) : Outputs[i] \in Range(Walk) BY <1>1
<1> QED BY <1>1, <1>2, <1>3 DEF Range

\* Nothing is marked, there is no run.
LEMMA InitGen == GenInit => GenInv
<1> SUFFICES ASSUME GenInit PROVE GenInv OBVIOUS
<1>1. PICK p \in Projects : files = [f \in Range(Walk) |-> IF f \in Sources THEN p[f] ELSE Absent]
  BY DEF GenInit
<1>2. OutputsUnmarked BY <1>1, OutputNumbers DEF OutputsUnmarked, Sources
<1>3. PositionOK
  <2>1. 0 \in 0 .. MaxEdits /\ 0 \in 0 .. MaxDeaths
    BY EvercoregenAssumption DEF EvercoregenAssumption
  <2>2. pc = "idle" /\ next = 1 /\ edits = 0 /\ deaths = 0 /\ agree = FALSE BY DEF GenInit
  <2> QED BY <2>1, <2>2 DEF PositionOK, Writing
<1>4. RunOK /\ OutputsAgree BY DEF GenInit, RunOK, OutputsAgree
<1> QED BY <1>2, <1>3, <1>4 DEF GenInv

\* What the files are wanted to be depends on the files.
LEMMA SameFiles ==
  files' = files => Wanted' = Wanted /\ \A k : WantedUpTo(k)' = WantedUpTo(k)
<1> SUFFICES ASSUME files' = files PROVE Wanted' = Wanted /\ \A k : WantedUpTo(k)' = WantedUpTo(k)
  OBVIOUS
<1>1. Read' = Read BY DEF Read, Skipped
<1>2. \A type : Latest(type)' = Latest(type) BY <1>1 DEF Latest
<1>3. \A type, k : LatestUpTo(type, k)' = LatestUpTo(type, k)
  <2>1. \A type, i, n : MarksName(type, i, n)' <=> MarksName(type, i, n) BY <1>1 DEF MarksName
  <2>2. \A type, k, n : LastUpTo(type, k, n)' = LastUpTo(type, k, n)
    BY <1>1, <2>1 DEF LastUpTo, IsLast
  <2>3. \A type, k : NamesUpTo(type, k)' = NamesUpTo(type, k) BY <1>1 DEF NamesUpTo
  <2> QED BY <2>2, <2>3 DEF LatestUpTo
<1> QED BY <1>2, <1>3 DEF Wanted, WantedUpTo

FoundOK == WantedUpTo(0) = Nothing /\ WantedUpTo(Len(Walk)) = Wanted

\* The same of the next state.
LEMMA FoundNext == WantedUpTo(0)' = Nothing /\ WantedUpTo(Len(Walk))' = Wanted'
<1>1. FoundOK BY FoundAtFirst, FoundAtLast DEF FoundOK
<1>2. FoundOK' BY <1>1, PTL
<1> QED BY <1>2 DEF FoundOK, Nothing

\* What the generator writes into a file of its own changes nothing of what it should find.
LEMMA WritingMarksNothing ==
  ASSUME OutputsUnmarked, NEW o \in Range(Outputs), NEW c, c.marks = <<>>,
         files' = [files EXCEPT ![o] = c]
  PROVE  OutputsUnmarked' /\ Wanted' = Wanted
<1>1. OutputsUnmarked' BY DEF OutputsUnmarked
<1>2. \A f \in Range(Walk) : f # o => files'[f] = files[f] BY DEF OutputsUnmarked
<1>3. files'[o] = c BY OutputNumbers DEF OutputsUnmarked
<1>4. \A i \in DOMAIN Walk : Walk[i] \in Range(Walk) BY DEF Range
<1>5. \A f, type : \A d : d.marks = <<>> => DOMAIN Marked(f, d, type) = {}
  <2> SUFFICES ASSUME NEW f, NEW type, NEW d, d.marks = <<>>
               PROVE  DOMAIN Marked(f, d, type) = {}
    OBVIOUS
  <2>1. Range(d.marks) = {} BY DEF Range
  <2> QED BY <2>1 DEF Marked
<1>6. ASSUME NEW type, NEW i, NEW n PROVE MarksName(type, i, n)' <=> MarksName(type, i, n)
  <2>1. CASE i \in DOMAIN Walk /\ Walk[i] = o
    <3>1. ~(n \in DOMAIN Marked(Walk[i], files'[Walk[i]], type)) BY <1>3, <1>5, <2>1
    <3>2. ~MarksName(type, i, n)' BY <3>1 DEF MarksName
    <3>3. files[o] = Absent \/ files[o].marks = <<>> BY DEF OutputsUnmarked
    <3>4. CASE files[o] = Absent BY <2>1, <3>2, <3>4 DEF MarksName, Read, Skipped
    <3>5. CASE files[o].marks = <<>>
      <4>1. ~(n \in DOMAIN Marked(Walk[i], files[Walk[i]], type)) BY <1>5, <2>1, <3>5
      <4> QED BY <3>2, <4>1 DEF MarksName
    <3> QED BY <3>3, <3>4, <3>5
  <2>2. CASE i \in DOMAIN Walk /\ Walk[i] # o
    <3>1. files'[Walk[i]] = files[Walk[i]] BY <1>2, <1>4, <2>2
    <3>2. i \in Read' <=> i \in Read BY <3>1 DEF Read, Skipped
    <3> QED BY <3>1, <3>2 DEF MarksName
  <2>3. CASE i \notin DOMAIN Walk BY <2>3 DEF MarksName, Read
  <2> QED BY <2>1, <2>2, <2>3
<1>7. ASSUME NEW type, NEW k PROVE LatestUpTo(type, k)' = LatestUpTo(type, k)
  <2>1. NamesUpTo(type, k)' = NamesUpTo(type, k)
    <3>1. ASSUME NEW n PROVE n \in NamesUpTo(type, k) <=> \E i : i <= k /\ MarksName(type, i, n)
      BY DEF NamesUpTo, MarksName
    <3>2. ASSUME NEW n
          PROVE  n \in NamesUpTo(type, k)' <=> \E i : i <= k /\ MarksName(type, i, n)'
      BY DEF NamesUpTo, MarksName
    <3> QED BY <1>6, <3>1, <3>2
  <2>2. ASSUME NEW n PROVE LastUpTo(type, k, n)' = LastUpTo(type, k, n)
    <3>1. \A i : i \in Read /\ IsLast(type, k, i, n)
                   <=> /\ i <= k /\ MarksName(type, i, n)
                       /\ \A j : i < j /\ j <= k => ~MarksName(type, j, n)
      BY DEF IsLast, MarksName
    <3>2. \A i : i \in Read' /\ IsLast(type, k, i, n)'
                   <=> /\ i <= k /\ MarksName(type, i, n)'
                       /\ \A j : i < j /\ j <= k => ~MarksName(type, j, n)'
      BY DEF IsLast, MarksName
    <3>3. \A i : i \in Read' /\ IsLast(type, k, i, n)' <=> i \in Read /\ IsLast(type, k, i, n)
      BY <1>6, <3>1, <3>2
    <3> QED BY <3>3 DEF LastUpTo
  <2> QED BY <2>1, <2>2 DEF LatestUpTo
<1>8. WantedUpTo(Len(Walk))' = WantedUpTo(Len(Walk)) BY <1>7 DEF WantedUpTo
<1> QED BY <1>1, <1>8, FoundAtLast, FoundNext

-----------------------------------------------------------------------------
(* Its steps.                                                               *)

\* A run starts knowing nothing, as it should of no files.
LEMMA StartKeepsInv == GenInv /\ Start => GenInv'
<1> SUFFICES ASSUME GenInv, Start PROVE GenInv' OBVIOUS
<1>1. files' = files /\ pc' = "walk" /\ next' = 1 /\ located' = Nothing BY DEF Start
<1>2. OutputsUnmarked' BY <1>1 DEF GenInv, OutputsUnmarked
<1>3. PositionOK' BY OutputNumbers DEF GenInv, PositionOK, Start, Writing
<1>4. RunOK'
  <2>1. \A k \in 0 .. Len(Walk) : next' = k + 1 => k = 0 BY <1>1, OutputNumbers
  <2>2. \A k \in 0 .. Len(Walk) : next' = k + 1 => located' = WantedUpTo(k)'
    BY <1>1, <2>1, FoundNext
  <2> QED BY <1>1, <2>2 DEF RunOK, Writing
<1>5. OutputsAgree' BY <1>1 DEF OutputsAgree
<1> QED BY <1>2, <1>3, <1>4, <1>5 DEF GenInv

\* What a run knows grows by what the file at hand marks.
LEMMA VisitKeepsInv == GenInv /\ Visit => GenInv'
<1> SUFFICES ASSUME GenInv, Visit PROVE GenInv' OBVIOUS
<1> DEFINE f == Walk[next]
<1>1. /\ files' = files /\ pc = "walk" /\ pc' = "walk" /\ next' = next + 1 /\ agree' = agree
      /\ next <= Len(Walk) /\ edits' = edits /\ deaths' = deaths
      /\ located' = IF Skipped(f) THEN located ELSE Merge(f, files[f])
  BY DEF Visit
<1>2. next \in 1 .. Len(Walk) /\ next \in DOMAIN Walk
  BY <1>1, OutputNumbers DEF GenInv, PositionOK
<1>3. OutputsUnmarked' BY <1>1 DEF GenInv, OutputsUnmarked
<1>4. PositionOK' BY <1>1, <1>2, OutputNumbers DEF GenInv, PositionOK, Writing
<1>5. agree => located' = WantedUpTo(next)
  <2> SUFFICES ASSUME agree PROVE located' = WantedUpTo(next) OBVIOUS
  <2> DEFINE k == next - 1
  <2>1. k \in Nat /\ k + 1 = next /\ k \in 0 .. Len(Walk) BY <1>2, OutputNumbers
  <2>2. located = WantedUpTo(k) BY <1>1, <2>1 DEF GenInv, RunOK
  <2>3. located.aggregates = LatestUpTo("aggregate", k)
        /\ located.stateEvents = LatestUpTo("state-event", k)
        /\ located.events = LatestUpTo("event", k)
    BY <2>2 DEF WantedUpTo
  <2> HIDE DEF k
  <2>4. CASE Skipped(f)
    <3>1. k + 1 \notin Read BY <2>1, <2>4 DEF Read
    <3>2. \A type : LatestUpTo(type, k + 1) = LatestUpTo(type, k) BY <2>1, <3>1, SkippedFile
    <3>3. \A type : LatestUpTo(type, next) = LatestUpTo(type, k) BY <2>1, <3>2
    <3> QED BY <1>1, <2>2, <2>4, <3>3 DEF WantedUpTo
  <2>5. CASE ~Skipped(f)
    <3>1. k + 1 \in Read BY <1>2, <2>1, <2>5 DEF Read
    <3>2. \A type : Over(Marked(Walk[k + 1], files[Walk[k + 1]], type), LatestUpTo(type, k))
                      = LatestUpTo(type, k + 1)
      BY <2>1, <3>1, FileGoesOver
    <3>3. \A type : Over(Marked(f, files[f], type), LatestUpTo(type, k)) = LatestUpTo(type, next)
      BY <2>1, <3>2
    <3>4. located' = Merge(f, files[f]) BY <1>1, <2>5
    <3> QED BY <2>3, <3>3, <3>4 DEF Merge, WantedUpTo
  <2> QED BY <2>4, <2>5
<1>6. RunOK'
  <2>1. \A k \in 0 .. Len(Walk) : next' = k + 1 => k = next BY <1>1, <1>2
  <2>2. \A k : WantedUpTo(k)' = WantedUpTo(k) BY <1>1, SameFiles
  <2>3. agree => \A k \in 0 .. Len(Walk) : next' = k + 1 => located' = WantedUpTo(k)'
    BY <1>5, <2>1, <2>2
  <2> QED BY <1>1, <2>3 DEF RunOK, Writing
<1>7. OutputsAgree' BY <1>1 DEF OutputsAgree
<1> QED BY <1>3, <1>4, <1>6, <1>7 DEF GenInv

\* At the end of the walk the run knows everything it should.
LEMMA EndWalkKeepsInv == GenInv /\ EndWalk => GenInv'
<1> SUFFICES ASSUME GenInv, EndWalk PROVE GenInv' OBVIOUS
<1>1. /\ files' = files /\ pc = "walk" /\ pc' = "create" /\ next' = 1 /\ agree' = agree
      /\ next > Len(Walk) /\ located' = located /\ edits' = edits /\ deaths' = deaths
  BY DEF EndWalk
<1>2. next = Len(Walk) + 1 /\ Len(Walk) \in 0 .. Len(Walk)
  BY <1>1, OutputNumbers DEF GenInv, PositionOK
<1>3. OutputsUnmarked' BY <1>1 DEF GenInv, OutputsUnmarked
<1>4. PositionOK' BY <1>1, OutputNumbers DEF GenInv, PositionOK, Writing
<1>5. agree => located = Wanted
  <2>1. agree => located = WantedUpTo(Len(Walk)) BY <1>1, <1>2 DEF GenInv, RunOK
  <2> QED BY <2>1, FoundAtLast
<1>6. RunOK'
  <2>1. Wanted' = Wanted BY <1>1, SameFiles
  <2>2. 1 .. next' - 1 = {} BY <1>1
  <2> QED BY <1>1, <1>5, <2>1, <2>2 DEF RunOK, Writing
<1>7. OutputsAgree' BY <1>1 DEF OutputsAgree
<1> QED BY <1>3, <1>4, <1>6, <1>7 DEF GenInv

\* An error or a death ends the run, and the files are whatever they are.
LEMMA ExitKeepsInv == GenInv /\ (Refuse \/ Die) => GenInv'
<1> SUFFICES ASSUME GenInv, Refuse \/ Die PROVE GenInv' OBVIOUS
<1>1. files' = files /\ pc' = "idle" /\ next' = 1 /\ agree' = FALSE /\ edits' = edits
  BY DEF Refuse, Die, Exit
<1>2. OutputsUnmarked' BY <1>1 DEF GenInv, OutputsUnmarked
<1>3. deaths' \in 0 .. MaxDeaths
  BY EvercoregenAssumption DEF EvercoregenAssumption, GenInv, PositionOK, Refuse, Die
<1>4. PositionOK' BY <1>1, <1>3 DEF GenInv, PositionOK, Writing
<1>5. RunOK' /\ OutputsAgree' BY <1>1 DEF RunOK, OutputsAgree
<1> QED BY <1>2, <1>4, <1>5 DEF GenInv

\* The output at hand was wanted, is no longer, and will be again.
LEMMA CreateKeepsInv == GenInv /\ (Create \/ WriteClause) => GenInv'
<1> SUFFICES ASSUME GenInv, Create \/ WriteClause PROVE GenInv' OBVIOUS
<1> DEFINE o == Outputs[next]
           c == IF pc = "create" THEN EmptyFile ELSE Clause(<<>>)
<1>1. /\ files' = [files EXCEPT ![o] = c] /\ next' = next /\ agree' = agree /\ located' = located
      /\ pc \in Writing /\ pc' \in {"clause", "body"} /\ edits' = edits /\ deaths' = deaths
      /\ c.marks = <<>>
  BY DEF Create, WriteClause, Write, Writing, EmptyFile, Clause
<1>2. next \in 1 .. Len(Outputs) /\ o \in Range(Outputs)
  BY <1>1, OutputNumbers DEF GenInv, PositionOK
<1> HIDE DEF c
<1>3. OutputsUnmarked' /\ Wanted' = Wanted BY <1>1, <1>2, WritingMarksNothing DEF GenInv
<1>4. PositionOK' BY <1>1 DEF GenInv, PositionOK, Writing
<1>5. RunOK'
  <2> SUFFICES ASSUME agree PROVE RunOK' BY <1>1 DEF RunOK
  <2>1. located' = Wanted' BY <1>1, <1>3 DEF GenInv, RunOK
  <2>2. ASSUME NEW i \in 1 .. next - 1, Outputs[i] # o PROVE files'[Outputs[i]].data = Wanted'
    <3>1. files[Outputs[i]].data = Wanted BY <1>1, <2>2 DEF GenInv, RunOK
    <3>2. files'[Outputs[i]] = files[Outputs[i]]
      <4>1. i \in 1 .. Len(Outputs) BY <1>2, OutputNumbers
      <4>2. Outputs[i] \in Range(Walk) BY <4>1, OutputNumbers
      <4> QED BY <1>1, <2>2, <4>2 DEF GenInv, OutputsUnmarked
    <3> QED BY <1>3, <3>1, <3>2
  <2> QED BY <1>1, <2>1, <2>2 DEF RunOK, Writing
<1>6. OutputsAgree' BY <1>1 DEF OutputsAgree
<1> QED BY <1>3, <1>4, <1>5, <1>6 DEF GenInv

\* One more output is wanted; with the last one, all are.
LEMMA WriteBodyKeepsInv == GenInv /\ WriteBody => GenInv'
<1> SUFFICES ASSUME GenInv, WriteBody PROVE GenInv' OBVIOUS
<1> DEFINE o == Outputs[next]
           c == [package |-> TRUE, marks |-> <<>>, data |-> located]
<1>1. /\ files' = [files EXCEPT ![o] = c] /\ agree' = agree /\ pc = "body"
      /\ edits' = edits /\ deaths' = deaths /\ c.marks = <<>>
  BY DEF WriteBody, Write
<1>2. IF next < Len(Outputs)
        THEN pc' = "create" /\ next' = next + 1 /\ located' = located
        ELSE pc' = "idle" /\ next' = 1
  BY DEF WriteBody, Exit
<1>3. next \in 1 .. Len(Outputs) /\ o \in Range(Outputs)
  BY <1>1, OutputNumbers DEF GenInv, PositionOK, Writing
<1>4. c.data = located OBVIOUS
<1> HIDE DEF c
<1>5. OutputsUnmarked' /\ Wanted' = Wanted BY <1>1, <1>3, WritingMarksNothing DEF GenInv
<1>6. PositionOK' BY <1>1, <1>2, <1>3, OutputNumbers DEF GenInv, PositionOK, Writing
<1>7. ASSUME agree PROVE \A i \in 1 .. next : files'[Outputs[i]].data = Wanted'
  <2> SUFFICES ASSUME NEW i \in 1 .. next PROVE files'[Outputs[i]].data = Wanted' OBVIOUS
  <2>1. located = Wanted BY <1>1, <1>7 DEF GenInv, RunOK, Writing
  <2>2. Outputs[i] \in Range(Walk) /\ o \in Range(Walk)
    <3>1. i \in 1 .. Len(Outputs) BY <1>3, OutputNumbers
    <3>2. Outputs[i] \in Range(Walk) BY <3>1, OutputNumbers
    <3> QED BY <1>3, <3>2, OutputNumbers
  <2>3. CASE Outputs[i] = o
    <3>1. files'[Outputs[i]] = c BY <1>1, <2>2, <2>3 DEF GenInv, OutputsUnmarked
    <3> QED BY <1>4, <1>5, <2>1, <3>1
  <2>4. CASE Outputs[i] # o
    <3>1. i \in 1 .. next - 1 BY <1>3, <2>4
    <3>2. files[Outputs[i]].data = Wanted BY <1>1, <1>7, <2>4, <3>1 DEF GenInv, RunOK, Writing
    <3>3. files'[Outputs[i]] = files[Outputs[i]] BY <1>1, <2>2, <2>4 DEF GenInv, OutputsUnmarked
    <3> QED BY <1>5, <3>2, <3>3
  <2> QED BY <2>3, <2>4
<1>8. RunOK'
  <2> SUFFICES ASSUME agree, next < Len(Outputs) PROVE RunOK' BY <1>1, <1>2 DEF RunOK, Writing
  <2>1. located' = Wanted' BY <1>1, <1>2, <1>5 DEF GenInv, RunOK, Writing
  <2>2. 1 .. next' - 1 = 1 .. next BY <1>2, <1>3
  <2> QED BY <1>1, <1>2, <1>7, <2>1, <2>2 DEF RunOK, Writing
<1>9. OutputsAgree'
  <2> SUFFICES ASSUME agree, next = Len(Outputs) PROVE OutputsAgree'
    BY <1>1, <1>2, <1>3 DEF OutputsAgree
  <2> QED BY <1>7, OutputNumbers DEF OutputsAgree
<1> QED BY <1>5, <1>6, <1>8, <1>9 DEF GenInv

\* Whatever the developer edits, nothing is claimed of what a run then writes.
LEMMA EditKeepsInv == ASSUME NEW p \in Projects PROVE GenInv /\ Edit(p) => GenInv'
<1> SUFFICES ASSUME GenInv, Edit(p) PROVE GenInv' OBVIOUS
<1>1. /\ files' = [f \in Range(Walk) |-> IF f \in Sources THEN p[f] ELSE files[f]]
      /\ agree' = FALSE /\ pc' = pc /\ next' = next /\ deaths' = deaths
      /\ edits < MaxEdits /\ edits' = edits + 1
  BY DEF Edit
<1>2. OutputsUnmarked' BY <1>1, OutputNumbers DEF GenInv, OutputsUnmarked, Sources
<1>3. PositionOK'
  <2>1. MaxEdits \in Nat BY EvercoregenAssumption DEF EvercoregenAssumption
  <2>2. edits' \in 0 .. MaxEdits BY <1>1, <2>1 DEF GenInv, PositionOK
  <2> QED BY <1>1, <2>2 DEF GenInv, PositionOK, Writing
<1>4. RunOK' /\ OutputsAgree' BY <1>1 DEF RunOK, OutputsAgree
<1> QED BY <1>2, <1>3, <1>4 DEF GenInv

\* Every step of the generator or of the developer keeps the invariant.
LEMMA GenStep == GenInv /\ [GenNext]_genVars => GenInv'
<1>1. GenInv /\ UNCHANGED genVars => GenInv'
  <2> SUFFICES ASSUME GenInv, UNCHANGED genVars PROVE GenInv' OBVIOUS
  <2>1. Wanted' = Wanted /\ \A k : WantedUpTo(k)' = WantedUpTo(k) BY SameFiles DEF genVars
  <2>2. RunOK' BY <2>1 DEF genVars, GenInv, RunOK, Writing
  <2>3. OutputsAgree' BY <2>1 DEF genVars, GenInv, OutputsAgree
  <2>4. OutputsUnmarked' /\ PositionOK' BY DEF genVars, GenInv, OutputsUnmarked, PositionOK, Writing
  <2> QED BY <2>2, <2>3, <2>4 DEF GenInv
<1> QED BY <1>1, StartKeepsInv, VisitKeepsInv, EndWalkKeepsInv, ExitKeepsInv, CreateKeepsInv,
        WriteBodyKeepsInv, EditKeepsInv DEF GenNext

\* A run that agrees with the sources is the generator's own affair: a build and a
\* context change none of its files.
LEMMA ProjectKeepsGenInv == GenInv /\ [Next]_vars => GenInv'
<1> SUFFICES ASSUME GenInv, [Next]_vars PROVE GenInv' OBVIOUS
<1>1. [GenNext]_genVars BY DEF Next, Generate, Build, Run, vars
<1> QED BY <1>1, GenStep

\* Whatever edits, errors and deaths came before, when the last run has ended without
\* error and nothing was edited since it started, all three generated files hold what
\* the sources say.
THEOREM GeneratedFilesAgree == Spec => []OutputsAgree
<1>1. Init => GenInv BY InitGen DEF Init
<1>2. GenInv => OutputsAgree BY DEF GenInv
<1> QED BY <1>1, <1>2, ProjectKeepsGenInv, PTL DEF Spec

-----------------------------------------------------------------------------
(* The structs that a program decodes.                                      *)

\* Every state event that a map names has its fields given.
Known(data) == \A n \in DOMAIN data.stateEvents : data.stateEvents[n] \in Structs
KnownSource(f, content) ==
  content # Absent =>
    \A m \in Range(content.marks) : m.type = "state-event" /\ m.struct # NoStruct =>
      [package |-> f.dir, name |-> m.struct] \in Structs

\* So it is of every map of the generator's and of the program's.
KnownInv ==
  /\ Known(located) /\ Known(program)
  /\ \A f \in Sources : KnownSource(f, files[f])
  /\ \A f \in Range(Outputs) :
       files[f] # Absent => files[f].data = Absent \/ Known(files[f].data)

\* Maps without entries are known.
LEMMA NothingKnown == Known(Nothing)
BY DEF Known, Nothing

\* So it is of the first sources.
LEMMA InitKnown == Init => KnownInv
<1> SUFFICES ASSUME Init PROVE KnownInv OBVIOUS
<1>1. PICK p \in Projects : files = [f \in Range(Walk) |-> IF f \in Sources THEN p[f] ELSE Absent]
  BY DEF Init, GenInit
<1>2. \A f \in Sources : KnownSource(f, files[f])
  BY <1>1, GeneratedProjectAssumption DEF GeneratedProjectAssumption, KnownSource, Sources
<1>3. \A f \in Range(Outputs) : files[f] = Absent BY <1>1, OutputNumbers DEF Sources
<1>4. located = Nothing /\ program = Nothing BY DEF Init, GenInit
<1> QED BY <1>2, <1>3, <1>4, NothingKnown DEF KnownInv

\* What a file that is not refused adds is known.
LEMMA VisitKnown == KnownInv /\ GenInv /\ Visit => Known(located')
<1> SUFFICES ASSUME KnownInv, GenInv, Visit, ~Skipped(Walk[next]) PROVE Known(located')
  BY DEF KnownInv, Visit
<1> DEFINE f == Walk[next]
           new == Marked(f, files[f], "state-event")
           old == located.stateEvents
<1>1. ~Refuses(files[f]) /\ files[f] # Absent /\ located' = Merge(f, files[f])
  BY DEF Visit, Skipped
<1>2. f \in Range(Walk)
  <2>1. next \in 1 .. Len(Walk) BY OutputNumbers DEF Visit, GenInv, PositionOK
  <2> QED BY <2>1, OutputNumbers
<1>3. located'.stateEvents = Over(new, old) BY <1>1 DEF Merge
<1>4. ASSUME NEW n \in DOMAIN new PROVE new[n] \in Structs
  <2>1. PICK m \in Range(files[f].marks) : m.type = "state-event" /\ m.struct = n
    BY <1>4 DEF Marked
  <2>2. new[n] = [package |-> f.dir, name |-> n] BY <1>4 DEF Marked
  <2>3. m.struct # NoStruct BY <1>1, <2>1 DEF Refuses
  <2>4. CASE f \in Sources BY <1>1, <2>1, <2>2, <2>3, <2>4 DEF KnownInv, KnownSource
  <2>5. CASE f \in Range(Outputs)
    <3>1. files[f].marks = <<>> BY <1>1, <2>5 DEF GenInv, OutputsUnmarked
    <3> QED BY <2>1, <3>1 DEF Range
  <2> QED BY <1>2, <2>4, <2>5 DEF Sources
<1>5. \A n \in DOMAIN old : old[n] \in Structs BY DEF KnownInv, Known
<1> HIDE DEF new, old
<1>6. DOMAIN Over(new, old) = DOMAIN new \cup DOMAIN old
      /\ \A n \in DOMAIN Over(new, old) : Over(new, old)[n] = IF n \in DOMAIN new THEN new[n] ELSE old[n]
  BY DEF Over
<1> QED BY <1>3, <1>4, <1>5, <1>6 DEF Known

\* Only maps that are known are written, and the sources are always those of a project.
LEMMA KnownStep == KnownInv /\ GenInv /\ [Next]_vars => KnownInv'
<1> SUFFICES ASSUME KnownInv, GenInv, [Next]_vars PROVE KnownInv' OBVIOUS
<1>1. CASE Generate
  <2>1. program' = program BY <1>1 DEF Generate
  <2> DEFINE SourcesKnown == \A f \in Sources : KnownSource(f, files[f])
             OutputsKnown == \A f \in Range(Outputs) :
               files[f] # Absent => files[f].data = Absent \/ Known(files[f].data)
  <2>2. SUFFICES Known(located') /\ SourcesKnown' /\ OutputsKnown' BY <2>1 DEF KnownInv
  <2>3. CASE files' = files
    <3>1. SourcesKnown' /\ OutputsKnown' BY <2>3 DEF KnownInv
    <3>2. Known(located')
      <4>1. Visit \/ located' = located \/ located' = Nothing
        BY <1>1, <2>3 DEF Generate, GenNext, Start, Refuse, EndWalk, Create, WriteClause, WriteBody,
                     Die, Edit, Exit
      <4> QED BY <4>1, VisitKnown, NothingKnown DEF KnownInv
    <3> QED BY <3>1, <3>2
  <2>4. CASE Create \/ WriteClause \/ WriteBody
    <3> DEFINE o == Outputs[next]
    <3>1. PICK c : files' = [files EXCEPT ![o] = c] /\ (c.data = Absent \/ c.data = located)
      BY <2>4 DEF Create, WriteClause, WriteBody, Write, EmptyFile, Clause
    <3>2. Known(located') BY <2>4, NothingKnown DEF Create, WriteClause, WriteBody, Exit, KnownInv
    <3>3. next \in 1 .. Len(Outputs)
      BY <2>4 DEF GenInv, PositionOK, Create, WriteClause, WriteBody, Writing
    <3>4. o \in Range(Outputs) BY <3>3, OutputNumbers
    <3>5. SourcesKnown' BY <3>1, <3>4 DEF KnownInv, GenInv, OutputsUnmarked, Sources
    <3>6. OutputsKnown'
      <4> SUFFICES ASSUME NEW f \in Range(Outputs), files'[f] # Absent
                   PROVE  files'[f].data = Absent \/ Known(files'[f].data)
        OBVIOUS
      <4>1. f \in DOMAIN files BY OutputNumbers DEF GenInv, OutputsUnmarked
      <4>2. CASE f = o BY <3>1, <4>1, <4>2 DEF KnownInv
      <4>3. CASE f # o BY <3>1, <4>1, <4>3 DEF KnownInv
      <4> QED BY <4>2, <4>3
    <3> QED BY <3>2, <3>5, <3>6
  <2>5. ASSUME NEW p \in Projects, Edit(p) PROVE Known(located') /\ SourcesKnown' /\ OutputsKnown'
    <3>1. files' = [f \in Range(Walk) |-> IF f \in Sources THEN p[f] ELSE files[f]]
          /\ located' = located
      BY <2>5 DEF Edit
    <3>2. SourcesKnown'
      BY <3>1, GeneratedProjectAssumption DEF GeneratedProjectAssumption, KnownSource, Sources
    <3>3. \A f \in Range(Outputs) : files'[f] = files[f] BY <3>1, OutputNumbers DEF Sources
    <3> QED BY <3>1, <3>2, <3>3 DEF KnownInv
  <2> QED BY <1>1, <2>3, <2>4, <2>5 DEF Generate, GenNext, Start, Visit, Refuse, EndWalk, Die
<1>2. CASE Build
  <2>1. program' = Data(1) /\ files' = files /\ located' = located BY <1>2 DEF Build, genVars
  <2>2. Outputs[1] \in Range(Outputs) BY OutputNumbers
  <2>3. files[Outputs[1]] # Absent /\ files[Outputs[1]].data # Absent
    BY <1>2, <2>2 DEF Build, Compiles
  <2> QED BY <2>1, <2>2, <2>3 DEF KnownInv, Data
<1>3. CASE Run \/ UNCHANGED vars
  <2>1. files' = files /\ located' = located /\ program' = program
    BY <1>3 DEF Run, vars, genVars
  <2> QED BY <2>1 DEF KnownInv
<1> QED BY <1>1, <1>2, <1>3 DEF Next

\* A program that was built after a run that agreed decodes the names that its sources
\* mark to structs that they mark.
ProgramInv ==
  sound =>
    /\ \A s \in marks : s.name \in DOMAIN program.stateEvents
    /\ \A n \in DOMAIN program.stateEvents :
         program.stateEvents[n] \in marks /\ program.stateEvents[n].name = n

\* What Wanted says of state events is about the structs that are marked.
LEMMA WantedMarks ==
  ASSUME GenInv
  PROVE  /\ \A s \in StateEventsMarked : s.name \in DOMAIN Wanted.stateEvents
         /\ \A n \in DOMAIN Wanted.stateEvents :
              Wanted.stateEvents[n] \in StateEventsMarked /\ Wanted.stateEvents[n].name = n
<1> DEFINE se == "state-event"
           k == Len(Walk)
<1>1. k \in Nat /\ \A i \in Read : i <= k BY WalkNumbers
<1>2. Wanted.stateEvents = LatestUpTo(se, k)
  <2>1. Wanted = WantedUpTo(k) BY FoundAtLast
  <2> QED BY <2>1 DEF WantedUpTo
<1>3. DOMAIN Wanted.stateEvents = NamesUpTo(se, k) BY <1>2 DEF LatestUpTo
<1>4. ASSUME NEW s \in StateEventsMarked PROVE s.name \in DOMAIN Wanted.stateEvents
  <2>1. PICK f \in Sources : ~Skipped(f) /\ s \in Range(Marked(f, files[f], se))
    BY <1>4 DEF StateEventsMarked
  <2>2. PICK n \in DOMAIN Marked(f, files[f], se) : s = Marked(f, files[f], se)[n]
    BY <2>1 DEF Range
  <2>3. s.name = n BY <2>2 DEF Marked
  <2>4. PICK i \in DOMAIN Walk : f = Walk[i] BY DEF Sources, Range
  <2>5. i \in Read BY <2>1, <2>4 DEF Read
  <2>6. n \in NamesUpTo(se, k) BY <1>1, <2>2, <2>4, <2>5 DEF NamesUpTo
  <2> QED BY <1>3, <2>3, <2>6
<1>5. ASSUME NEW n \in DOMAIN Wanted.stateEvents
      PROVE  Wanted.stateEvents[n] \in StateEventsMarked /\ Wanted.stateEvents[n].name = n
  <2> DEFINE i == LastUpTo(se, k, n)
             f == Walk[i]
  <2>1. n \in NamesUpTo(se, k) BY <1>3, <1>5
  <2>2. i \in Read /\ IsLast(se, k, i, n) BY <1>1, <2>1, LastMark
  <2>3. Wanted.stateEvents[n] = [package |-> f.dir, name |-> n] BY <1>2, <2>1 DEF LatestUpTo
  <2> HIDE DEF i
  <2>4. n \in DOMAIN Marked(f, files[f], se) /\ ~Skipped(f) /\ f \in Range(Walk)
    BY <2>2 DEF IsLast, MarksName, Read, Range
  <2>5. Marked(f, files[f], se)[n] = [package |-> f.dir, name |-> n] BY <2>4 DEF Marked
  <2>6. f \in Sources
    <3> SUFFICES ASSUME f \in Range(Outputs) PROVE FALSE BY <2>4 DEF Sources
    <3>1. files[f].marks = <<>> BY <2>4 DEF GenInv, OutputsUnmarked, Skipped
    <3>2. Range(files[f].marks) = {} BY <3>1 DEF Range
    <3> QED BY <2>4, <3>2 DEF Marked
  <2>7. Wanted.stateEvents[n] \in Range(Marked(f, files[f], se)) BY <2>3, <2>4, <2>5 DEF Range
  <2>8. Wanted.stateEvents[n] \in StateEventsMarked BY <2>4, <2>6, <2>7 DEF StateEventsMarked
  <2> QED BY <2>3, <2>8
<1> QED BY <1>4, <1>5

\* A build takes what a run has written; nothing else changes the program.
LEMMA ProgramStep == ProgramInv /\ GenInv /\ [Next]_vars => ProgramInv'
<1> SUFFICES ASSUME ProgramInv, GenInv, [Next]_vars PROVE ProgramInv' OBVIOUS
<1>1. CASE Build
  <2> SUFFICES ASSUME sound' PROVE ProgramInv' BY DEF ProgramInv
  <2>1. program' = Data(1) /\ marks' = StateEventsMarked /\ agree /\ pc = "idle"
    BY <1>1 DEF Build
  <2>2. Data(1) = Wanted
    <3>1. Outputs[1] \in Range(Outputs) BY OutputNumbers
    <3> QED BY <2>1, <3>1 DEF GenInv, OutputsAgree, Data
  <2> QED BY <2>1, <2>2, WantedMarks DEF ProgramInv
<1>2. CASE Generate \/ Run \/ UNCHANGED vars
  <2>1. program' = program /\ marks' = marks /\ sound' = sound BY <1>2 DEF Generate, Run, vars
  <2> QED BY <2>1 DEF ProgramInv
<1> QED BY <1>1, <1>2 DEF Next

-----------------------------------------------------------------------------
(* Values, and the events that are stored.                                  *)

Recorded(e) == [type |-> GetEventType(e), json |-> Serialize(e), struct |-> e.struct]
Recordable == {e \in EventStates : CannotAssign(e) = {}}
Records == {Recorded(e) : e \in Recordable}

\* The states whose numbers fit their fields.
Fitting ==
  {s \in State : \A f \in DOMAIN StateFields : StateFields[f] = "narrow" => s[f].of < Width}

\* An event whose fields have values of their types, or null.
TypedEvent(e) ==
  /\ e.struct \in Structs
  /\ \A i \in DOMAIN Fields(e) : HasType(e.value[i], Fields(e)[i].type) \/ e.value[i] = Null

\* The same event, as far as its fields go.
SameEvent(d, e) ==
  d.struct = e.struct /\ \A i \in DOMAIN Fields(e) : d.value[i] = e.value[i]

\* A conversion gives a value of the type it converts to.
LEMMA ConvertFits ==
  ASSUME NEW from \in Types, NEW to \in Types, ConvertibleTo(from, to), NEW v, HasType(v, from)
  PROVE  /\ Convert(v, from, to) \in [kind : {"number", "text", "rune"}, of : Nat]
         /\ to = "narrow" => Convert(v, from, to).of < Width
<1>1. v.of \in Nat /\ v.kind \in {"number", "text"} /\ v = [kind |-> v.kind, of |-> v.of]
  BY DEF HasType
<1>2. Width \in Nat /\ Width > 0
  BY StateAggregateAssumption DEF StateAggregateAssumption
<1>3. v.of % Width \in Nat /\ v.of % Width < Width BY <1>1, <1>2
<1>4. CASE from # "text" /\ to = "text" BY <1>1, <1>4 DEF Convert
<1>5. CASE from # "text" /\ to = "narrow"
  <2>1. Convert(v, from, to) = [kind |-> "number", of |-> v.of % Width]
    BY <1>5 DEF Convert, Number
  <2> QED BY <1>3, <2>1
<1>6. CASE ~(from # "text" /\ to = "text") /\ ~(from # "text" /\ to = "narrow")
  <2>1. Convert(v, from, to) = v BY <1>6 DEF Convert
  <2>2. to # "narrow" BY <1>6 DEF ConvertibleTo, Types
  <2> QED BY <1>1, <2>1, <2>2
<1> QED BY <1>4, <1>5, <1>6

\* Copying a struct into a state that fits gives one that fits, even when it stops at
\* a field that cannot be assigned.
LEMMA CopyFits ==
  ASSUME NEW e, TypedEvent(e), NEW state \in Fitting
  PROVE  CopyFields(e, state) \in Fitting
<1> DEFINE done == {i \in Copied(e) : \A j \in CannotAssign(e) : i < j}
           value(f) ==
             IF \E i \in done : Fields(e)[i].name = f
               THEN LET i == CHOOSE i \in done : Fields(e)[i].name = f
                    IN Convert(e.value[i], Fields(e)[i].type, StateFields[f])
               ELSE state[f]
           V == [kind : {"number", "text", "rune"}, of : Nat]
<1>1. state \in State /\ \A f \in DOMAIN StateFields : state[f] \in V
  BY DEF Fitting, State
<1>2. ASSUME NEW f \in DOMAIN StateFields
      PROVE  value(f) \in V /\ (StateFields[f] = "narrow" => value(f).of < Width)
  <2>1. CASE \E i \in done : Fields(e)[i].name = f
    <3> DEFINE i == CHOOSE i \in done : Fields(e)[i].name = f
    <3>1. i \in done /\ Fields(e)[i].name = f BY <2>1
    <3> HIDE DEF i
    <3>2. i \in DOMAIN Fields(e) /\ e.value[i] # Null /\ i \in Copied(e) BY <3>1 DEF Copied
    <3>3. i \notin CannotAssign(e)
      <4>1. i \in Nat
        <5>1. DOMAIN Fields(e) = 1 .. Len(Fields(e)) /\ Len(Fields(e)) \in Nat
          BY StateAggregateAssumption DEF StateAggregateAssumption, TypedEvent, Fields
        <5> QED BY <3>2, <5>1
      <4> QED BY <3>1, <4>1
    <3>4. ConvertibleTo(Fields(e)[i].type, StateFields[f]) BY <3>1, <3>2, <3>3 DEF CannotAssign
    <3>5. HasType(e.value[i], Fields(e)[i].type) BY <3>2 DEF TypedEvent
    <3>6. Fields(e)[i].type \in Types /\ StateFields[f] \in Types
      BY <3>2, StateAggregateAssumption DEF StateAggregateAssumption, TypedEvent, Fields
    <3>7. value(f) = Convert(e.value[i], Fields(e)[i].type, StateFields[f]) BY <2>1 DEF i
    <3> QED BY <3>4, <3>5, <3>6, <3>7, ConvertFits
  <2>2. CASE ~\E i \in done : Fields(e)[i].name = f
    <3>1. value(f) = state[f] BY <2>2
    <3> QED BY <1>1, <3>1 DEF Fitting
  <2> QED BY <2>1, <2>2
<1>3. CopyFields(e, state) = [f \in DOMAIN StateFields |-> value(f)] BY DEF CopyFields
<1> HIDE DEF value
<1> QED BY <1>2, <1>3 DEF Fitting, State

\* The zero state fits.
LEMMA ZeroFits == ZeroState \in Fitting
<1>1. Width > 0 BY StateAggregateAssumption DEF StateAggregateAssumption
<1>2. \A type : Zero(type) \in [kind : {"number", "text", "rune"}, of : Nat] /\ Zero(type).of = 0
  BY DEF Zero, Number, Text
<1>3. \A f \in DOMAIN StateFields : Zero(StateFields[f]).of < Width BY <1>1, <1>2
<1> QED BY <1>2, <1>3 DEF ZeroState, Fitting, State

\* What is applied has the types that Go gives it.
LEMMA AppliedTyped == \A e \in EventStates : TypedEvent(e)
BY StateAggregateAssumption DEF StateAggregateAssumption, TypedEvent, Fields

\* What JSON has of a field is the value of the field.
LEMMA SerializeField ==
  ASSUME NEW e, e.struct \in Structs, NEW i \in DOMAIN Fields(e)
  PROVE  Fields(e)[i].name \in DOMAIN Serialize(e) /\ Serialize(e)[Fields(e)[i].name] = e.value[i]
<1> DEFINE n == Fields(e)[i].name
           j == CHOOSE j \in DOMAIN Fields(e) : Fields(e)[j].name = n
<1>1. n \in DOMAIN Serialize(e) /\ Serialize(e)[n] = e.value[j] BY DEF Serialize
<1>2. j \in DOMAIN Fields(e) /\ Fields(e)[j].name = n OBVIOUS
<1> HIDE DEF j
<1>3. j = i BY <1>2, StateAggregateAssumption DEF StateAggregateAssumption, Fields
<1> QED BY <1>1, <1>3

\* Into the struct that it was, an event is decoded whole.
LEMMA RoundTrip ==
  ASSUME NEW e \in EventStates
  PROVE  /\ Unmarshals(Serialize(e), e.struct)
         /\ SameEvent(Deserialize(Serialize(e), e.struct), e)
<1> DEFINE json == Serialize(e)
           s == e.struct
           F == StructFields[s]
<1>1. s \in Structs /\ F = Fields(e)
  BY StateAggregateAssumption DEF StateAggregateAssumption, Fields
<1>2. ASSUME NEW i \in DOMAIN F
      PROVE  /\ F[i].name \in DOMAIN json /\ json[F[i].name] = e.value[i]
             /\ e.value[i] # Null => HasType(e.value[i], F[i].type)
             /\ e.value[i] = Null => F[i].pointer
             /\ F[i].type \in Types
  <2>1. F[i].name \in DOMAIN json /\ json[F[i].name] = e.value[i] BY <1>1, SerializeField
  <2>2. F[i].type \in Types
    BY <1>1, StateAggregateAssumption DEF StateAggregateAssumption
  <2>3. HasType(e.value[i], F[i].type) \/ (F[i].pointer /\ e.value[i] = Null)
    BY StateAggregateAssumption DEF StateAggregateAssumption
  <2>4. ~HasType(Null, F[i].type)
    BY <2>2, StateAggregateAssumption DEF StateAggregateAssumption
  <2> QED BY <2>1, <2>2, <2>3, <2>4
<1> HIDE DEF json
<1>3. Unmarshals(json, s)
  <2>1. \A v, type : HasType(v, type) =>
          v.kind = Zero(type).kind /\ (type = "narrow" => v.of < Width)
    BY DEF HasType, Zero, Text, Number
  <2> QED BY <1>2, <2>1 DEF Unmarshals, HasValue
<1>4. SameEvent(Deserialize(json, s), e)
  <2> DEFINE d == Deserialize(json, s)
  <2>1. d.struct = s /\ \A i \in DOMAIN F :
          d.value[i] = IF HasValue(json, F[i]) THEN json[F[i].name]
                       ELSE IF F[i].pointer THEN Null ELSE Zero(F[i].type)
    BY DEF Deserialize
  <2> HIDE DEF d
  <2>2. \A i \in DOMAIN F : d.value[i] = e.value[i] BY <1>2, <2>1 DEF HasValue
  <2> QED BY <1>1, <2>1, <2>2 DEF SameEvent, d
<1> QED BY <1>3, <1>4 DEF json

\* What is done with an event depends on its fields alone.
LEMMA SameEventSame ==
  ASSUME NEW d, NEW e, SameEvent(d, e)
  PROVE  /\ CannotAssign(d) = CannotAssign(e)
         /\ \A state : CopyFields(d, state) = CopyFields(e, state)
         /\ Serialize(d) = Serialize(e)
<1>1. Fields(d) = Fields(e) BY DEF SameEvent, Fields
<1>2. \A i \in DOMAIN Fields(e) : d.value[i] = e.value[i] BY DEF SameEvent
<1>3. Copied(d) = Copied(e) BY <1>1, <1>2 DEF Copied
<1>4. CannotAssign(d) = CannotAssign(e) BY <1>1, <1>3 DEF CannotAssign
<1>5. \A i \in Copied(e) : i \in DOMAIN Fields(e) BY DEF Copied
<1>6. ASSUME NEW state PROVE CopyFields(d, state) = CopyFields(e, state)
  <2> DEFINE done == {i \in Copied(e) : \A j \in CannotAssign(e) : i < j}
             pick(f) == CHOOSE i \in done : Fields(e)[i].name = f
             value(v, f) ==
               IF \E i \in done : Fields(e)[i].name = f
                 THEN Convert(v[pick(f)], Fields(e)[pick(f)].type, StateFields[f])
                 ELSE state[f]
  <2>1. CopyFields(e, state) = [f \in DOMAIN StateFields |-> value(e.value, f)]
    BY DEF CopyFields
  <2>2. CopyFields(d, state) = [f \in DOMAIN StateFields |-> value(d.value, f)]
    BY <1>1, <1>3, <1>4 DEF CopyFields
  <2>3. ASSUME NEW f PROVE value(d.value, f) = value(e.value, f)
    <3>1. CASE \E i \in done : Fields(e)[i].name = f
      <4>1. pick(f) \in done BY <3>1
      <4>2. d.value[pick(f)] = e.value[pick(f)] BY <1>2, <1>5, <4>1
      <4> HIDE DEF pick
      <4> QED BY <4>2
    <3> QED BY <3>1
  <2> HIDE DEF value
  <2> QED BY <2>1, <2>2, <2>3
<1>7. Serialize(d) = Serialize(e)
  <2> DEFINE names == {Fields(e)[i].name : i \in DOMAIN Fields(e)}
             at(f) == CHOOSE i \in DOMAIN Fields(e) : Fields(e)[i].name = f
  <2>1. Serialize(e) = [f \in names |-> e.value[at(f)]] BY DEF Serialize
  <2>2. Serialize(d) = [f \in names |-> d.value[at(f)]] BY <1>1 DEF Serialize
  <2>3. \A f \in names : at(f) \in DOMAIN Fields(e) OBVIOUS
  <2> HIDE DEF at
  <2>4. \A f \in names : d.value[at(f)] = e.value[at(f)] BY <1>2, <2>3
  <2> QED BY <2>1, <2>2, <2>4
<1> QED BY <1>4, <1>6, <1>7

-----------------------------------------------------------------------------
(* What a load replays.                                                     *)

\* A set of numbers has a least one.
LEMMA LeastNumber ==
  ASSUME NEW S \in SUBSET Nat, S # {}
  PROVE  \E m \in S : \A j \in S : ~(j < m)
<1>1. PICK m \in S : \A j \in S : ~(<<j, m>> \in OpToRel(<, Nat))
  BY NatLessThanWellFounded, WFMin
<1> QED BY <1>1 DEF OpToRel

\* One step of applyState, from the states f of those before it.
ReplayStep(p, snap, n, f) ==
  IF n <= snap.sequence THEN snap.state ELSE CopyFields(DecodeEvent(p, stored[n]), f[n - 1])
Replays(f, p, snap, k) == f = [n \in 0 .. k |-> ReplayStep(p, snap, n, f)]

\* The recursion of a replay has a solution, however long the stream.
LEMMA ReplayExists ==
  ASSUME NEW p, NEW snap, snap.sequence \in Nat, NEW k \in Nat
  PROVE  \E f : Replays(f, p, snap, k)
<1> DEFINE S == {m \in Nat : ~\E f : Replays(f, p, snap, m)}
<1>1. SUFFICES ASSUME S # {} PROVE FALSE OBVIOUS
<1>2. PICK m \in S : \A j \in S : ~(j < m) BY <1>1, LeastNumber
<1>3. m \in Nat /\ ~\E f : Replays(f, p, snap, m) BY <1>2
<1>4. CASE m = 0
  <2> DEFINE f == [n \in 0 .. 0 |-> snap.state]
  <2>1. \A n \in 0 .. 0 : ReplayStep(p, snap, n, f) = snap.state BY DEF ReplayStep
  <2>2. Replays(f, p, snap, 0) BY <2>1 DEF Replays
  <2> QED BY <1>3, <1>4, <2>2
<1>5. CASE m # 0
  <2>1. m - 1 \in Nat /\ m - 1 < m BY <1>3, <1>5
  <2>2. m - 1 \notin S BY <1>2, <2>1
  <2>3. PICK f : Replays(f, p, snap, m - 1) BY <2>1, <2>2
  <2> DEFINE g == [n \in 0 .. m |-> IF n <= m - 1 THEN f[n] ELSE ReplayStep(p, snap, n, f)]
  <2>4. \A n \in 0 .. m - 1 : f[n] = ReplayStep(p, snap, n, f) BY <2>3 DEF Replays
  <2>5. ASSUME NEW n \in 0 .. m PROVE g[n] = ReplayStep(p, snap, n, g)
    <3>1. g[n] = ReplayStep(p, snap, n, f)
      <4>1. CASE n <= m - 1
        <5>1. n \in 0 .. m - 1 BY <2>1, <4>1
        <5> QED BY <2>4, <4>1, <5>1
      <4> QED BY <4>1
    <3>2. CASE n <= snap.sequence BY <3>1, <3>2 DEF ReplayStep
    <3>3. CASE ~(n <= snap.sequence)
      <4>1. n - 1 \in 0 .. m /\ n - 1 <= m - 1 BY <1>3, <3>3
      <4>2. g[n - 1] = f[n - 1] BY <4>1
      <4> HIDE DEF g
      <4> QED BY <3>1, <4>2 DEF ReplayStep
    <3> QED BY <3>2, <3>3
  <2>6. g = [n \in 0 .. m |-> g[n]] OBVIOUS
  <2> HIDE DEF g
  <2>7. Replays(g, p, snap, m) BY <2>5, <2>6 DEF Replays
  <2> QED BY <1>3, <2>7
<1> QED BY <1>4, <1>5

\* Replay is the last state of such a replay.
LEMMA ReplayIs ==
  ASSUME NEW p, NEW snap, snap.sequence \in Nat, Len(stored) \in Nat
  PROVE  \E f : Replays(f, p, snap, Len(stored)) /\ Replay(p, snap) = f[Len(stored)]
<1> DEFINE f == CHOOSE f : Replays(f, p, snap, Len(stored))
<1>1. Replays(f, p, snap, Len(stored)) BY ReplayExists
<1>2. Replay(p, snap) = f[Len(stored)] BY DEF Replay, Replays, ReplayStep
<1> QED BY <1>1, <1>2

\* A stored event that a known program decodes has the types of the struct it becomes.
LEMMA DecodedTyped ==
  ASSUME NEW p, Known(p), NEW ev \in Records, Applies(p, ev)
  PROVE  TypedEvent(DecodeEvent(p, ev))
<1>1. PICK e \in EventStates : ev.json = Serialize(e) BY DEF Records, Recordable, Recorded
<1> DEFINE s == DecodesTo(p, ev)
           d == DecodeEvent(p, ev)
           json == ev.json
<1>2. s \in Structs BY DEF Applies, DecodesTo, Known
<1>3. Unmarshals(json, s) BY DEF Applies, Decodes
<1>4. \A n \in DOMAIN json : json[n] = Null \/ \E type \in Types : HasType(json[n], type)
  <2> SUFFICES ASSUME NEW n \in DOMAIN json
               PROVE  json[n] = Null \/ \E type \in Types : HasType(json[n], type)
    OBVIOUS
  <2>1. PICK i \in DOMAIN Fields(e) : Fields(e)[i].name = n BY <1>1 DEF Serialize
  <2>2. TypedEvent(e) BY AppliedTyped
  <2>3. json[n] = e.value[i] BY <1>1, <2>1, <2>2, SerializeField DEF TypedEvent
  <2>4. Fields(e)[i].type \in Types
    BY <2>2, StateAggregateAssumption DEF StateAggregateAssumption, TypedEvent, Fields
  <2> QED BY <2>2, <2>3, <2>4 DEF TypedEvent
<1>5. d.struct = s /\ \A i \in DOMAIN StructFields[s] :
        d.value[i] = LET field == StructFields[s][i]
                     IN IF HasValue(json, field) THEN json[field.name]
                        ELSE IF field.pointer THEN Null ELSE Zero(field.type)
  BY DEF DecodeEvent, Deserialize
<1> HIDE DEF d, s, json
<1>6. ASSUME NEW i \in DOMAIN StructFields[s]
      PROVE  HasType(d.value[i], StructFields[s][i].type) \/ d.value[i] = Null
  <2> DEFINE field == StructFields[s][i]
  <2>1. d.value[i] = IF HasValue(json, field) THEN json[field.name]
                     ELSE IF field.pointer THEN Null ELSE Zero(field.type)
    BY <1>5
  <2>2. field.type \in Types BY <1>2, StateAggregateAssumption DEF StateAggregateAssumption
  <2>3. HasType(Zero(field.type), field.type)
    <3>1. Width > 0 /\ Width \in Nat BY StateAggregateAssumption DEF StateAggregateAssumption
    <3> QED BY <3>1 DEF HasType, Zero, Text, Number
  <2>4. HasValue(json, field) =>
          /\ json[field.name].kind = Zero(field.type).kind
          /\ field.type = "narrow" => json[field.name].of < Width
    BY <1>3 DEF Unmarshals
  <2>5. HasValue(json, field) => \E type \in Types : HasType(json[field.name], type)
    BY <1>4 DEF HasValue
  <2> HIDE DEF field
  <2>6. HasValue(json, field) => HasType(json[field.name], field.type)
    <3> SUFFICES ASSUME HasValue(json, field) PROVE HasType(json[field.name], field.type) OBVIOUS
    <3> DEFINE v == json[field.name]
    <3>1. v = [kind |-> v.kind, of |-> v.of] /\ v.of \in Nat BY <2>5 DEF HasType
    <3>2. v.kind = IF field.type = "text" THEN "text" ELSE "number"
      BY <2>4 DEF Zero, Text, Number
    <3>3. field.type = "narrow" => v.of < Width BY <2>4
    <3> HIDE DEF v
    <3>4. HasType(v, field.type) BY <3>1, <3>2, <3>3 DEF HasType
    <3> QED BY <3>4 DEF v
  <2>7. HasType(d.value[i], field.type) \/ d.value[i] = Null BY <2>1, <2>3, <2>6
  <2> QED BY <2>7 DEF field
<1>7. TypedEvent(d) BY <1>2, <1>5, <1>6 DEF TypedEvent, Fields
<1> QED BY <1>7 DEF d

\* A load that succeeds makes a state whose numbers fit.
LEMMA ReplayFits ==
  ASSUME NEW p, Known(p), stored \in Seq(Records), NEW snap, snap.sequence \in Nat,
         snap.state \in Fitting, Loads(p, snap)
  PROVE  Replay(p, snap) \in Fitting
<1> DEFINE k == Len(stored)
<1>1. k \in Nat /\ \A n \in 1 .. k : stored[n] \in Records OBVIOUS
<1>2. PICK f : Replays(f, p, snap, k) /\ Replay(p, snap) = f[k] BY <1>1, ReplayIs
<1> DEFINE S == {n \in 0 .. k : f[n] \notin Fitting}
<1>3. SUFFICES ASSUME S # {} PROVE FALSE BY <1>1, <1>2
<1>4. S \in SUBSET Nat BY <1>1
<1>5. PICK m \in S : \A j \in S : ~(j < m) BY <1>3, <1>4, LeastNumber
<1>6. m \in 0 .. k /\ f[m] = ReplayStep(p, snap, m, f) BY <1>2, <1>5 DEF Replays
<1>7. m > snap.sequence /\ f[m] = CopyFields(DecodeEvent(p, stored[m]), f[m - 1])
  BY <1>1, <1>5, <1>6 DEF ReplayStep
<1>8. m - 1 \in 0 .. k /\ m - 1 < m /\ m \in 1 .. k /\ m \in snap.sequence + 1 .. k
  BY <1>1, <1>6, <1>7
<1>9. f[m - 1] \in Fitting BY <1>5, <1>8
<1>10. Applies(p, stored[m]) BY <1>8 DEF Loads
<1>11. TypedEvent(DecodeEvent(p, stored[m])) BY <1>1, <1>8, <1>10, DecodedTyped
<1>12. f[m] \in Fitting BY <1>7, <1>9, <1>11, CopyFits
<1> QED BY <1>5, <1>12

\* The event of a record, decoded into the struct that it was.
Own(ev) == Deserialize(ev.json, ev.struct)

\* h[n] is the state after the first n events of a sequence.
IsHistory(h, seq) ==
  h[0] = ZeroState /\ \A n \in 1 .. Len(seq) : h[n] = CopyFields(Own(seq[n]), h[n - 1])

OwnDecoders(p, snap) ==
  \A n \in snap.sequence + 1 .. Len(stored) : DecodesTo(p, stored[n]) = stored[n].struct

\* A load on a snapshot of the history comes to the end of the history.
LEMMA ReplayIsHistory ==
  ASSUME NEW p, Len(stored) \in Nat, NEW snap, snap.sequence \in 0 .. Len(stored),
         OwnDecoders(p, snap), NEW h, IsHistory(h, stored), h[snap.sequence] = snap.state
  PROVE  Replay(p, snap) = h[Len(stored)]
<1> DEFINE k == Len(stored)
<1>1. k \in Nat /\ snap.sequence \in Nat OBVIOUS
<1>2. PICK f : Replays(f, p, snap, k) /\ Replay(p, snap) = f[k] BY <1>1, ReplayIs
<1> DEFINE S == {n \in snap.sequence .. k : f[n] # h[n]}
<1>3. SUFFICES ASSUME S # {} PROVE FALSE BY <1>1, <1>2
<1>4. S \in SUBSET Nat BY <1>1
<1>5. PICK m \in S : \A j \in S : ~(j < m) BY <1>3, <1>4, LeastNumber
<1>6. m \in 0 .. k /\ m >= snap.sequence /\ f[m] = ReplayStep(p, snap, m, f)
  BY <1>1, <1>2, <1>5 DEF Replays
<1>7. m > snap.sequence /\ f[m] = CopyFields(DecodeEvent(p, stored[m]), f[m - 1])
  BY <1>1, <1>5, <1>6 DEF ReplayStep
<1>8. /\ m - 1 \in snap.sequence .. k /\ m - 1 < m
      /\ m \in 1 .. k /\ m \in snap.sequence + 1 .. k
  BY <1>1, <1>6, <1>7
<1>9. f[m - 1] = h[m - 1] BY <1>5, <1>8
<1>10. DecodeEvent(p, stored[m]) = Own(stored[m]) BY <1>8 DEF OwnDecoders, DecodeEvent, Own
<1>11. h[m] = CopyFields(Own(stored[m]), h[m - 1]) BY <1>8 DEF IsHistory
<1> QED BY <1>5, <1>7, <1>9, <1>10, <1>11

\* A history goes on with every event that is recorded.
LEMMA HistoryGoesOn ==
  ASSUME NEW seq \in Seq(Records), NEW e \in Recordable, NEW h, IsHistory(h, seq)
  PROVE  \E g : /\ IsHistory(g, Append(seq, Recorded(e)))
                /\ \A n \in 0 .. Len(seq) : g[n] = h[n]
                /\ g[Len(seq) + 1] = CopyFields(e, h[Len(seq)])
<1> DEFINE k == Len(seq)
           g == [n \in 0 .. k + 1 |-> IF n <= k THEN h[n] ELSE CopyFields(e, h[k])]
           ext == Append(seq, Recorded(e))
<1>1. k \in Nat /\ Len(ext) = k + 1 /\ ext[k + 1] = Recorded(e)
      /\ \A n \in 1 .. k : ext[n] = seq[n]
  OBVIOUS
<1>2. \A n \in 0 .. k : g[n] = h[n] BY <1>1
<1>3. g[k + 1] = CopyFields(e, h[k])
  <2>1. k + 1 \in 0 .. k + 1 /\ ~(k + 1 <= k) BY <1>1
  <2> QED BY <2>1
<1>4. \A state : CopyFields(Own(Recorded(e)), state) = CopyFields(e, state)
  <2>1. Own(Recorded(e)) = Deserialize(Serialize(e), e.struct) BY DEF Own, Recorded
  <2>2. SameEvent(Own(Recorded(e)), e) BY <2>1, RoundTrip DEF Recordable
  <2> QED BY <2>2, SameEventSame
<1> HIDE DEF g, ext, k
<1>5. IsHistory(g, ext)
  <2>1. g[0] = ZeroState BY <1>1, <1>2 DEF IsHistory
  <2>2. ASSUME NEW n \in 1 .. Len(ext) PROVE g[n] = CopyFields(Own(ext[n]), g[n - 1])
    <3>1. CASE n \in 1 .. k
      <4>1. n - 1 \in 0 .. k /\ n \in 0 .. k BY <1>1, <3>1
      <4>2. h[n] = CopyFields(Own(seq[n]), h[n - 1]) BY <3>1 DEF IsHistory, k
      <4> QED BY <1>1, <1>2, <3>1, <4>1, <4>2
    <3>2. CASE n = k + 1
      <4>1. n - 1 = k /\ k \in 0 .. k BY <1>1, <3>2
      <4>2. g[n - 1] = h[k] BY <1>2, <4>1
      <4>3. ext[n] = Recorded(e) /\ g[n] = CopyFields(e, h[k]) BY <1>1, <1>3, <3>2
      <4> QED BY <1>4, <4>2, <4>3
    <3> QED BY <1>1, <2>2, <3>1, <3>2
  <2> QED BY <2>1, <2>2 DEF IsHistory
<1> QED BY <1>2, <1>3, <1>5 DEF ext, k

-----------------------------------------------------------------------------
(* The invariants of the stream and of the context.                         *)

Snapshots == [sequence : Nat, state : Fitting]
Objects == [sequence : Nat, state : Fitting, astray : BOOLEAN]

\* What is stored and captured was applied; the stream fits its bound.
StreamInv ==
  /\ stored \in Seq(Records) /\ captured \in Seq(Records)
  /\ Len(stored) + Len(captured) <= MaxSequence
  /\ snapshot \in Snapshots /\ snapshot.sequence <= Len(stored)
  /\ committed \in Fitting
  /\ tainted \in BOOLEAN /\ sound \in BOOLEAN

\* The object is as far as the context's events; a context without one has nothing.
ObjectInv ==
  /\ staged \in Snapshots
  /\ object = NoObject => captured = <<>> /\ staged = NoSnapshot
  /\ object # NoObject =>
       /\ object \in Objects
       /\ object.sequence = Len(stored) + Len(captured)
       /\ staged.sequence <= object.sequence

\* h is the history of the events stored and captured, and the states that the stream,
\* its snapshot and the context have are on it.
OnHistory(h) ==
  /\ IsHistory(h, stored \o captured)
  /\ h[Len(stored)] = committed
  /\ h[snapshot.sequence] = snapshot.state
  /\ object # NoObject /\ ~object.astray =>
       h[object.sequence] = object.state /\ h[staged.sequence] = staged.state

HistoryInv == ~tainted => \E h : OnHistory(h)

AggInv == StreamInv /\ ObjectInv /\ HistoryInv

\* An object that is held is not the absence of one.
LEMMA ObjectsAreSomething == \A x \in Objects : x # NoObject
<1>1. NoObject \notin [sequence : Nat, state : State, astray : BOOLEAN]
  BY StateAggregateAssumption DEF StateAggregateAssumption
<1> QED BY <1>1 DEF Objects, Fitting

\* No snapshot is the zero state before the first event.
LEMMA NoSnapshotTyped == NoSnapshot \in Snapshots
BY ZeroFits DEF Snapshots, NoSnapshot

\* The empty stream has the empty history.
LEMMA InitAgg == Init => AggInv
<1> SUFFICES ASSUME Init PROVE AggInv OBVIOUS
<1>1. /\ stored = <<>> /\ captured = <<>> /\ snapshot = NoSnapshot /\ staged = NoSnapshot
      /\ object = NoObject /\ tainted = FALSE /\ committed = ZeroState /\ sound = FALSE
  BY DEF Init, AggregateInit
<1>2. StreamInv
  <2>1. MaxSequence \in Nat BY StateAggregateAssumption DEF StateAggregateAssumption
  <2>2. stored \in Seq(Records) /\ captured \in Seq(Records) /\ Len(stored) = 0 /\ Len(captured) = 0
    BY <1>1
  <2>3. snapshot.sequence = 0 BY <1>1 DEF NoSnapshot
  <2>4. snapshot \in Snapshots /\ committed \in Fitting BY <1>1, NoSnapshotTyped, ZeroFits
  <2>5. tainted \in BOOLEAN /\ sound \in BOOLEAN BY <1>1
  <2>6. Len(stored) + Len(captured) <= MaxSequence /\ snapshot.sequence <= Len(stored)
    BY <2>1, <2>2, <2>3
  <2> QED BY <2>2, <2>4, <2>5, <2>6 DEF StreamInv
<1>3. ObjectInv BY <1>1, NoSnapshotTyped DEF ObjectInv
<1>4. HistoryInv
  <2> DEFINE h == [n \in {0} |-> ZeroState]
  <2>1. h[0] = ZeroState OBVIOUS
  <2> HIDE DEF h
  <2>2. Len(stored \o captured) = 0 /\ Len(stored) = 0 BY <1>1
  <2>3. IsHistory(h, stored \o captured) BY <2>1, <2>2 DEF IsHistory
  <2>4. OnHistory(h) BY <1>1, <2>1, <2>2, <2>3 DEF OnHistory, NoSnapshot
  <2> QED BY <2>4 DEF HistoryInv
<1> QED BY <1>2, <1>3, <1>4 DEF AggInv

\* The history of more events is the history of fewer.
LEMMA HistoryOfStored ==
  ASSUME StreamInv, NEW h, IsHistory(h, stored \o captured)
  PROVE  IsHistory(h, stored)
<1>1. Len(stored) \in Nat /\ Len(captured) \in Nat BY DEF StreamInv
<1>2. Len(stored \o captured) = Len(stored) + Len(captured)
      /\ \A n \in 1 .. Len(stored) : (stored \o captured)[n] = stored[n]
  BY DEF StreamInv
<1>3. \A n \in 1 .. Len(stored) : n \in 1 .. Len(stored \o captured) BY <1>1, <1>2
<1> QED BY <1>2, <1>3 DEF IsHistory

\* The context ends and what it had is forgotten.
LEMMA ForgetKeepsInv ==
  ASSUME AggInv, Forget, sound' \in BOOLEAN, UNCHANGED <<stored, snapshot, tainted, committed>>
  PROVE  AggInv'
<1>1. object' = NoObject /\ captured' = <<>> /\ staged' = NoSnapshot BY DEF Forget
<1>2. Len(stored) \in Nat /\ Len(captured) \in Nat BY DEF AggInv, StreamInv
<1>3. StreamInv'
  <2>1. captured' \in Seq(Records) /\ Len(captured') = 0 BY <1>1
  <2>2. MaxSequence \in Nat BY StateAggregateAssumption DEF StateAggregateAssumption
  <2> QED BY <1>1, <1>2, <2>1, <2>2 DEF AggInv, StreamInv
<1>4. ObjectInv' BY <1>1, NoSnapshotTyped DEF ObjectInv, NoSnapshot
<1>5. HistoryInv'
  <2> SUFFICES ASSUME ~tainted PROVE \E h : OnHistory(h)' BY DEF HistoryInv
  <2>1. PICK h : OnHistory(h) BY DEF AggInv, HistoryInv
  <2>2. stored' \o captured' = stored BY <1>1 DEF AggInv, StreamInv
  <2>3. IsHistory(h, stored) BY <2>1, HistoryOfStored DEF AggInv, OnHistory
  <2>4. OnHistory(h)' BY <1>1, <2>1, <2>2, <2>3 DEF OnHistory, IsHistory
  <2> QED BY <2>4
<1> QED BY <1>3, <1>4, <1>5 DEF AggInv

\* A load starts at the end of the history, or astray.
LEMMA LoadKeepsInv ==
  ASSUME AggInv, Known(program), Load, sound' = sound
  PROVE  AggInv'
<1> DEFINE k == Len(stored)
<1>1. /\ object' = [sequence |-> k, state |-> Replay(program, snapshot),
                    astray |-> \E n \in snapshot.sequence + 1 .. k :
                                 DecodesTo(program, stored[n]) # stored[n].struct]
      /\ object = NoObject /\ Loads(program, snapshot)
      /\ UNCHANGED <<stored, snapshot, captured, staged, tainted, committed>>
  BY DEF Load
<1>2. captured = <<>> /\ staged = NoSnapshot /\ k \in Nat /\ stored \in Seq(Records)
  BY <1>1 DEF AggInv, ObjectInv, StreamInv
<1>3. snapshot.sequence \in Nat /\ snapshot.state \in Fitting /\ snapshot.sequence \in 0 .. k
  BY <1>2 DEF AggInv, StreamInv, Snapshots
<1>4. Replay(program, snapshot) \in Fitting BY <1>1, <1>2, <1>3, ReplayFits
<1>5. object' \in Objects BY <1>1, <1>2, <1>4 DEF Objects
<1>6. StreamInv' BY <1>1 DEF AggInv, StreamInv
<1>7. ObjectInv'
  <2>1. object'.sequence = k /\ Len(captured) = 0 BY <1>1, <1>2
  <2> QED BY <1>1, <1>2, <1>5, <2>1, ObjectsAreSomething DEF AggInv, ObjectInv, NoSnapshot
<1>8. HistoryInv'
  <2> SUFFICES ASSUME ~tainted PROVE \E h : OnHistory(h)' BY <1>1 DEF HistoryInv
  <2>1. PICK h : OnHistory(h) BY DEF AggInv, HistoryInv
  <2>2. IsHistory(h, stored) BY <2>1, HistoryOfStored DEF AggInv, OnHistory
  <2>3. h[snapshot.sequence] = snapshot.state /\ h[0] = ZeroState
    BY <2>1 DEF OnHistory, IsHistory
  <2>4. ~object'.astray => Replay(program, snapshot) = h[k]
    <3>1. ~object'.astray => OwnDecoders(program, snapshot) BY <1>1 DEF OwnDecoders
    <3> QED BY <1>2, <1>3, <2>2, <2>3, <3>1, ReplayIsHistory
  <2>5. ~object'.astray => h[object'.sequence] = object'.state BY <1>1, <2>4
  <2>6. h[staged.sequence] = staged.state BY <1>2, <2>3 DEF NoSnapshot
  <2>7. OnHistory(h)' BY <1>1, <2>1, <2>5, <2>6 DEF OnHistory, IsHistory
  <2> QED BY <2>7
<1> QED BY <1>6, <1>7, <1>8 DEF AggInv

\* An event that is applied takes the object one step on, and the history with it.
LEMMA ApplyKeepsInv ==
  ASSUME AggInv, NEW e \in EventStates, ApplyEvent(e), sound' = sound
  PROVE  AggInv'
<1> DEFINE state == CopyFields(e, object.state)
           n == object.sequence + 1
<1>1. /\ object # NoObject /\ n <= MaxSequence /\ CannotAssign(e) = {}
      /\ object' = [object EXCEPT !.sequence = n, !.state = state]
      /\ captured' = Append(captured, Recorded(e))
      /\ staged' = staged \/ staged' = [sequence |-> n, state |-> state]
      /\ UNCHANGED <<stored, snapshot, tainted, committed>>
  BY DEF ApplyEvent, Recorded
<1>2. /\ object \in Objects /\ object.sequence = Len(stored) + Len(captured)
      /\ staged \in Snapshots /\ staged.sequence <= object.sequence
      /\ stored \in Seq(Records) /\ captured \in Seq(Records)
      /\ object.state \in Fitting /\ object.astray \in BOOLEAN
  BY <1>1 DEF AggInv, ObjectInv, StreamInv, Objects
<1>3. e \in Recordable /\ Recorded(e) \in Records BY <1>1 DEF Recordable, Records
<1>4. Len(stored) \in Nat /\ Len(captured) \in Nat /\ Len(captured') = Len(captured) + 1
      /\ captured' \in Seq(Records)
  BY <1>1, <1>2, <1>3
<1>5. state \in Fitting BY <1>2, AppliedTyped, CopyFits
<1>6. n \in Nat /\ n = Len(stored) + Len(captured') BY <1>2, <1>4
<1> HIDE DEF state, n
<1>7. object' \in Objects /\ object'.sequence = n /\ object'.state = state
      /\ object'.astray = object.astray
  BY <1>1, <1>2, <1>5, <1>6 DEF Objects
<1>8. StreamInv' BY <1>1, <1>4, <1>6 DEF AggInv, StreamInv
<1>9. ObjectInv'
  <2>1. staged' \in Snapshots /\ staged'.sequence <= n
    <3>1. CASE staged' = staged BY <1>2, <1>4, <1>6, <3>1 DEF Snapshots
    <3>2. CASE staged' = [sequence |-> n, state |-> state] BY <1>5, <1>6, <3>2 DEF Snapshots
    <3> QED BY <1>1, <3>1, <3>2
  <2> QED BY <1>1, <1>6, <1>7, <2>1, ObjectsAreSomething DEF ObjectInv
<1>10. HistoryInv'
  <2> SUFFICES ASSUME ~tainted PROVE \E g : OnHistory(g)' BY <1>1 DEF HistoryInv
  <2> DEFINE seq == stored \o captured
             k == Len(stored) + Len(captured)
  <2>1. PICK h : OnHistory(h) BY DEF AggInv, HistoryInv
  <2>2. seq \in Seq(Records) /\ Len(seq) = k /\ k \in Nat BY <1>2, <1>4
  <2>3. stored' \o captured' = Append(seq, Recorded(e)) BY <1>1, <1>2, <1>3
  <2>4. IsHistory(h, seq) BY <2>1 DEF OnHistory
  <2> HIDE DEF seq
  <2>5. PICK g : /\ IsHistory(g, Append(seq, Recorded(e)))
                 /\ \A i \in 0 .. Len(seq) : g[i] = h[i]
                 /\ g[Len(seq) + 1] = CopyFields(e, h[Len(seq)])
    BY <1>3, <2>2, <2>4, HistoryGoesOn
  <2>6. Len(stored) \in 0 .. k /\ snapshot.sequence \in 0 .. k /\ staged.sequence \in 0 .. k
        /\ object.sequence = k /\ n = k + 1
    BY <1>2, <1>4, <1>6 DEF AggInv, StreamInv, Snapshots, n
  <2>7. g[Len(stored)] = committed' /\ g[snapshot.sequence] = snapshot'.state
    BY <1>1, <2>1, <2>2, <2>5, <2>6 DEF OnHistory
  <2>8. ASSUME ~object.astray
        PROVE  g[object'.sequence] = object'.state /\ g[staged'.sequence] = staged'.state
    <3>1. h[k] = object.state /\ h[staged.sequence] = staged.state
      BY <1>1, <2>1, <2>6, <2>8 DEF OnHistory
    <3>2. g[k + 1] = state BY <2>2, <2>5, <3>1 DEF state
    <3>3. g[object'.sequence] = object'.state BY <1>7, <2>6, <3>2
    <3>4. g[staged.sequence] = staged.state BY <2>2, <2>5, <2>6, <3>1
    <3>5. CASE staged' = staged BY <3>3, <3>4, <3>5
    <3>6. CASE staged' = [sequence |-> n, state |-> state] BY <2>6, <3>2, <3>3, <3>6
    <3> QED BY <1>1, <3>5, <3>6
  <2>9. IsHistory(g, stored' \o captured') BY <2>3, <2>5
  <2>10. OnHistory(g)' BY <1>1, <1>7, <2>7, <2>8, <2>9 DEF OnHistory, IsHistory
  <2> QED BY <2>10
<1> QED BY <1>8, <1>9, <1>10 DEF AggInv

\* A callback that goes on after an error has gone astray.
LEMMA FailKeepsInv ==
  ASSUME AggInv, NEW e \in EventStates, ApplyFails(e), sound' = sound
  PROVE  AggInv'
<1>1. /\ object # NoObject
      /\ object' = [object EXCEPT !.state = CopyFields(e, @), !.astray = TRUE]
      /\ UNCHANGED <<stored, snapshot, captured, staged, tainted, committed>>
  BY DEF ApplyFails
<1>2. object \in Objects /\ object.state \in Fitting BY <1>1 DEF AggInv, ObjectInv, Objects
<1>3. CopyFields(e, object.state) \in Fitting BY <1>2, AppliedTyped, CopyFits
<1>4. object' \in Objects /\ object'.sequence = object.sequence /\ object'.astray = TRUE
  BY <1>1, <1>2, <1>3 DEF Objects
<1>5. StreamInv' BY <1>1 DEF AggInv, StreamInv
<1>6. ObjectInv' BY <1>1, <1>4, ObjectsAreSomething DEF AggInv, ObjectInv
<1>7. HistoryInv'
  <2> SUFFICES ASSUME ~tainted PROVE \E h : OnHistory(h)' BY <1>1 DEF HistoryInv
  <2>1. PICK h : OnHistory(h) BY DEF AggInv, HistoryInv
  <2>2. OnHistory(h)' BY <1>1, <1>4, <2>1 DEF OnHistory, IsHistory
  <2> QED BY <2>2
<1> QED BY <1>5, <1>6, <1>7 DEF AggInv

\* What is saved is at the end of the history, unless it went astray.
LEMMA CommitKeepsInv ==
  ASSUME AggInv, Commit, sound' = sound
  PROVE  AggInv'
<1>1. /\ object # NoObject /\ stored' = stored \o captured
      /\ snapshot' = IF staged = NoSnapshot THEN snapshot ELSE staged
      /\ committed' = object.state /\ tainted' = (tainted \/ object.astray)
      /\ object' = NoObject /\ captured' = <<>> /\ staged' = NoSnapshot
  BY DEF Commit, Forget
<1>2. /\ object \in Objects /\ object.sequence = Len(stored) + Len(captured)
      /\ staged \in Snapshots /\ staged.sequence <= object.sequence
      /\ object.state \in Fitting /\ object.astray \in BOOLEAN
      /\ stored \in Seq(Records) /\ captured \in Seq(Records)
      /\ snapshot \in Snapshots /\ snapshot.sequence <= Len(stored)
      /\ Len(stored) + Len(captured) <= MaxSequence /\ tainted \in BOOLEAN /\ sound \in BOOLEAN
  BY <1>1 DEF AggInv, ObjectInv, StreamInv, Objects
<1>3. Len(stored) \in Nat /\ Len(captured) \in Nat
      /\ stored' \in Seq(Records) /\ Len(stored') = Len(stored) + Len(captured)
      /\ captured' \in Seq(Records) /\ Len(captured') = 0
  BY <1>1, <1>2
<1>4. snapshot' \in Snapshots /\ snapshot'.sequence <= Len(stored')
  <2>1. snapshot.sequence \in Nat BY <1>2 DEF Snapshots
  <2> QED BY <1>1, <1>2, <1>3, <2>1
<1>5. StreamInv'
  <2>1. Len(stored') + Len(captured') <= MaxSequence BY <1>2, <1>3
  <2>2. tainted' \in BOOLEAN BY <1>1
  <2> QED BY <1>1, <1>2, <1>3, <1>4, <2>1, <2>2 DEF StreamInv
<1>6. ObjectInv' BY <1>1, NoSnapshotTyped DEF ObjectInv, NoSnapshot
<1>7. HistoryInv'
  <2> SUFFICES ASSUME ~tainted, ~object.astray PROVE \E h : OnHistory(h)' BY <1>1 DEF HistoryInv
  <2>1. PICK h : OnHistory(h) BY DEF AggInv, HistoryInv
  <2>2. h[object.sequence] = object.state /\ h[staged.sequence] = staged.state
        /\ h[snapshot.sequence] = snapshot.state /\ IsHistory(h, stored')
    BY <1>1, <2>1 DEF OnHistory
  <2>3. h[Len(stored')] = committed' /\ h[snapshot'.sequence] = snapshot'.state
    BY <1>1, <1>2, <1>3, <2>2
  <2>4. stored' \o captured' = stored' BY <1>1, <1>3
  <2>5. OnHistory(h)' BY <1>1, <2>2, <2>3, <2>4 DEF OnHistory, IsHistory
  <2> QED BY <2>5
<1> QED BY <1>5, <1>6, <1>7 DEF AggInv

\* A context that fails has stored nothing.
LEMMA AbortKeepsInv == ASSUME AggInv, Abort, sound' = sound PROVE AggInv'
<1>1. Forget /\ UNCHANGED <<stored, snapshot, tainted, committed>> BY DEF Abort
<1>2. sound' \in BOOLEAN BY DEF AggInv, StreamInv
<1> QED BY <1>1, <1>2, ForgetKeepsInv

\* Steps that leave the stream and the context alone leave the invariant.
LEMMA AggStutter == AggInv /\ UNCHANGED <<aggregateVars, sound>> => AggInv'
<1> SUFFICES ASSUME AggInv, UNCHANGED <<aggregateVars, sound>> PROVE AggInv' OBVIOUS
<1>1. UNCHANGED <<stored, snapshot, object, captured, staged, tainted, committed, sound>>
  BY DEF aggregateVars, objectVars
<1>2. StreamInv' BY <1>1 DEF AggInv, StreamInv
<1>3. ObjectInv' BY <1>1 DEF AggInv, ObjectInv, NoSnapshot, ZeroState
<1>4. HistoryInv'
  <2> SUFFICES ASSUME ~tainted PROVE \E h : OnHistory(h)' BY <1>1 DEF HistoryInv
  <2>1. PICK h : OnHistory(h) BY DEF AggInv, HistoryInv
  <2>2. OnHistory(h)' BY <1>1, <2>1 DEF OnHistory, IsHistory
  <2> QED BY <2>2
<1> QED BY <1>2, <1>3, <1>4 DEF AggInv

\* Every step of the project keeps the invariant of the stream and of the context.
LEMMA AggStep == AggInv /\ KnownInv /\ GenInv /\ [Next]_vars => AggInv'
<1> SUFFICES ASSUME AggInv, KnownInv, GenInv, [Next]_vars PROVE AggInv' OBVIOUS
<1>1. CASE Build
  <2>1. Forget /\ UNCHANGED <<stored, snapshot, tainted, committed>> BY <1>1 DEF Build
  <2>2. sound' \in BOOLEAN BY <1>1 DEF Build, GenInv, PositionOK
  <2> QED BY <2>1, <2>2, ForgetKeepsInv
<1>2. CASE Run
  <2>1. sound' = sound BY <1>2 DEF Run
  <2>2. CASE Load BY <2>1, <2>2, LoadKeepsInv DEF KnownInv
  <2>3. ASSUME NEW e \in EventStates, ApplyEvent(e) PROVE AggInv' BY <2>1, <2>3, ApplyKeepsInv
  <2>4. ASSUME NEW e \in EventStates, ApplyFails(e) PROVE AggInv' BY <2>1, <2>4, FailKeepsInv
  <2>5. CASE Commit BY <2>1, <2>5, CommitKeepsInv
  <2>6. CASE Abort BY <2>1, <2>6, AbortKeepsInv
  <2> QED BY <1>2, <2>2, <2>3, <2>4, <2>5, <2>6 DEF Run
<1>3. CASE Generate \/ UNCHANGED vars
  <2>1. UNCHANGED <<aggregateVars, sound>> BY <1>3 DEF Generate, vars
  <2> QED BY <2>1, AggStutter
<1> QED BY <1>1, <1>2, <1>3 DEF Next

-----------------------------------------------------------------------------
(* The theorems.                                                            *)

ProjectInv == GenInv /\ KnownInv /\ ProgramInv /\ AggInv

\* The invariant holds in every reachable state.
LEMMA InvariantHolds == Spec => []ProjectInv
<1>1. Init => ProjectInv
  <2>1. Init => ProgramInv BY DEF Init, ProgramInv
  <2> QED BY <2>1, InitGen, InitKnown, InitAgg DEF Init, ProjectInv
<1>2. ProjectInv /\ [Next]_vars => ProjectInv'
  BY ProjectKeepsGenInv, KnownStep, ProgramStep, AggStep DEF ProjectInv
<1> QED BY <1>1, <1>2, PTL DEF Spec

\* Every variable keeps to what the code can hold: a number of the state never leaves
\* its field's width, whatever was converted into it.
THEOREM TypeCorrectness == Spec => []TypeOK
<1>1. ProjectInv => TypeOK
  <2> SUFFICES ASSUME ProjectInv PROVE TypeOK OBVIOUS
  <2>1. GenInv /\ StreamInv /\ ObjectInv BY DEF ProjectInv, AggInv
  <2>2. /\ pc \in {"idle", "walk", "create", "clause", "body"}
        /\ next \in CASE pc = "idle" -> {1} [] pc = "walk" -> 1 .. Len(Walk) + 1
                      [] OTHER -> 1 .. Len(Outputs)
        /\ edits \in 0 .. MaxEdits /\ deaths \in 0 .. MaxDeaths /\ agree \in BOOLEAN
    <3>1. PositionOK BY <2>1 DEF GenInv
    <3> QED BY <3>1 DEF PositionOK, Writing
  <2>3. \A f \in DOMAIN StateFields : StateFields[f] = "narrow" => committed[f].of < Width
    BY <2>1 DEF StreamInv, Fitting
  <2>4. /\ Len(stored) \in Nat /\ Len(captured) \in Nat /\ MaxSequence \in Nat
        /\ Len(stored) + Len(captured) <= MaxSequence
    BY <2>1, StateAggregateAssumption DEF StateAggregateAssumption, StreamInv
  <2>5. object # NoObject => object.sequence \in 0 .. MaxSequence BY <2>1, <2>4 DEF ObjectInv
  <2>6. Len(stored) \in 0 .. MaxSequence BY <2>4
  <2>7. snapshot.sequence \in 0 .. Len(stored)
    BY <2>1, <2>4 DEF StreamInv, Snapshots
  <2> QED BY <2>1, <2>2, <2>3, <2>5, <2>6, <2>7 DEF TypeOK, StreamInv
<1> QED BY <1>1, InvariantHolds, PTL

\* A program built after a run that agreed decodes what was stored to what it was.
LEMMA OwnStructs ==
  ASSUME ProjectInv, Unambiguous, NEW n \in DOMAIN stored
  PROVE  /\ stored[n].type \in DOMAIN program.stateEvents
         /\ DecodesTo(program, stored[n]) = stored[n].struct
<1> DEFINE s == stored[n].struct
<1>1. s \in marks BY DEF Unambiguous
<1>2. stored[n].type = s.name
  <2>1. stored[n] \in Records BY DEF ProjectInv, AggInv, StreamInv
  <2> QED BY <2>1 DEF Records, Recorded, GetEventType
<1>3. s.name \in DOMAIN program.stateEvents BY <1>1 DEF ProjectInv, ProgramInv, Unambiguous
<1>4. program.stateEvents[s.name] \in marks /\ program.stateEvents[s.name].name = s.name
  BY <1>3 DEF ProjectInv, ProgramInv, Unambiguous
<1>5. program.stateEvents[s.name] = s BY <1>1, <1>4 DEF Unambiguous
<1> QED BY <1>2, <1>3, <1>5 DEF DecodesTo

\* Every stored event can be loaded, as the struct and with the values it had.
THEOREM EventsDecode == Spec => []StoredEventsDecode
<1>1. ProjectInv => StoredEventsDecode
  <2> SUFFICES ASSUME ProjectInv, Unambiguous, NEW n \in DOMAIN stored
               PROVE  /\ Applies(program, stored[n])
                      /\ DecodesTo(program, stored[n]) = stored[n].struct
                      /\ Serialize(DecodeEvent(program, stored[n])) = stored[n].json
    BY DEF StoredEventsDecode
  <2>1. stored[n].type \in DOMAIN program.stateEvents
        /\ DecodesTo(program, stored[n]) = stored[n].struct
    BY OwnStructs
  <2>2. stored[n] \in Records BY DEF ProjectInv, AggInv, StreamInv
  <2>3. PICK e \in EventStates : CannotAssign(e) = {} /\ stored[n] = Recorded(e)
    BY <2>2 DEF Records, Recordable
  <2>4. stored[n].json = Serialize(e) /\ stored[n].struct = e.struct BY <2>3 DEF Recorded
  <2> DEFINE d == DecodeEvent(program, stored[n])
  <2>5. d = Deserialize(Serialize(e), e.struct) BY <2>1, <2>4 DEF DecodeEvent
  <2>6. Unmarshals(Serialize(e), e.struct) /\ SameEvent(d, e) BY <2>5, RoundTrip
  <2> HIDE DEF d
  <2>7. CannotAssign(d) = {} /\ Serialize(d) = Serialize(e) BY <2>3, <2>6, SameEventSame
  <2>8. Decodes(program, stored[n]) BY <2>1, <2>4, <2>6 DEF Decodes
  <2>9. Applies(program, stored[n]) BY <2>1, <2>7, <2>8 DEF Applies, d
  <2> QED BY <2>1, <2>4, <2>7, <2>9 DEF d
<1> QED BY <1>1, InvariantHolds, PTL

\* A load gives the state that was saved, through the snapshot and without it.
THEOREM LoadsAreFaithful == Spec => []LoadsGiveWhatWasSaved
<1>1. ProjectInv => LoadsGiveWhatWasSaved
  <2> SUFFICES ASSUME ProjectInv, Unambiguous, ~tainted
               PROVE  Replay(program, snapshot) = committed /\ Replay(program, NoSnapshot) = committed
    BY DEF LoadsGiveWhatWasSaved
  <2>1. PICK h : OnHistory(h) BY DEF ProjectInv, AggInv, HistoryInv
  <2>2. StreamInv BY DEF ProjectInv, AggInv
  <2>3. Len(stored) \in Nat /\ snapshot.sequence \in 0 .. Len(stored)
        /\ DOMAIN stored = 1 .. Len(stored)
    BY <2>2 DEF StreamInv, Snapshots
  <2>4. IsHistory(h, stored) BY <2>1, <2>2, HistoryOfStored DEF OnHistory
  <2>5. \A n \in DOMAIN stored : DecodesTo(program, stored[n]) = stored[n].struct BY OwnStructs
  <2>6. OwnDecoders(program, snapshot)
    <3>1. \A n \in snapshot.sequence + 1 .. Len(stored) : n \in DOMAIN stored BY <2>3
    <3> QED BY <2>5, <3>1 DEF OwnDecoders
  <2>7. h[Len(stored)] = committed /\ h[snapshot.sequence] = snapshot.state /\ h[0] = ZeroState
    BY <2>1 DEF OnHistory, IsHistory
  <2>8. Replay(program, snapshot) = committed BY <2>3, <2>4, <2>6, <2>7, ReplayIsHistory
  <2> DEFINE none == NoSnapshot
  <2>9. none.sequence = 0 /\ none.state = ZeroState BY DEF NoSnapshot
  <2> HIDE DEF none
  <2>10. OwnDecoders(program, none)
    <3>1. \A n \in none.sequence + 1 .. Len(stored) : n \in DOMAIN stored BY <2>3, <2>9
    <3> QED BY <2>5, <3>1 DEF OwnDecoders
  <2>11. none.sequence \in 0 .. Len(stored) /\ h[none.sequence] = none.state
    BY <2>3, <2>7, <2>9
  <2>12. Replay(program, none) = committed BY <2>3, <2>4, <2>7, <2>10, <2>11, ReplayIsHistory
  <2> QED BY <2>8, <2>12 DEF none
<1> QED BY <1>1, InvariantHolds, PTL
=============================================================================
