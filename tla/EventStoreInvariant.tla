------------------------ MODULE EventStoreInvariant -------------------------
(***************************************************************************)
(* The inductive invariant of EventStore.  NoLostUpdate,                   *)
(* SnapshotsAreReplays and ObjectsAreReplays are conjuncts of it; the      *)
(* others say why they are kept: what a context has captured, staged,      *)
(* fetched and inserted but not committed.                                 *)
(***************************************************************************)
EXTENDS EventStore

\* A load in progress has an object; nothing is inserted before SaveState.
PhasesOK ==
  \A c \in Clients :
    /\ phase[c] \in {"loading", "applying"} =>
         target[c] \in Aggregates /\ objects[c][target[c]] # NoObject
    /\ phase[c] # "saving" => written[c] = 0
    /\ written[c] <= BatchSize(c)

\* The tables respect their UNIQUE constraints.
KeysUnique == \A r, s \in db : SameKey(r, s) => r = s

\* A captured event was applied to a replay of what is committed or captured.
CapturedAreReplays ==
  \A c \in Clients : \A i \in 1 .. Len(captured[c]) :
    LET e == captured[c][i]
    IN Len(e.base) = e.seq - 1 /\ IsReplay(db \cup Range(captured[c]), e.agg, e.base)

\* Event e and snapshot s were made by the same call of ApplyEventTo.
Matches(e, s) == e.agg = s.agg /\ e.seq = s.seq

\* Each snapshot of ss comes with an event of es, no two with the same one.
StagedFrom(es, ss) ==
  \A j \in 1 .. Len(ss) :
    /\ \E i \in 1 .. Len(es) :
         Matches(es[i], ss[j]) /\ ss[j].state = Append(es[i].base, es[i].val)
    /\ \A k \in 1 .. Len(ss) :
         k # j /\ SameKey(ss[j], ss[k]) =>
           \E p, q \in 1 .. Len(es) :
             p # q /\ Matches(es[p], ss[j]) /\ Matches(es[q], ss[j])

\* A staged snapshot comes with a captured event of its own.
StagedMatch == \A c \in Clients : StagedFrom(captured[c], staged[c])

\* Rows with the sequences n + 1, n + 2, ... up to the last, none left out.
Continue(rows, n) ==
  \A r \in rows : r.seq > n /\ \A i \in (n + 1) .. r.seq : \E s \in rows : s.seq = i

\* What loadEvents returned continues the object without a gap.
FetchedContinues ==
  \A c \in Clients : phase[c] = "applying" =>
    /\ fetched[c] \subseteq {r \in db : r.table = "events" /\ r.agg = target[c]}
    /\ Continue(fetched[c], objects[c][target[c]].seq)

\* No two rows inserted by open transactions, and no such row and a committed
\* one, have the same key.
PendingExclusive ==
  /\ \A c \in Clients : \A i \in 1 .. written[c] : \A r \in db : ~SameKey(Row(c, i), r)
  /\ \A c \in Clients : \A i, j \in 1 .. written[c] :
       i # j => ~SameKey(Row(c, i), Row(c, j))
  /\ \A c, d \in Clients : c # d =>
       \A i \in 1 .. written[c], j \in 1 .. written[d] : ~SameKey(Row(c, i), Row(d, j))

\* All of it: what a state of EventStore looks like, so that the next one does too.
IndInv ==
  /\ TypeOK
  /\ PhasesOK
  /\ KeysUnique
  /\ NoLostUpdate
  /\ SnapshotsAreReplays
  /\ ObjectsAreReplays
  /\ CapturedAreReplays
  /\ StagedMatch
  /\ FetchedContinues
  /\ PendingExclusive
=============================================================================
