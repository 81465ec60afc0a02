------------------------ MODULE EventStoreRefinement ------------------------
(* EventStore implements CompareAndAppend: the mapping from the tables and  *)
(* the contexts to streams and prepared events.                             *)
EXTENDS EventStore

\* The payloads of rows of one stream in the order of their sequences: a sequence if
\* and only if they are numbered 1, 2, 3, ...
InOrder(rows) == [i \in {r.seq : r \in rows} |-> (CHOOSE r \in rows : r.seq = i).val]
StreamOf(a) == InOrder(EventsOf(a))

\* The positions of what c captured for a; the first and the last event of these.
CapturedFor(c, a) == {i \in DOMAIN captured[c] : captured[c][i].agg = a}
FirstFor(c, a) == captured[c][CHOOSE i \in CapturedFor(c, a) : \A j \in CapturedFor(c, a) : i <= j]
LastFor(c, a) == captured[c][CHOOSE i \in CapturedFor(c, a) : \A j \in CapturedFor(c, a) : j <= i]

\* The object's state before the context applied an event to it, and what its
\* events have made of that state since.
BaseOf(c, a) == IF CapturedFor(c, a) = {} THEN <<>> ELSE FirstFor(c, a).base
PendingOf(c, a) ==
  IF CapturedFor(c, a) = {} THEN <<>>
  ELSE LET s == Append(LastFor(c, a).base, LastFor(c, a).val)
       IN SubSeq(s, Len(BaseOf(c, a)) + 1, Len(s))

\* The variables of CompareAndAppend.
Streams == [a \in Aggregates |-> StreamOf(a)]
Expected == [c \in Clients |-> [a \in Aggregates |-> BaseOf(c, a)]]
Prepared == [c \in Clients |-> [a \in Aggregates |-> PendingOf(c, a)]]

Abstract == INSTANCE CompareAndAppend WITH
  stream <- Streams, expected <- Expected, pending <- Prepared

\* A context appends everything it captured, to every stream it touched, in one
\* step, and only to streams that are still what it loaded (WithContext,
\* SaveState, WriteState and the UNIQUE constraint); every other step of any
\* client leaves all streams alone.
ImplementsCompareAndAppend == Abstract!Spec
=============================================================================
