------------------------------- MODULE EggOutput -------------------------------
(***************************************************************************)
(* What one output file of a run promises, without threads or locks: the   *)
(* records of each stream are appended, in order, to the file currently in *)
(* use; when it is large enough the next file takes its place and the old  *)
(* one is closed; no record is added to a file given up for closing, and   *)
(* at most one file at a time waits to be closed.                          *)
(* MonarchWrapper implements this (see ImplementsEggOutput there).         *)
(***************************************************************************)
EXTENDS Naturals

CONSTANTS Streams, NoFile

VARIABLES
    current,    \* the file records go to, NoFile once the output is closed
    closing,    \* the file that waits to be closed
    closed,     \* the files closed
    records     \* [stream, number, file]

vars == <<current, closing, closed, records>>

Init == current = 0 /\ closing = NoFile /\ closed = {} /\ records = {}

Append(s) ==
    /\ current # NoFile
    /\ \E r \in records' :
          /\ records' = records \cup {r}
          /\ r.stream = s /\ r.file = current
          /\ \A q \in records : q.stream = s => q.number < r.number
    /\ UNCHANGED <<current, closing, closed>>

NextFile ==
    /\ current # NoFile /\ closing = NoFile
    /\ closing' = current
    /\ current' \in Nat /\ current' > current
    /\ UNCHANGED <<closed, records>>

Close ==
    /\ closing # NoFile
    /\ closed' = closed \cup {closing}
    /\ closing' = NoFile
    /\ UNCHANGED <<current, records>>

\* The last file: nothing may be left waiting.
CloseCurrent ==
    /\ current # NoFile /\ closing = NoFile
    /\ closed' = closed \cup {current}
    /\ current' = NoFile
    /\ UNCHANGED <<closing, records>>

Next == (\E s \in Streams : Append(s)) \/ NextFile \/ Close \/ CloseCurrent

Spec == Init /\ [][Next]_vars

=============================================================================
