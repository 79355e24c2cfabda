------------------------------- MODULE RunFiles -------------------------------
(***************************************************************************)
(* What run control and the writers promise each other about the files of  *)
(* a run, without requests, nodes or locks: files are opened for a run at  *)
(* its beginning, a writer attaches to its file and detaches from it, and  *)
(* a file is closed only when nobody is attached to it.  The files of the  *)
(* next run are opened when those of the last are all closed.              *)
(* SpectrumPath implements this (see ImplementsRunFiles there).            *)
(***************************************************************************)
EXTENDS Naturals

CONSTANTS Files, Writers, FileNum

VARIABLES
    run,        \* the number of the run
    open,       \* its files that are open
    attached    \* [writer, run] with a stream in the writer's file

vars == <<run, open, attached>>

Init == run = 0 /\ open = {} /\ attached = {}

\* Who is attached to file f, of whatever run.
Users(f) == {a \in attached : FileNum[a[1]] = f}

NextRun ==
    /\ open = {} /\ attached = {}
    /\ run' = run + 1
    /\ UNCHANGED <<open, attached>>

\* Some of the files may not be made.
OpenFiles ==
    /\ run > 0 /\ open = {} /\ attached = {}
    /\ open' \in SUBSET Files
    /\ UNCHANGED <<run, attached>>

Attach(w) ==
    /\ FileNum[w] \in open
    /\ attached' = attached \cup {<<w, run>>}
    /\ UNCHANGED <<run, open>>

Detach(w) ==
    /\ attached' = {a \in attached : a[1] # w}
    /\ UNCHANGED <<run, open>>

Close(f) ==
    /\ f \in open /\ Users(f) = {}
    /\ open' = open \ {f}
    /\ UNCHANGED <<run, attached>>

Next ==
    \/ NextRun \/ OpenFiles
    \/ \E w \in Writers : Attach(w) \/ Detach(w)
    \/ \E f \in Files : Close(f)

Spec == Init /\ [][Next]_vars

=============================================================================
