------------------------- MODULE MonarchRecordsProofs -------------------------
(***************************************************************************)
(* More theorems about MonarchWrapper: where its headers and records are.  *)
(*                                                                         *)
(* The header, the continuation notes and the order of the records are     *)
(* right with any number of writers, whatever fails and however the        *)
(* wrapper goes: a stream is only ever moved to the file in use, and the   *)
(* files in use have growing numbers (UsedInv).  The size of the files is  *)
(* bounded for one writer and a library that does not fail.                *)
(***************************************************************************)
EXTENDS MonarchWrapperProofs, FiniteSetTheorems

-----------------------------------------------------------------------------
(* The header, with any number of writers.                                 *)

\* The on-deck thread or the switch thread is in its loop.
Running == pc_ondeck \in {"top", "wait", "work"} \/ pc_switch \notin {"off", "done"}

\* The switch thread holds the header's mutex; the header is out of date only
\* in two places of these.
HoldsHeader == {"finish_to_finish", "create_on_deck", "set_as_to_finish",
                "get_on_deck", "set_header"}
Stale       == {"get_on_deck", "set_header"}

HeaderInv ==
    /\ header_mutex = "switch" <=> pc_switch \in HoldsHeader
    /\ pc_control \in {"constructed", "write_header", "finished", "destroying",
                       "destroyed"} => stage # "writing"
    /\ (stage = "writing" \/ Running) /\ pc_switch \notin Stale => header = monarch

LEMMA HeaderInit == Init => HeaderInv
  BY DEF Init, HeaderInv, HoldsHeader, Running

LEMMA HeaderStep ==
    TypeOK /\ PointersInv /\ HeaderInv /\ [Next]_vars => HeaderInv'
<1> SUFFICES ASSUME SyncTypeOK, PcTypeOK, PointersInv, HeaderInv, [Next]_vars
             PROVE  HeaderInv'
  BY DEF TypeOK
<1> USE DEF HeaderInv, HoldsHeader, Stale, Running
<1>1. CASE Control
  <2>1. UNCHANGED header_mutex
    BY <1>1 DEF Control
  <2>2. CASE StartUsing
    BY <2>1, <2>2 DEF StartUsing, ControlGoes, PointersInv, pointers
  <2>3. CASE StartUsingThrows
    BY <2>1, <2>3 DEF StartUsingThrows, ControlGoes, PointersInv, pointers
  <2>4. CASE Cancel \/ WaitStreams
    BY <2>1, <2>4 DEF Cancel, WaitStreams, ControlGoes, file_vars, pointers
  <2>5. CASE StopUsing \/ FinishFile
    BY <2>1, <2>5 DEF StopUsing, FinishFile, ControlGoes
  <2>6. CASE WriteHeader \/ CloseFile
    BY <2>1, <2>6 DEF WriteHeader, CloseFile, ControlGoes, PointersInv, Joined
  <2>7. CASE Destroy
    BY <2>1, <2>7 DEF Destroy, ControlGoes, file_vars, pointers
  <2>8. CASE Destroyed
    BY <2>1, <2>8 DEF Destroyed, ControlGoes
  <2> QED
    BY <1>1, <2>2, <2>3, <2>4, <2>5, <2>6, <2>7, <2>8 DEF Control
<1>2. CASE Switch
  <2>1. UNCHANGED <<stage, pc_control, pc_ondeck>>
    BY <1>2 DEF Switch
  <2>2. CASE SwitchTop \/ SwitchWait \/ SwitchLockHeader
    BY <2>1, <2>2 DEF SwitchTop, SwitchWait, SwitchLockHeader, SwitchGoes,
       SyncTypeOK, mutexes, pointers
  <2>3. CASE SwitchFinishToFinish \/ SwitchCreateOnDeck \/ SwitchThrows
    BY <2>1, <2>3 DEF SwitchFinishToFinish, SwitchCreateOnDeck, SwitchThrows,
       SwitchGoes, mutexes, pointers
  <2>4. CASE SwitchSetAsToFinish \/ SwitchGetOnDeck
    BY <2>1, <2>4 DEF SwitchSetAsToFinish, SwitchGetOnDeck, SwitchGoes, mutexes
  <2>5. CASE SwitchSetHeader \/ SwitchSetStreams \/ SwitchDone
    BY <2>1, <2>5 DEF SwitchSetHeader, SwitchSetStreams, SwitchDone,
       SwitchGoes, mutexes, pointers
  <2> QED
    BY <1>2, <2>2, <2>3, <2>4, <2>5 DEF Switch
<1>3. CASE OnDeck
  <2>1. UNCHANGED <<stage, monarch, header, header_mutex, pc_control, pc_switch>>
    BY <1>3 DEF OnDeck
  <2>2. pc_ondeck \in {"top", "wait", "work"}
    BY <1>3 DEF OnDeck, OnDeckTop, OnDeckWake, OnDeckFinish, OnDeckCreate,
       OnDeckThrows, OnDeckRest, OnDeckGoes
  <2> QED
    BY <2>1, <2>2
<1>4. ASSUME NEW s \in Streams, Writer(s) PROVE HeaderInv'
  BY <1>4 DEF Writer, file_vars, pointers, mutexes
<1>5. CASE UNCHANGED vars
  BY <1>5 DEF vars, file_vars, pointers, mutexes, pcs
<1> QED
  BY <1>1, <1>2, <1>3, <1>4, <1>5 DEF Next

\* With any number of writers and whatever fails: whoever takes the header's
\* mutex while the wrapper is writing finds the header of the current file.
THEOREM HeaderOfCurrentFile == Spec => []HeaderInCurrentFile
<1>1. Init => TypeOK /\ PointersInv /\ HeaderInv
  BY TypeInit, PointersInit, HeaderInit
<1>2. TypeOK /\ PointersInv /\ HeaderInv /\ [Next]_vars
          => (TypeOK /\ PointersInv /\ HeaderInv)'
  BY TypeStep, PointersStep, HeaderStep
<1>3. HeaderInv => HeaderInCurrentFile
  BY DEF HeaderInv, HeaderInCurrentFile, HoldsHeader, Stale
<1> QED
  BY <1>1, <1>2, <1>3, PTL DEF Spec

-----------------------------------------------------------------------------
(* The notes of continuation, with any number of writers.                  *)

\* No note is of a file newer than the one in use, but for that of the file
\* on deck while one may still be created; notes name files that were in use.
NotesInv ==
    /\ ContinuationChain
    /\ pc_control = "constructed" => continues = {}
    /\ \A p \in continues : p[1] < file_count
    /\ Running => \A p \in continues : p[1] = on_deck \/ p[1] <= currentFile
    /\ currentFile # NoFile => \A p \in continues : p[2] <= currentFile
    /\ monarch # NoFile /\ on_deck # NoFile => monarch < on_deck

ChainInv == TypeOK /\ PointersInv /\ FilesOwnedOnce /\ HeaderInv /\ NotesInv

\* A new note says that the file on deck continues the one in use.
LEMMA NoteOfNewFile ==
    ASSUME FilesTypeOK, FilesOwnedOnce, NotesInv, Running, Running',
           currentFile = monarch, monarch # NoFile, header = monarch,
           on_deck = NoFile, CreateOnDeck, currentFile' = monarch',
           UNCHANGED <<monarch, removed>>, pc_control' # "constructed"
    PROVE  NotesInv'
<1> DEFINE new == <<file_count, monarch>>
<1>1. monarch \in Nat /\ file_count \in Nat /\ monarch < file_count
  BY DEF FilesTypeOK, File, FilesOwnedOnce, Live
<1>2. continues' = continues \cup {new}
  BY DEF CreateOnDeck
<1>3. \A p \in continues :
          p[1] \in Nat /\ p[1] < file_count /\ p[1] <= monarch /\ p[2] <= monarch
  BY ConstantsAssumption DEF NotesInv, FilesTypeOK
<1>4. monarch \notin removed
  BY DEF FilesOwnedOnce, Live
<1>5. new[1] = file_count /\ new[2] = monarch
  OBVIOUS
<1> HIDE DEF new
<1>6. ContinuationChain'
  <2>1. ASSUME NEW p \in continues', NEW q \in continues'
        PROVE  /\ p[2] \in Nat /\ p[2] < p[1] /\ p[2] \notin removed
               /\ ~(p[2] < q[1] /\ q[1] < p[1])
    <3>1. CASE p = new
      BY <1>1, <1>2, <1>3, <1>4, <1>5, <2>1, <3>1
    <3>2. CASE p # new
      BY <1>1, <1>2, <1>3, <1>5, <2>1, <3>2 DEF NotesInv, ContinuationChain
    <3> QED
      BY <3>1, <3>2
  <2> QED
    BY <2>1 DEF ContinuationChain
<1>7. on_deck' = file_count /\ file_count' = file_count + 1
  BY DEF CreateOnDeck
<1>8. \A p \in continues' : p[1] < file_count'
  BY <1>1, <1>2, <1>3, <1>5, <1>7
<1>9. \A p \in continues' : p[1] = on_deck' \/ p[1] <= monarch'
  BY <1>2, <1>3, <1>5, <1>7
<1>10. \A p \in continues' : p[2] <= monarch'
  BY <1>1, <1>2, <1>3, <1>5
<1> QED
  BY <1>1, <1>6, <1>7, <1>8, <1>9, <1>10 DEF NotesInv

\* What neither moves pointers nor makes notes leaves them as they are.
LEMMA NotesKept ==
    ASSUME FilesTypeOK, NotesInv, Running' => Running, file_count' \in Nat,
           file_count <= file_count',
           UNCHANGED <<monarch, on_deck, currentFile, continues, removed>>,
           pc_control' = "constructed" => pc_control = "constructed"
    PROVE  NotesInv'
  <1>1. ContinuationChain'
    BY DEF NotesInv, ContinuationChain
  <1>2. \A p \in continues : p[1] \in Nat /\ p[1] < file_count'
    BY DEF NotesInv, FilesTypeOK
  <1> QED
    BY <1>1, <1>2 DEF NotesInv

LEMMA NotesInit == Init => NotesInv
  BY ConstantsAssumption DEF Init, NotesInv, ContinuationChain, currentFile

LEMMA NotesStep == ChainInv /\ [Next]_vars => NotesInv'
<1> SUFFICES ASSUME FilesTypeOK, SyncTypeOK, PcTypeOK, PointersInv, FilesOwnedOnce,
                    HeaderInv, NotesInv, [Next]_vars
             PROVE  NotesInv'
  BY DEF ChainInv, TypeOK
<1>0. file_count \in Nat
  BY DEF FilesTypeOK
<1>1. CASE Control
  <2>1. UNCHANGED <<file_count, continues>>
    BY <1>1 DEF Control
  <2>2. CASE StartUsing \/ StartUsingThrows
    <3>1. continues = {} /\ UNCHANGED <<monarch, on_deck>> /\ pc_control' = "running"
      BY <2>2 DEF StartUsing, StartUsingThrows, ControlGoes, NotesInv, pointers
    <3> QED
      BY <2>1, <3>1 DEF NotesInv, ContinuationChain
  <2>3. CASE \/ Cancel \/ WriteHeader \/ WaitStreams \/ Destroy
    BY <1>0, <2>1, <2>3, NotesKept DEF Cancel, WriteHeader, WaitStreams, Destroy,
       ControlGoes, Running, currentFile, file_vars, pointers
  <2>4. CASE FinishFile
    BY <1>0, <2>1, <2>4, NotesKept DEF FinishFile, ControlGoes, Running, currentFile
  <2>5. CASE StopUsing
    <3>1. /\ pc_control' = "finish_file" /\ ~Running' /\ UNCHANGED monarch
          /\ currentFile = monarch /\ currentFile' = monarch /\ monarch # NoFile
      BY <2>5 DEF StopUsing, ControlGoes, PointersInv, Joined, Running, currentFile
    <3>2. on_deck' \in {on_deck, NoFile} /\ removed' \subseteq removed \cup {on_deck}
      BY <2>5 DEF StopUsing, RemoveOnDeck
    <3>3. ASSUME NEW p \in continues PROVE p[2] # on_deck
      <4>1. p[2] \in Nat /\ p[2] <= monarch /\ monarch \in Nat
        BY <3>1, <3>3 DEF NotesInv, ContinuationChain, FilesTypeOK, File
      <4> QED
        BY <3>1, <4>1, ConstantsAssumption DEF NotesInv, FilesTypeOK, File
    <3>4. ContinuationChain'
      BY <2>1, <3>2, <3>3 DEF NotesInv, ContinuationChain
    <3> QED
      BY <2>1, <3>1, <3>2, <3>4 DEF NotesInv
  <2>6. CASE CloseFile
    <3>1. /\ UNCHANGED <<on_deck, removed>> /\ ~Running' /\ monarch' \in {monarch, NoFile}
          /\ pc_control' # "constructed"
          /\ currentFile = monarch /\ currentFile' = monarch'
      BY <2>6 DEF CloseFile, ControlGoes, PointersInv, Joined, Running, currentFile
    <3>2. ContinuationChain'
      BY <2>1, <3>1 DEF NotesInv, ContinuationChain
    <3> QED
      BY <2>1, <3>1, <3>2 DEF NotesInv
  <2>7. CASE Destroyed
    <3>1. /\ UNCHANGED removed /\ ~Running' /\ monarch' = NoFile /\ currentFile' = NoFile
          /\ pc_control' # "constructed"
      BY <2>7 DEF Destroyed, ControlGoes, Running, currentFile
    <3>2. ContinuationChain'
      BY <2>1, <3>1 DEF NotesInv, ContinuationChain
    <3> QED
      BY <2>1, <3>1, <3>2 DEF NotesInv
  <2> QED
    BY <1>1, <2>2, <2>3, <2>4, <2>5, <2>6, <2>7 DEF Control
<1>2. CASE Switch
  <2>1. UNCHANGED <<removed, pc_control, pc_ondeck>>
    BY <1>2 DEF Switch
  <2>2. CASE \/ SwitchTop \/ SwitchWait \/ SwitchLockHeader \/ SwitchSetHeader
             \/ SwitchSetStreams \/ SwitchDone \/ SwitchFinishToFinish
    BY <1>0, <2>1, <2>2, NotesKept DEF SwitchTop, SwitchWait, SwitchLockHeader,
       SwitchSetHeader, SwitchSetStreams, SwitchDone, SwitchFinishToFinish,
       SwitchGoes, pointers, disk, Running, currentFile
  <2>3. CASE SwitchThrows
    <3>1. file_count' \in Nat /\ file_count <= file_count'
      BY <1>0, <2>3 DEF SwitchThrows, CreateOnDeckThrows
    <3> QED
      BY <2>1, <2>3, <3>1, NotesKept DEF SwitchThrows, SwitchGoes, pointers,
         Running, currentFile
  <2>4. CASE SwitchCreateOnDeck
    <3>1. /\ pc_switch = "create_on_deck" /\ pc_switch' = "set_as_to_finish"
          /\ UNCHANGED <<monarch, header>>
      BY <2>4 DEF SwitchCreateOnDeck, SwitchGoes
    <3>2. monarch # NoFile /\ pc_control # "constructed"
      BY <3>1 DEF PointersInv, Joined
    <3>3. Running /\ Running' /\ currentFile = monarch /\ currentFile' = monarch'
      BY <3>1 DEF Running, currentFile
    <3>4. header = monarch
      BY <3>1, <3>3 DEF HeaderInv, Stale
    <3>5. CASE on_deck = NoFile
      BY <2>1, <2>4, <3>1, <3>2, <3>3, <3>4, <3>5, NoteOfNewFile DEF SwitchCreateOnDeck
    <3>6. CASE on_deck # NoFile
      BY <1>0, <2>1, <2>4, <3>1, <3>3, <3>6, NotesKept DEF SwitchCreateOnDeck
    <3> QED
      BY <3>5, <3>6
  <2>5. CASE SwitchSetAsToFinish
    <3>1. /\ pc_switch = "set_as_to_finish" /\ pc_switch' = "get_on_deck"
          /\ UNCHANGED <<on_deck, file_count, continues>> /\ monarch' = to_finish
      BY <2>5 DEF SwitchSetAsToFinish, SwitchGoes, disk
    <3>2. /\ to_finish = NoFile /\ on_deck # NoFile /\ monarch # NoFile
          /\ pc_control # "constructed"
      BY <3>1 DEF PointersInv, Joined
    <3>3. Running /\ currentFile = monarch /\ currentFile' = on_deck
      BY <3>1 DEF Running, currentFile
    <3>4. monarch \in Nat /\ on_deck \in Nat /\ monarch < on_deck
      BY <3>2 DEF FilesTypeOK, File, NotesInv
    <3>5. ASSUME NEW p \in continues PROVE p[1] <= on_deck /\ p[2] <= on_deck
      <4>1. p[1] \in Nat /\ p[2] \in Nat
        BY <3>5 DEF NotesInv, ContinuationChain, FilesTypeOK
      <4>2. p[1] = on_deck \/ p[1] <= monarch
        BY <3>3, <3>5 DEF NotesInv
      <4>3. p[2] <= monarch
        BY <3>2, <3>3, <3>5 DEF NotesInv
      <4> QED
        BY <3>4, <4>1, <4>2, <4>3
    <3>6. ContinuationChain'
      BY <2>1, <3>1 DEF NotesInv, ContinuationChain
    <3> QED
      BY <2>1, <3>1, <3>2, <3>3, <3>5, <3>6 DEF NotesInv
  <2>6. CASE SwitchGetOnDeck
    <3>1. /\ pc_switch = "get_on_deck" /\ pc_switch' = "set_header"
          /\ UNCHANGED <<file_count, continues>> /\ monarch' = on_deck /\ on_deck' = monarch
      BY <2>6 DEF SwitchGetOnDeck, SwitchGoes, disk
    <3>2. monarch = NoFile /\ on_deck # NoFile /\ pc_control # "constructed"
      BY <3>1 DEF PointersInv
    <3>3. Running /\ currentFile = on_deck /\ currentFile' = on_deck
      BY <3>1 DEF Running, currentFile
    <3>4. on_deck \in Nat
      BY <3>2 DEF FilesTypeOK, File
    <3>5. \A p \in continues : p[1] <= on_deck
      BY <3>3, <3>4 DEF NotesInv, FilesTypeOK
    <3>6. ContinuationChain'
      BY <2>1, <3>1 DEF NotesInv, ContinuationChain
    <3> QED
      BY <2>1, <3>1, <3>2, <3>3, <3>5, <3>6 DEF NotesInv
  <2> QED
    BY <1>2, <2>2, <2>3, <2>4, <2>5, <2>6 DEF Switch
<1>3. CASE OnDeck
  <2>1. UNCHANGED <<monarch, header, header_mutex, removed, pc_control, pc_switch>>
    BY <1>3 DEF OnDeck
  <2>2. pc_ondeck \in {"top", "wait", "work"}
    BY <1>3 DEF OnDeck, OnDeckTop, OnDeckWake, OnDeckFinish, OnDeckCreate,
       OnDeckThrows, OnDeckRest, OnDeckGoes
  <2>3. Running
    BY <2>2 DEF Running
  <2>4. CASE OnDeckTop \/ OnDeckWake \/ OnDeckRest \/ OnDeckFinish
    BY <1>0, <2>1, <2>3, <2>4, NotesKept DEF OnDeckTop, OnDeckWake, OnDeckRest,
       OnDeckFinish, disk, currentFile
  <2>5. CASE OnDeckThrows
    <3>1. file_count' \in Nat /\ file_count <= file_count'
      BY <1>0, <2>5 DEF OnDeckThrows, CreateOnDeckThrows
    <3> QED
      BY <2>1, <2>3, <2>5, <3>1, NotesKept DEF OnDeckThrows, currentFile
  <2>6. CASE OnDeckCreate
    <3>1. on_deck = NoFile /\ header_mutex = "none" /\ CreateOnDeck /\ pc_ondeck' = "work"
      BY <2>6 DEF OnDeckCreate, OnDeckGoes
    <3>2. pc_switch \notin Stale /\ pc_control \notin Joined /\ pc_control # "constructed"
      BY <2>2, <3>1 DEF HeaderInv, HoldsHeader, Stale, PointersInv, SyncTypeOK
    <3>3. header = monarch
      BY <2>3, <3>2 DEF HeaderInv
    <3>4. monarch # NoFile /\ currentFile = monarch /\ currentFile' = monarch'
      BY <2>1, <3>2 DEF PointersInv, Joined, Stale, currentFile
    <3>5. Running'
      BY <3>1 DEF Running
    <3> QED
      BY <2>1, <2>3, <3>1, <3>2, <3>3, <3>4, <3>5, NoteOfNewFile
  <2> QED
    BY <1>3, <2>4, <2>5, <2>6 DEF OnDeck
<1>4. ASSUME NEW s \in Streams, Writer(s) PROVE NotesInv'
  BY <1>0, <1>4, NotesKept DEF Writer, file_vars, pointers, disk, Running, currentFile
<1>5. CASE UNCHANGED vars
  BY <1>0, <1>5, NotesKept DEF vars, file_vars, pointers, disk, pcs, Running, currentFile
<1> QED
  BY <1>1, <1>2, <1>3, <1>4, <1>5 DEF Next

\* With any number of writers and whatever fails, the notes of continuation
\* form one chain through the files that were used.
THEOREM NotesFormChain == Spec => []ContinuationChain
<1>1. Init => ChainInv
  BY TypeInit, PointersInit, FilesInit, HeaderInit, NotesInit DEF ChainInv
<1>2. ChainInv /\ [Next]_vars => ChainInv'
  BY TypeStep, PointersStep, FilesStep, HeaderStep, NotesStep DEF ChainInv
<1>3. ChainInv => ContinuationChain
  BY DEF ChainInv, NotesInv
<1> QED
  BY <1>1, <1>2, <1>3, PTL DEF Spec

-----------------------------------------------------------------------------
(* The records, with any number of writers.                                *)

\* The files that hold records or that a stream points into.
Used == {r.file : r \in recs} \cup ({stream_wraps[s] : s \in Streams} \ {NoFile})

\* A stream is only ever moved to the file in use, and that is the newest of
\* those used so far: what a writer still writes goes behind what it wrote.
UsedInv ==
    /\ Used \subseteq 0 .. file_count - 1
    /\ currentFile # NoFile => \A f \in Used : f <= currentFile
    /\ \A s \in Streams : pc_writer[s] \in Using => stream_wraps[s] # NoFile
    /\ \A r \in recs :
           /\ pc_writer[r.stream] # "idle"
           /\ r.number <= sent[r.stream]
           /\ pc_writer[r.stream] \in Using => r.file <= stream_wraps[r.stream]
    /\ RecordsInOrder

\* Unless the wrapper is destroyed early, no file that was used is deleted or
\* given up.
KeptInv == pc_control # "destroying" /\ Used \cap (removed \cup abandoned) = {}

\* What a set of numbers below n has and has not.
LEMMA NumbersBelow ==
    ASSUME NEW S, NEW n \in Nat, S \subseteq 0 .. n - 1
    PROVE  /\ S \subseteq Nat /\ n \notin S /\ NoFile \notin S
           /\ \A m \in Nat : n <= m => S \subseteq 0 .. m - 1
<1>1. ASSUME NEW f \in S
      PROVE  /\ f \in Nat /\ f # n /\ f # NoFile
             /\ \A m \in Nat : n <= m => f \in 0 .. m - 1
  <2>1. f \in 0 .. n - 1
    OBVIOUS
  <2> QED
    BY <2>1, ConstantsAssumption
<1> QED
  BY <1>1

LEMMA UsedInit == Init => UsedInv /\ KeptInv
  BY DEF Init, UsedInv, KeptInv, Used, RecordsInOrder, Using

\* The file in use stays, is gone for good, or is followed by a newer one.
LEMMA CurrentStep ==
    ASSUME FilesTypeOK, PointersInv, NotesInv, [Next]_vars
    PROVE  \/ currentFile' \in {currentFile, NoFile}
           \/ /\ currentFile \in Nat /\ currentFile' \in Nat
              /\ currentFile < currentFile'
<1>1. CASE Control
  <2>1. CASE StartUsing \/ StartUsingThrows
    BY <2>1 DEF StartUsing, StartUsingThrows, ControlGoes, PointersInv, pointers,
       currentFile
  <2>2. CASE \/ Cancel \/ WriteHeader \/ WaitStreams \/ Destroy \/ FinishFile
    BY <2>2 DEF Cancel, WriteHeader, WaitStreams, Destroy, FinishFile, file_vars,
       pointers, currentFile
  <2>3. CASE StopUsing \/ CloseFile \/ Destroyed
    BY <2>3 DEF StopUsing, CloseFile, Destroyed, ControlGoes, PointersInv, Joined,
       currentFile
  <2> QED
    BY <1>1, <2>1, <2>2, <2>3 DEF Control
<1>2. CASE Switch
  <2>1. CASE SwitchSetAsToFinish
    <3>1. /\ pc_switch = "set_as_to_finish" /\ pc_switch' = "get_on_deck"
          /\ UNCHANGED on_deck
      BY <2>1 DEF SwitchSetAsToFinish, SwitchGoes
    <3>2. /\ currentFile = monarch /\ currentFile' = on_deck
          /\ monarch \in Nat /\ on_deck \in Nat /\ monarch < on_deck
      <4>1. monarch # NoFile /\ on_deck # NoFile
        BY <3>1 DEF PointersInv, Joined
      <4> QED
        BY <3>1, <4>1 DEF currentFile, FilesTypeOK, File, NotesInv
    <3> QED
      BY <3>2
  <2>2. CASE SwitchGetOnDeck
    BY <2>2 DEF SwitchGetOnDeck, SwitchGoes, currentFile
  <2>3. CASE \/ SwitchTop \/ SwitchWait \/ SwitchLockHeader \/ SwitchSetHeader
             \/ SwitchSetStreams \/ SwitchDone \/ SwitchFinishToFinish
             \/ SwitchCreateOnDeck \/ SwitchThrows
    BY <2>3 DEF SwitchTop, SwitchWait, SwitchLockHeader, SwitchSetHeader,
       SwitchSetStreams, SwitchDone, SwitchFinishToFinish, SwitchCreateOnDeck,
       SwitchThrows, SwitchGoes, pointers, currentFile
  <2> QED
    BY <1>2, <2>1, <2>2, <2>3 DEF Switch
<1>3. CASE OnDeck
  <2>1. UNCHANGED <<monarch, pc_switch>>
    BY <1>3 DEF OnDeck
  <2>2. pc_switch = "get_on_deck" => UNCHANGED on_deck
    BY <1>3 DEF OnDeck, OnDeckTop, OnDeckWake, OnDeckFinish, OnDeckCreate,
       OnDeckThrows, OnDeckRest, PointersInv
  <2> QED
    BY <2>1, <2>2 DEF currentFile
<1>4. ASSUME NEW s \in Streams, Writer(s) PROVE currentFile' = currentFile
  BY <1>4 DEF Writer, file_vars, pointers, currentFile
<1>5. CASE UNCHANGED vars
  BY <1>5 DEF vars, file_vars, pointers, pcs, currentFile
<1> QED
  BY <1>1, <1>2, <1>3, <1>4, <1>5 DEF Next

\* A stream is never moved but to the file in use, which is there then.
LEMMA StreamMoves ==
    ASSUME PcTypeOK, DataTypeOK, FilesTypeOK, PointersInv, LocksInv, HeaderInv,
           [Next]_vars, NEW s \in Streams,
           \/ stream_wraps'[s] # stream_wraps[s]
           \/ pc_writer[s] = "idle" /\ pc_writer'[s] \in Using
    PROVE  \/ stream_wraps'[s] = NoFile /\ pc_writer'[s] \notin Using
           \/ /\ stream_wraps'[s] = monarch /\ monarch \in Nat
              /\ currentFile = monarch
              /\ UNCHANGED <<currentFile, file_count, removed, abandoned, recs>>
              /\ pc_writer'[s] \in Using => pc_writer[s] \in Using \cup {"idle"}
<1>1. CASE Control
  BY <1>1 DEF Control, Using
<1>2. CASE Switch
  <2>1. SwitchSetStreams
    BY <1>2 DEF Using, Switch, SwitchTop, SwitchWait, SwitchLockHeader,
       SwitchFinishToFinish, SwitchCreateOnDeck, SwitchThrows,
       SwitchSetAsToFinish, SwitchGetOnDeck, SwitchSetHeader, SwitchDone
  <2>2. /\ pc_switch = "set_streams" /\ pc_switch' = "switched"
        /\ UNCHANGED <<monarch, on_deck, file_count, removed, abandoned, recs,
                       pc_writer>>
    BY <1>2, <2>1 DEF Switch, SwitchSetStreams, SwitchGoes, pointers, disk
  <2>3. pc_control \notin Joined /\ monarch # NoFile
    BY <2>2 DEF PointersInv, Joined
  <2>4. stream_wraps'[s] = monarch
    BY <2>1, <2>2 DEF SwitchSetStreams, Using
  <2> QED
    BY <2>2, <2>3, <2>4 DEF currentFile, FilesTypeOK, File
<1>3. CASE OnDeck
  BY <1>3 DEF OnDeck, data_vars, Using
<1>4. ASSUME NEW w \in Streams, Writer(w)
      PROVE  \/ stream_wraps'[s] = NoFile /\ pc_writer'[s] \notin Using
             \/ /\ stream_wraps'[s] = monarch /\ monarch \in Nat
                /\ currentFile = monarch
                /\ UNCHANGED <<currentFile, file_count, removed, abandoned, recs>>
                /\ pc_writer'[s] \in Using => pc_writer[s] \in Using \cup {"idle"}
  <2>1. GetStream(w) \/ FinishStream(w)
    BY <1>4 DEF Writer, NeverStarted, WriteRecord, OkayToWrite, WriteToStream,
       LoadEstimate, StoreEstimate, TestSwitchFlag, SetSwitchFlag,
       ClearOkToWrite, data_vars, WriterGoes, Return, Using, PcTypeOK
  <2>2. CASE GetStream(w)
    <3>1. /\ stage = "writing" /\ monarch_mutex = "none" /\ s = w
          /\ stream_wraps' = [stream_wraps EXCEPT ![w] = monarch]
          /\ pc_writer[w] = "idle" /\ UNCHANGED recs
      BY <2>2 DEF GetStream, WriterGoes, PcTypeOK, DataTypeOK, Using
    <3>2. stream_wraps'[s] = monarch
      BY <3>1 DEF DataTypeOK
    <3>3. pc_switch # "get_on_deck" /\ pc_control \notin {"finished", "destroyed"}
      BY <3>1 DEF LocksInv, Switching, HeaderInv
    <3>4. monarch \in Nat /\ currentFile = monarch
      BY <3>3 DEF PointersInv, FilesTypeOK, File, currentFile
    <3>5. UNCHANGED <<currentFile, file_count, removed, abandoned>>
      BY <1>4 DEF Writer, file_vars, pointers, disk, currentFile
    <3> QED
      BY <3>1, <3>2, <3>4, <3>5
  <2>3. CASE FinishStream(w)
    <3>1. /\ stream_wraps' = [stream_wraps EXCEPT ![w] = NoFile]
          /\ pc_writer' = [pc_writer EXCEPT ![w] = "done"] /\ s = w
      BY <2>3 DEF FinishStream, WriterGoes, PcTypeOK, DataTypeOK, Using
    <3> QED
      BY <3>1 DEF DataTypeOK, PcTypeOK, Using
  <2> QED
    BY <2>1, <2>2, <2>3
<1>5. CASE UNCHANGED vars
  BY <1>5 DEF vars, data_vars, pcs, Using
<1> QED
  BY <1>1, <1>2, <1>3, <1>4, <1>5 DEF Next

\* A step changes the records only by WriteToStream, in the stream's own file.
LEMMA RecordAdded ==
    ASSUME PcTypeOK, DataTypeOK, [Next]_vars, recs' # recs
    PROVE  \E s \in Streams :
               /\ recs' = recs \cup {[stream |-> s, number |-> sent[s] + 1,
                                      file |-> stream_wraps[s]]}
               /\ sent' = [sent EXCEPT ![s] = @ + 1]
               /\ pc_writer[s] = "write"
               /\ pc_writer' = [pc_writer EXCEPT ![s] = "load"]
               /\ UNCHANGED <<stream_wraps, currentFile, file_count, removed,
                              abandoned>>
<1>1. ~Control /\ ~Switch /\ ~OnDeck /\ ~UNCHANGED vars
  BY DEF Control, Switch, OnDeck, vars, data_vars
<1>2. PICK s \in Streams : Writer(s)
  BY <1>1 DEF Next
<1>3. WriteToStream(s) /\ monarch # NoFile
  BY <1>2 DEF Writer, GetStream, NeverStarted, WriteRecord, OkayToWrite,
     WriteToStream, LoadEstimate, StoreEstimate, TestSwitchFlag, SetSwitchFlag,
     ClearOkToWrite, FinishStream, data_vars
<1>4. UNCHANGED <<currentFile, file_count, removed, abandoned>>
  BY <1>2 DEF Writer, file_vars, pointers, disk, currentFile
<1> QED
  BY <1>3, <1>4 DEF WriteToStream, WriterGoes

\* A writer that uses its stream, or has none yet, is one that did before; the
\* numbers handed over only grow.
LEMMA WriterGoesOn ==
    ASSUME PcTypeOK, DataTypeOK, [Next]_vars, NEW s \in Streams
    PROVE  /\ pc_writer'[s] \in Using => pc_writer[s] \in Using \cup {"idle"}
           /\ pc_writer'[s] = "idle" => pc_writer[s] = "idle"
           /\ sent[s] <= sent'[s]
<1>0. sent[s] \in Nat
  BY DEF DataTypeOK
<1>1. CASE ~\E w \in Streams : Writer(w)
  <2>1. UNCHANGED <<pc_writer, sent>>
    BY <1>1 DEF Next, Control, Switch, OnDeck, vars, pcs, data_vars
  <2> QED
    BY <1>0, <2>1
<1>2. ASSUME NEW w \in Streams, Writer(w)
      PROVE  /\ pc_writer'[s] \in Using => pc_writer[s] \in Using \cup {"idle"}
             /\ pc_writer'[s] = "idle" => pc_writer[s] = "idle"
             /\ sent[s] <= sent'[s]
  <2>1. sent[s] <= sent'[s]
    BY <1>0, <1>2 DEF Writer, GetStream, NeverStarted, WriteRecord, OkayToWrite,
       WriteToStream, LoadEstimate, StoreEstimate, TestSwitchFlag, SetSwitchFlag,
       ClearOkToWrite, FinishStream, data_vars, DataTypeOK
  <2>2. CASE GetStream(w)
    BY <2>1, <2>2 DEF GetStream, WriterGoes, PcTypeOK, Using
  <2>3. CASE ~GetStream(w)
    <3>1. PICK from, to :
              /\ pc_writer[w] = from /\ pc_writer' = [pc_writer EXCEPT ![w] = to]
              /\ to # "idle" /\ (from \notin Using => to \notin Using)
      BY <1>2, <2>3 DEF Writer, NeverStarted, WriteRecord, OkayToWrite,
         WriteToStream, LoadEstimate, StoreEstimate, TestSwitchFlag,
         SetSwitchFlag, ClearOkToWrite, FinishStream, WriterGoes, Return, Using
    <3> QED
      BY <2>1, <3>1 DEF PcTypeOK
  <2> QED
    BY <2>2, <2>3
<1> QED
  BY <1>1, <1>2

LEMMA UsedStep ==
    ASSUME TypeOK, TypeOK', PointersInv, LocksInv, FilesOwnedOnce, HeaderInv,
           NotesInv, UsedInv, [Next]_vars
    PROVE  /\ UsedInv'
           /\ \/ Used' \subseteq Used
              \/ /\ Used' \subseteq Used \cup {monarch} /\ monarch \in Live
                 /\ UNCHANGED <<removed, abandoned>>
<1>a. file_count \in Nat /\ file_count' \in Nat /\ file_count <= file_count'
  <2>1. file_count \in Nat
    BY DEF TypeOK, FilesTypeOK
  <2>2. file_count' \in {file_count, file_count + 1}
    BY DEF Next, Control, Switch, SwitchTop, SwitchWait, SwitchLockHeader,
       SwitchFinishToFinish, SwitchCreateOnDeck, SwitchThrows,
       SwitchSetAsToFinish, SwitchGetOnDeck, SwitchSetHeader, SwitchSetStreams,
       SwitchDone, OnDeck, OnDeckTop, OnDeckWake, OnDeckFinish, OnDeckCreate,
       OnDeckThrows, OnDeckRest, CreateOnDeck, CreateOnDeckThrows, Writer, vars,
       file_vars, disk
  <2> QED
    BY <2>1, <2>2
<1>b. Used \subseteq Nat /\ NoFile \notin Used
  <2>1. Used \subseteq 0 .. file_count - 1
    BY DEF UsedInv
  <2> QED
    BY <1>a, <2>1, NumbersBelow
<1>c. \A r \in recs : /\ r.stream \in Streams /\ r.number \in Nat
                      /\ r.file \in Used /\ r.file \in Nat
  BY <1>b DEF TypeOK, DataTypeOK, Used
<1>d. \A s \in Streams : stream_wraps[s] # NoFile => stream_wraps[s] \in Used
  BY DEF Used
<1>e. \A s \in Streams :
          \/ stream_wraps'[s] = stream_wraps[s]
          \/ stream_wraps'[s] = NoFile
          \/ /\ stream_wraps'[s] = monarch /\ monarch \in Nat /\ currentFile = monarch
             /\ UNCHANGED <<currentFile, file_count, removed, abandoned, recs>>
  BY StreamMoves DEF TypeOK
<1>1. \/ Used' \subseteq Used
      \/ /\ Used' \subseteq Used \cup {monarch} /\ monarch \in Live
         /\ monarch \in Nat /\ currentFile = monarch
         /\ UNCHANGED <<currentFile, file_count, removed, abandoned>>
  <2>1. CASE recs' # recs
    <3>1. PICK s \in Streams :
              /\ recs' = recs \cup {[stream |-> s, number |-> sent[s] + 1,
                                     file |-> stream_wraps[s]]}
              /\ pc_writer[s] = "write" /\ UNCHANGED stream_wraps
      BY <2>1, RecordAdded DEF TypeOK
    <3>2. stream_wraps[s] \in Used
      BY <1>d, <3>1 DEF UsedInv, Using
    <3> QED
      BY <3>1, <3>2 DEF Used
  <2>2. CASE recs' = recs /\ \A s \in Streams :
                                 stream_wraps'[s] \in {stream_wraps[s], NoFile}
    BY <2>2 DEF Used
  <2>3. CASE recs' = recs /\ ~\A s \in Streams :
                                 stream_wraps'[s] \in {stream_wraps[s], NoFile}
    <3>1. /\ monarch \in Nat /\ currentFile = monarch
          /\ UNCHANGED <<currentFile, file_count, removed, abandoned>>
      BY <1>e, <2>3
    <3>2. Used' \subseteq Used \cup {monarch}
      BY <1>e, <2>3 DEF Used
    <3>3. monarch \in Live
      BY <3>1, ConstantsAssumption DEF Live
    <3> QED
      BY <3>1, <3>2, <3>3
  <2> QED
    BY <2>1, <2>2, <2>3
<1>2. Used' \subseteq 0 .. file_count' - 1
  <2>1. monarch \in Live => monarch \in 0 .. file_count - 1
    BY DEF FilesOwnedOnce
  <2>2. Used' \subseteq 0 .. file_count - 1
    BY <1>1, <2>1 DEF UsedInv
  <2> QED
    BY <1>a, <2>2, NumbersBelow
<1>3. currentFile' # NoFile => \A f \in Used' : f <= currentFile'
  <2> SUFFICES ASSUME currentFile' # NoFile, NEW f \in Used' PROVE f <= currentFile'
    OBVIOUS
  <2>1. \/ currentFile' = currentFile
        \/ /\ currentFile \in Nat /\ currentFile' \in Nat
           /\ currentFile < currentFile'
    BY CurrentStep DEF TypeOK
  <2>2. currentFile \in Nat /\ currentFile' \in Nat /\ currentFile <= currentFile'
    BY <2>1 DEF TypeOK, FilesTypeOK, File, currentFile
  <2>3. f \in Used => f \in Nat /\ f <= currentFile
    BY <1>b, <2>2, ConstantsAssumption DEF UsedInv
  <2> QED
    BY <1>1, <2>2, <2>3
<1>4. ASSUME NEW s \in Streams, pc_writer'[s] \in Using
      PROVE  /\ stream_wraps'[s] # NoFile
             /\ \/ pc_writer[s] = "idle"
                \/ /\ pc_writer[s] \in Using
                   /\ \A f \in Used : f <= stream_wraps[s] => f <= stream_wraps'[s]
  <2>1. pc_writer[s] \in Using \cup {"idle"}
    BY <1>4, WriterGoesOn DEF TypeOK
  <2>2. CASE stream_wraps'[s] = stream_wraps[s] /\ pc_writer[s] # "idle"
    BY <2>1, <2>2 DEF UsedInv
  <2>3. CASE ~(stream_wraps'[s] = stream_wraps[s] /\ pc_writer[s] # "idle")
    <3>1. stream_wraps'[s] = monarch /\ monarch \in Nat /\ currentFile = monarch
      BY <1>4, <2>1, <2>3, StreamMoves DEF TypeOK
    <3> QED
      BY <2>1, <3>1, ConstantsAssumption DEF UsedInv
  <2> QED
    BY <2>2, <2>3
<1>5. ASSUME NEW r \in recs
      PROVE  /\ pc_writer'[r.stream] # "idle"
             /\ r.number <= sent'[r.stream]
             /\ pc_writer'[r.stream] \in Using => r.file <= stream_wraps'[r.stream]
  <2>1. sent[r.stream] \in Nat /\ sent'[r.stream] \in Nat
    BY <1>c DEF TypeOK, DataTypeOK
  <2>2. /\ pc_writer[r.stream] # "idle" /\ r.number <= sent[r.stream]
        /\ pc_writer[r.stream] \in Using => r.file <= stream_wraps[r.stream]
    BY DEF UsedInv
  <2>3. /\ pc_writer'[r.stream] # "idle" /\ r.number <= sent'[r.stream]
    BY <1>c, <2>1, <2>2, WriterGoesOn DEF TypeOK
  <2> QED
    BY <1>4, <1>c, <2>2, <2>3
<1>6. CASE recs' = recs
  <2>1. RecordsInOrder'
    BY <1>6 DEF UsedInv, RecordsInOrder
  <2> QED
    BY <1>1, <1>2, <1>3, <1>4, <1>5, <1>6, <2>1 DEF UsedInv
<1>7. CASE recs' # recs
  <2>1. PICK s \in Streams :
            /\ recs' = recs \cup {[stream |-> s, number |-> sent[s] + 1,
                                   file |-> stream_wraps[s]]}
            /\ sent' = [sent EXCEPT ![s] = @ + 1]
            /\ pc_writer[s] = "write"
            /\ pc_writer' = [pc_writer EXCEPT ![s] = "load"]
            /\ UNCHANGED stream_wraps
    BY <1>7, RecordAdded DEF TypeOK
  <2> DEFINE new == [stream |-> s, number |-> sent[s] + 1, file |-> stream_wraps[s]]
  <2>2. /\ new.stream = s /\ new.number = sent[s] + 1 /\ new.file = stream_wraps[s]
        /\ recs' = recs \cup {new}
    BY <2>1
  <2> HIDE DEF new
  <2>3. /\ pc_writer'[s] = "load" /\ sent'[s] = sent[s] + 1 /\ sent[s] \in Nat
        /\ stream_wraps[s] \in Nat /\ pc_writer[s] \in Using
    BY <1>b, <1>d, <2>1 DEF TypeOK, PcTypeOK, DataTypeOK, UsedInv, Using
  <2>4. \A r \in recs : r.stream = s => r.number < new.number /\ r.file <= new.file
    BY <1>c, <2>2, <2>3 DEF UsedInv
  <2>5. ASSUME NEW r \in recs'
        PROVE  /\ pc_writer'[r.stream] # "idle"
               /\ r.number <= sent'[r.stream]
               /\ pc_writer'[r.stream] \in Using => r.file <= stream_wraps'[r.stream]
    <3>1. CASE r = new
      BY <2>1, <2>2, <2>3, <3>1
    <3> QED
      BY <1>5, <2>2, <3>1
  <2>6. ASSUME NEW q \in recs', NEW r \in recs', q.stream = r.stream,
               q.number < r.number
        PROVE  q.file <= r.file
    <3>1. CASE q \in recs /\ r \in recs
      BY <2>6, <3>1 DEF UsedInv, RecordsInOrder
    <3>2. CASE r = new /\ q \in recs
      BY <2>2, <2>4, <2>6, <3>2
    <3>3. CASE q = new
      BY <1>c, <2>2, <2>3, <2>4, <2>6, <3>3
    <3> QED
      BY <2>2, <3>1, <3>2, <3>3
  <2>7. RecordsInOrder'
    BY <2>6 DEF RecordsInOrder
  <2> QED
    BY <1>1, <1>2, <1>3, <1>4, <2>5, <2>7 DEF UsedInv
<1> QED
  BY <1>6, <1>7

\* With any number of writers, whatever fails, however late a writer starts and
\* whichever way the wrapper goes: the files of a run, read in the order of
\* their numbers, give the records of each stream in the order they were
\* written in.
THEOREM AllInOrder == Spec => []RecordsInOrder
<1> DEFINE I == ChainInv /\ LocksInv /\ UsedInv
<1>1. Init => I
  BY TypeInit, PointersInit, FilesInit, HeaderInit, NotesInit, WriterInit, UsedInit
  DEF ChainInv, WriterInv
<1>2. I /\ [Next]_vars => I'
  BY TypeStep, PointersStep, FilesStep, HeaderStep, NotesStep, LocksStep, UsedStep
  DEF ChainInv
<1>3. I => RecordsInOrder
  BY DEF UsedInv
<1> QED
  BY <1>1, <1>2, <1>3, PTL DEF Spec

\* The only file finish_files deletes is the one on deck, which is newer than
\* every file used; the only number given up is that of a file never made.
LEMMA KeptStep ==
    ASSUME OrderlyEnd, TypeOK, TypeOK', PointersInv, LocksInv, FilesOwnedOnce,
           HeaderInv, NotesInv, UsedInv, KeptInv, [Next]_vars
    PROVE  KeptInv'
<1>a. file_count \in Nat /\ Used \subseteq 0 .. file_count - 1
  BY DEF TypeOK, FilesTypeOK, UsedInv
<1>b. file_count \notin Used /\ Used \subseteq Nat /\ NoFile \notin Used
  BY <1>a, NumbersBelow
<1>1. pc_control' # "destroying" /\ ~Destroyed
  <2>1. ~Destroy /\ ~Destroyed
    BY DEF Destroy, Destroyed, ControlGoes, OrderlyEnd, KeptInv
  <2>2. CASE Control
    BY <2>1, <2>2 DEF Control, StartUsing, StartUsingThrows, Cancel, StopUsing,
       FinishFile, WriteHeader, WaitStreams, CloseFile, ControlGoes
  <2>3. CASE ~Control
    BY <2>1, <2>3 DEF KeptInv, Next, Switch, OnDeck, Writer, vars, pcs
  <2> QED
    BY <2>1, <2>2, <2>3
<1>2. CASE StopUsing
  <2>1. /\ UNCHANGED <<recs, stream_wraps, abandoned>>
        /\ removed' \subseteq removed \cup ({on_deck} \ {NoFile})
    <3>1. pc_control = "stop_using" /\ pc_control' = "finish_file"
      BY <1>2 DEF StopUsing, ControlGoes
    <3>2. Control
      BY <3>1 DEF Next, Switch, OnDeck, Writer, vars, pcs
    <3> QED
      BY <1>2, <3>2 DEF Control, StopUsing, RemoveOnDeck
  <2>2. on_deck # NoFile => on_deck \notin Used
    <3>1. monarch # NoFile /\ currentFile = monarch
      BY <1>2 DEF StopUsing, ControlGoes, PointersInv, currentFile
    <3>2. ASSUME on_deck # NoFile PROVE on_deck \notin Used
      <4>1. monarch \in Nat /\ on_deck \in Nat /\ monarch < on_deck
        BY <3>1, <3>2 DEF NotesInv, TypeOK, FilesTypeOK, File
      <4>2. \A f \in Used : f \in Nat /\ f <= monarch
        BY <1>b, <3>1 DEF UsedInv
      <4> QED
        BY <4>1, <4>2
    <3> QED
      BY <3>2
  <2>3. Used' = Used
    BY <2>1 DEF Used
  <2> QED
    BY <1>1, <2>1, <2>2, <2>3 DEF KeptInv
<1>3. CASE ~StopUsing
  <2>1. UNCHANGED removed /\ abandoned' \subseteq abandoned \cup {file_count}
    <3>1. CASE Control
      BY <1>1, <1>3, <3>1 DEF Control, StartUsing, StartUsingThrows, Cancel,
         FinishFile, WriteHeader, WaitStreams, CloseFile, Destroy, file_vars, disk
    <3>2. CASE Switch
      BY <3>2 DEF Switch, SwitchTop, SwitchWait, SwitchLockHeader,
         SwitchFinishToFinish, SwitchCreateOnDeck, SwitchThrows,
         SwitchSetAsToFinish, SwitchGetOnDeck, SwitchSetHeader,
         SwitchSetStreams, SwitchDone, CreateOnDeckThrows, disk
    <3>3. CASE OnDeck
      BY <3>3 DEF OnDeck, OnDeckTop, OnDeckWake, OnDeckFinish, OnDeckCreate,
         OnDeckThrows, OnDeckRest, CreateOnDeckThrows, disk
    <3>4. CASE ~Control /\ ~Switch /\ ~OnDeck
      BY <3>4 DEF Next, Writer, vars, file_vars, disk
    <3> QED
      BY <3>1, <3>2, <3>3, <3>4
  <2>2. CASE Used' \subseteq Used
    BY <1>1, <1>b, <2>1, <2>2 DEF KeptInv
  <2>3. CASE /\ Used' \subseteq Used \cup {monarch} /\ monarch \in Live
             /\ UNCHANGED <<removed, abandoned>>
    BY <1>1, <2>3 DEF KeptInv, FilesOwnedOnce
  <2> QED
    BY <2>2, <2>3, UsedStep
<1> QED
  BY <1>2, <1>3

\* With any number of writers, whatever fails and however late a writer starts,
\* as long as the wrapper is not destroyed early: no file that is deleted as
\* unused or given up holds a record.
THEOREM AllRecordsKept == OrderlyEnd => (Spec => []RecordsKept)
<1> SUFFICES ASSUME OrderlyEnd PROVE Spec => []RecordsKept
  OBVIOUS
<1> DEFINE I == ChainInv /\ LocksInv /\ UsedInv /\ KeptInv
<1>1. Init => I
  BY TypeInit, PointersInit, FilesInit, HeaderInit, NotesInit, WriterInit, UsedInit
  DEF ChainInv, WriterInv
<1>2. I /\ [Next]_vars => I'
  BY TypeStep, PointersStep, FilesStep, HeaderStep, NotesStep, LocksStep, UsedStep,
     KeptStep
  DEF ChainInv
<1>3. I => RecordsKept
  BY DEF KeptInv, RecordsKept, Used
<1> QED
  BY <1>1, <1>2, <1>3, PTL DEF Spec

-----------------------------------------------------------------------------
(* The size of the files, with one writer and a library that does not fail. *)

\* The records of R in file f.
Count(R, f) == Cardinality({r \in R : r.file = f})

\* The switch thread has taken the request and not yet reset the estimate.
Renewing == {"lock_header"} \cup HoldsHeader

Full == file_size_est >= MaxFileSize

\* The estimate is never below the number of records in the current file, but
\* for the one record the writer is about to count.
CountsInv ==
    /\ IsFiniteSet(recs)
    /\ \A f \in File : Count(recs, f) <= MaxFileSize
    /\ pc_switch \in Stale => Count(recs, currentFile) = 0
    /\ \A s \in Streams :
          /\ pc_writer[s] = "load" => Count(recs, currentFile) <= file_size_est + 1
          /\ pc_writer[s] = "store" => /\ Count(recs, currentFile) <= tally[s]
                                       /\ tally[s] <= MaxFileSize
          /\ pc_writer[s] \notin {"load", "store"} =>
                 Count(recs, currentFile) <= file_size_est

\* Once the estimate has reached the limit a switch is due, and until it has
\* come the writer is not let in.
FullInv ==
    /\ pc_control = "constructed" => ~Full
    /\ Full => do_switch_flag \/ pc_switch \in Renewing
                   \/ \E s \in Streams : pc_writer[s] \in {"trigger", "set_flag"}
    /\ \A s \in Streams : pc_writer[s] \in {"write", "load"} => ~Full

NoFailures == MaxFailures = 0

\* Adding a record to a file adds at most one to its count, and to no other's.
LEMMA CountAdded ==
    ASSUME NEW R, IsFiniteSet(R), NEW new, NEW f
    PROVE  /\ IsFiniteSet(R \cup {new})
           /\ Count(R, f) \in Nat /\ Count(R \cup {new}, f) \in Nat
           /\ Count(R \cup {new}, f) <= Count(R, f) + 1
           /\ new.file # f => Count(R \cup {new}, f) = Count(R, f)
<1> DEFINE S == {r \in R : r.file = f}
           T == {r \in R \cup {new} : r.file = f}
<1>1. IsFiniteSet(R \cup {new})
  BY FS_AddElement
<1>2. IsFiniteSet(S)
  BY FS_Subset
<1>3. Cardinality(S) \in Nat
  BY <1>2, FS_CardinalityType
<1>4. Count(R, f) = Cardinality(S) /\ Count(R \cup {new}, f) = Cardinality(T)
  BY DEF Count
<1>5. CASE new.file = f
  <2>1. T = S \cup {new}
    BY <1>5
  <2>2. Cardinality(T) = Cardinality(S) \/ Cardinality(T) = Cardinality(S) + 1
    BY <1>2, <2>1, FS_AddElement
  <2> HIDE DEF S, T
  <2> QED
    BY <1>1, <1>3, <1>4, <1>5, <2>2
<1>6. CASE new.file # f
  <2>1. T = S
    BY <1>6
  <2> HIDE DEF S, T
  <2> QED
    BY <1>1, <1>3, <1>4, <2>1
<1> QED
  BY <1>5, <1>6

\* A file that no record is in is empty.
LEMMA CountEmpty ==
    ASSUME NEW R, NEW f, \A r \in R : r.file # f PROVE Count(R, f) = 0
<1>1. {r \in R : r.file = f} = {}
  OBVIOUS
<1> QED
  BY <1>1, FS_EmptySet DEF Count

LEMMA FullInit == Init => FullInv
<1> SUFFICES ASSUME Init PROVE FullInv
  OBVIOUS
<1>1. ~Full
  BY ConstantsAssumption DEF Init, Full
<1> QED
  BY <1>1 DEF FullInv

LEMMA FullStep ==
    OneWriter /\ NoFailures /\ Inv /\ FullInv /\ [Next]_vars => FullInv'
<1> SUFFICES ASSUME NEW w, Streams = {w}, MaxFailures = 0, SyncTypeOK, DataTypeOK,
                    PcTypeOK, SwitchInv, PhaseInv, FullInv, [Next]_vars
             PROVE  FullInv'
  BY DEF OneWriter, NoFailures, Inv, WriterInv, TypeOK
<1>0. 0 < MaxFileSize /\ MaxFileSize \in Nat /\ ~Throws
  BY ConstantsAssumption DEF Throws, SyncTypeOK
<1>a. file_size_est' = 0 => ~Full'
  BY <1>0 DEF Full
<1>b. UNCHANGED file_size_est => (Full' <=> Full)
  BY DEF Full
<1>1. CASE Control
  <2>1. UNCHANGED pc_writer /\ pc_control' # "constructed"
    BY <1>1 DEF Control, StartUsing, StartUsingThrows, Cancel, StopUsing,
       FinishFile, WriteHeader, WaitStreams, CloseFile, Destroy, Destroyed,
       ControlGoes
  <2>2. CASE StartUsing
    BY <1>b, <2>1, <2>2 DEF StartUsing, ControlGoes, FullInv
  <2>3. CASE ~StartUsing
    <3>1. /\ UNCHANGED <<do_switch_flag, pc_switch>>
          /\ UNCHANGED file_size_est \/ file_size_est' = 0
      BY <1>1, <2>3 DEF Control, StartUsingThrows, Cancel, StopUsing,
         FinishFile, WriteHeader, WaitStreams, CloseFile, Destroy, Destroyed
    <3> QED
      BY <1>a, <1>b, <2>1, <3>1, Zenon DEF FullInv
  <2> QED
    BY <2>2, <2>3
<1>2. CASE Switch
  <2>1. UNCHANGED <<pc_writer, pc_control>>
    BY <1>2 DEF Switch
  <2>2. CASE SwitchSetHeader
    BY <1>a, <2>1, <2>2, Zenon DEF SwitchSetHeader, FullInv
  <2>3. CASE ~SwitchSetHeader
    <3>1. UNCHANGED file_size_est
      BY <1>2, <2>3 DEF Switch, SwitchTop, SwitchWait, SwitchLockHeader,
         SwitchFinishToFinish, SwitchCreateOnDeck, SwitchThrows,
         SwitchSetAsToFinish, SwitchGetOnDeck, SwitchSetStreams, SwitchDone
    <3>2. do_switch_flag \/ pc_switch \in Renewing
              => do_switch_flag' \/ pc_switch' \in Renewing
      BY <1>0, <1>2, <2>3 DEF Switch, SwitchTop, SwitchWait, SwitchLockHeader,
         SwitchFinishToFinish, SwitchCreateOnDeck, SwitchThrows,
         SwitchSetAsToFinish, SwitchGetOnDeck, SwitchSetStreams, SwitchDone,
         SwitchGoes, CreateOnDeckThrows, flags, Renewing, HoldsHeader
    <3> QED
      BY <1>b, <2>1, <3>1, <3>2, Zenon DEF FullInv
  <2> QED
    BY <2>2, <2>3
<1>3. CASE OnDeck
  <2>1. UNCHANGED <<pc_writer, pc_control, pc_switch, do_switch_flag, file_size_est>>
    BY <1>3 DEF OnDeck, data_vars, estimate, flags
  <2> QED
    BY <1>b, <2>1, Zenon DEF FullInv
<1>4. ASSUME Writer(w) PROVE FullInv'
  <2>1. UNCHANGED <<pc_control, pc_switch>>
    BY <1>4 DEF Writer
  <2>2. CASE \/ GetStream(w) \/ NeverStarted(w) \/ WriteRecord(w)
             \/ WriteToStream(w) \/ LoadEstimate(w) \/ FinishStream(w)
    <3>1. UNCHANGED <<do_switch_flag, file_size_est>>
      BY <2>2 DEF GetStream, NeverStarted, WriteRecord, WriteToStream,
         LoadEstimate, FinishStream, data_vars, estimate, flags
    <3>2. /\ pc_writer[w] \notin {"trigger", "set_flag"}
          /\ pc_writer'[w] \in {"write", "load"} => pc_writer[w] \in {"write", "load"}
      BY <2>2 DEF GetStream, NeverStarted, WriteRecord, WriteToStream,
         LoadEstimate, FinishStream, WriterGoes, PcTypeOK
    <3> QED
      BY <1>b, <2>1, <3>1, <3>2, Zenon DEF FullInv
  <2>3. CASE OkayToWrite(w)
    <3>1. /\ UNCHANGED <<do_switch_flag, file_size_est>> /\ ok_to_write
          /\ pc_writer[w] = "check" /\ pc_writer'[w] = "write"
      BY <2>3 DEF OkayToWrite, WriterGoes, PcTypeOK, data_vars, estimate, flags
    <3>2. ~do_switch_flag /\ pc_switch \notin Switching
      BY <3>1 DEF SwitchInv
    <3>3. pc_switch \notin Renewing
      BY <3>2 DEF Switching, Renewing, HoldsHeader
    <3>4. ~Full
      BY <3>1, <3>2, <3>3 DEF FullInv
    <3> QED
      BY <1>b, <3>1, <3>4, Zenon DEF FullInv
  <2>4. CASE StoreEstimate(w)
    <3>1. /\ pc_writer'[w] \in {"trigger", "ready", "dead"}
          /\ file_size_est' = tally[w]
          /\ tally[w] >= MaxFileSize => pc_writer'[w] = "trigger"
          /\ UNCHANGED do_switch_flag
      BY <2>4 DEF StoreEstimate, WriterGoes, ReachesLimit, Return, PcTypeOK, flags
    <3>2. Full' => pc_writer'[w] = "trigger"
      BY <3>1 DEF Full
    <3>3. pc_control # "constructed"
      BY <2>4 DEF StoreEstimate, WriterGoes, PhaseInv
    <3> QED
      BY <2>1, <3>1, <3>2, <3>3 DEF FullInv
  <2>5. CASE TestSwitchFlag(w) \/ SetSwitchFlag(w)
    <3>1. /\ UNCHANGED file_size_est
          /\ pc_writer[w] \in {"trigger", "set_flag"}
      BY <2>5 DEF TestSwitchFlag, SetSwitchFlag, WriterGoes, data_vars, estimate
    <3>2. ~do_switch_flag
      BY <3>1 DEF SwitchInv, Contributing
    <3>3. /\ do_switch_flag' \/ pc_writer'[w] = "set_flag"
          /\ pc_writer'[w] \in {"set_flag", "clear_ok"}
      BY <2>5, <3>2 DEF TestSwitchFlag, SetSwitchFlag, WriterGoes, PcTypeOK, flags
    <3> QED
      BY <1>b, <2>1, <3>1, <3>3 DEF FullInv
  <2>6. CASE ClearOkToWrite(w)
    <3>1. /\ UNCHANGED <<do_switch_flag, file_size_est>>
          /\ pc_writer[w] = "clear_ok" /\ pc_writer'[w] \in {"ready", "dead"}
      BY <2>6 DEF ClearOkToWrite, WriterGoes, Return, PcTypeOK, data_vars, estimate
    <3> QED
      BY <1>b, <2>1, <3>1, Zenon DEF FullInv
  <2> QED
    BY <1>4, <2>2, <2>3, <2>4, <2>5, <2>6 DEF Writer
<1>5. CASE UNCHANGED vars
  <2>1. UNCHANGED <<pc_writer, pc_control, pc_switch, do_switch_flag, file_size_est>>
    BY <1>5 DEF vars, data_vars, estimate, flags, pcs
  <2> QED
    BY <1>b, <2>1, Zenon DEF FullInv
<1> QED
  BY <1>1, <1>2, <1>3, <1>4, <1>5 DEF Next

LEMMA CountsInit == Init => CountsInv
<1> SUFFICES ASSUME Init PROVE CountsInv
  OBVIOUS
<1>1. recs = {} /\ IsFiniteSet(recs)
  BY FS_EmptySet DEF Init
<1>2. \A f : Count(recs, f) = 0
  BY <1>1, CountEmpty
<1> QED
  BY <1>1, <1>2, ConstantsAssumption DEF Init, CountsInv, Stale

\* What leaves the records, the writers and the current file alone, and lowers
\* no estimate but that of an empty file, leaves the counts right.
LEMMA CountsKept ==
    ASSUME CountsInv, UNCHANGED <<recs, tally, pc_writer, currentFile>>,
           \/ UNCHANGED file_size_est
           \/ file_size_est' = 0 /\ Count(recs, currentFile) = 0,
           pc_switch' \in Stale => Count(recs, currentFile) = 0
    PROVE  CountsInv'
<1> DEFINE n == Count(recs, currentFile)
<1>1. n' = n
  OBVIOUS
<1>2. \A f \in File : Count(recs', f) <= MaxFileSize
  BY DEF CountsInv
<1> HIDE DEF n
<1>3. CASE UNCHANGED file_size_est
  BY <1>1, <1>2, <1>3 DEF CountsInv, n
<1>4. CASE file_size_est' = 0 /\ n = 0
  BY <1>1, <1>2, <1>4 DEF CountsInv, n
<1> QED
  BY <1>3, <1>4 DEF n

\* A new file in use is empty, and any estimate is enough for it.
LEMMA CountsOfEmpty ==
    ASSUME CountsInv, DataTypeOK', UNCHANGED <<recs, tally, pc_writer>>,
           \A r \in recs : r.file # currentFile'
    PROVE  CountsInv'
<1> DEFINE n == Count(recs, currentFile)
<1>1. n' = 0
  BY CountEmpty
<1>2. \A f \in File : Count(recs', f) <= MaxFileSize
  BY DEF CountsInv
<1>3. file_size_est' \in Nat /\ \A s \in Streams : tally'[s] \in Nat
  BY DEF DataTypeOK
<1> HIDE DEF n
<1> QED
  BY <1>1, <1>2, <1>3 DEF CountsInv, n

LEMMA CountsStep ==
    OneWriter /\ NoFailures /\ Inv /\ NotesInv /\ UsedInv /\ FullInv /\ CountsInv
    /\ [Next]_vars => CountsInv'
<1> SUFFICES ASSUME NEW w, Streams = {w}, MaxFailures = 0,
                    FilesTypeOK, DataTypeOK, DataTypeOK', SyncTypeOK, PcTypeOK,
                    PointersInv, WriterInv, NotesInv, UsedInv, FullInv,
                    CountsInv, [Next]_vars
             PROVE  CountsInv'
  BY TypeStep DEF OneWriter, NoFailures, Inv, TypeOK
<1>0. ~Throws
  BY DEF Throws, SyncTypeOK
<1>a. file_size_est \in Nat /\ \A s \in Streams : tally[s] \in Nat
  BY DEF DataTypeOK
<1>b. \A f : Count(recs, f) \in Nat
  BY CountAdded DEF CountsInv
<1>c. /\ \A r \in recs : r.file # NoFile
      /\ currentFile # NoFile => \A r \in recs : r.file \in Nat /\ r.file <= currentFile
  <2>1. file_count \in Nat /\ Used \subseteq 0 .. file_count - 1
    BY DEF FilesTypeOK, UsedInv
  <2>2. Used \subseteq Nat /\ NoFile \notin Used
    BY <2>1, NumbersBelow
  <2>3. \A r \in recs : r.file \in Used
    BY DEF Used
  <2> QED
    BY <2>2, <2>3 DEF UsedInv
<1>1. CASE Control
  <2>1. UNCHANGED <<recs, tally, pc_writer>>
    BY <1>1 DEF Control
  <2>2. CASE StartUsing \/ StartUsingThrows
    <3>1. /\ pc_switch = "off" /\ pc_switch' \in {"off", "top"}
          /\ UNCHANGED <<monarch, file_size_est>>
      BY <2>2 DEF StartUsing, StartUsingThrows, ControlGoes, PointersInv, pointers
    <3>2. currentFile = monarch /\ currentFile' = monarch
      BY <3>1 DEF currentFile
    <3>3. pc_switch' \in Stale => Count(recs, currentFile) = 0
      BY <3>1 DEF Stale
    <3> QED
      BY <2>1, <3>1, <3>2, <3>3, CountsKept
  <2>3. CASE \/ Cancel \/ StopUsing \/ FinishFile \/ WriteHeader \/ WaitStreams
             \/ Destroy
    <3>1. UNCHANGED <<monarch, pc_switch, file_size_est>>
          /\ (pc_switch = "get_on_deck" => UNCHANGED on_deck)
      BY <2>3 DEF Cancel, StopUsing, FinishFile, WriteHeader, WaitStreams,
         Destroy, ControlGoes, PointersInv, file_vars, pointers
    <3> QED
      BY <2>1, <3>1, CountsKept DEF currentFile, CountsInv
  <2>4. CASE CloseFile
    <3>1. pc_switch \notin Stale /\ pc_switch' = pc_switch
      BY <2>4 DEF CloseFile, ControlGoes, PointersInv, Joined, Stale
    <3>2. currentFile' = NoFile
      BY <1>0, <2>4, <3>1 DEF CloseFile, Stale, currentFile
    <3>3. \A r \in recs : r.file # currentFile'
      BY <1>c, <3>2
    <3> QED
      BY <2>1, <3>3, CountsOfEmpty
  <2>5. CASE Destroyed
    <3>1. currentFile' = NoFile
      BY <2>5 DEF Destroyed, currentFile
    <3> QED
      BY <1>c, <2>1, <3>1, CountsOfEmpty
  <2> QED
    BY <1>1, <2>2, <2>3, <2>4, <2>5 DEF Control
<1>2. CASE Switch
  <2>1. UNCHANGED <<recs, tally, pc_writer>>
    BY <1>2 DEF Switch
  <2>2. CASE \/ SwitchTop \/ SwitchWait \/ SwitchLockHeader \/ SwitchSetStreams
             \/ SwitchDone \/ SwitchFinishToFinish \/ SwitchCreateOnDeck
    <3>1. /\ UNCHANGED <<monarch, file_size_est>>
          /\ pc_switch # "get_on_deck" /\ pc_switch' \notin Stale
      BY <2>2 DEF SwitchTop, SwitchWait, SwitchLockHeader, SwitchSetStreams,
         SwitchDone, SwitchFinishToFinish, SwitchCreateOnDeck, SwitchGoes,
         pointers, Stale
    <3>2. currentFile = monarch /\ currentFile' = monarch
      BY <3>1 DEF currentFile, Stale
    <3>3. pc_switch' \in Stale => Count(recs, currentFile) = 0
      BY <3>1 DEF Stale
    <3> QED
      BY <2>1, <3>1, <3>2, <3>3, CountsKept
  <2>3. CASE SwitchThrows
    BY <1>0, <2>3 DEF SwitchThrows, CreateOnDeckThrows
  <2>4. CASE SwitchSetAsToFinish
    <3>1. /\ pc_switch = "set_as_to_finish" /\ pc_switch' = "get_on_deck"
          /\ UNCHANGED on_deck
      BY <2>4 DEF SwitchSetAsToFinish, SwitchGoes
    <3>2. /\ currentFile = monarch /\ currentFile' = on_deck
          /\ monarch # NoFile /\ on_deck # NoFile
      BY <3>1 DEF currentFile, PointersInv, Joined
    <3>3. monarch \in Nat /\ on_deck \in Nat /\ monarch < on_deck
      BY <3>2 DEF FilesTypeOK, File, NotesInv
    <3>4. \A r \in recs : r.file \in Nat /\ r.file <= monarch
      BY <1>c, <3>2
    <3>5. \A r \in recs : r.file # currentFile'
      BY <3>2, <3>3, <3>4
    <3> QED
      BY <2>1, <3>5, CountsOfEmpty
  <2>5. CASE SwitchGetOnDeck
    <3>1. /\ currentFile = on_deck /\ currentFile' = on_deck
          /\ pc_switch \in Stale /\ UNCHANGED file_size_est
      BY <2>5 DEF SwitchGetOnDeck, SwitchGoes, currentFile, Stale
    <3>2. Count(recs, currentFile) = 0
      BY <3>1 DEF CountsInv
    <3> QED
      BY <2>1, <3>1, <3>2, CountsKept
  <2>6. CASE SwitchSetHeader
    <3>1. /\ UNCHANGED monarch /\ pc_switch \in Stale
          /\ pc_switch = "set_header" /\ pc_switch' = "set_streams"
          /\ file_size_est' = 0
      BY <2>6 DEF SwitchSetHeader, SwitchGoes, pointers, Stale
    <3>2. UNCHANGED currentFile /\ Count(recs, currentFile) = 0
      BY <3>1 DEF CountsInv, currentFile
    <3> QED
      BY <2>1, <3>1, <3>2, CountsKept
  <2> QED
    BY <1>2, <2>2, <2>3, <2>4, <2>5, <2>6 DEF Switch
<1>3. CASE OnDeck
  <2>1. UNCHANGED <<recs, tally, pc_writer, monarch, pc_switch, file_size_est>>
    BY <1>3 DEF OnDeck, data_vars, estimate
  <2>2. pc_switch = "get_on_deck" => UNCHANGED on_deck
    BY <1>3 DEF OnDeck, OnDeckTop, OnDeckWake, OnDeckFinish, OnDeckCreate,
       OnDeckThrows, OnDeckRest, PointersInv
  <2> QED
    BY <2>1, <2>2, CountsKept DEF currentFile, CountsInv
<1>4. ASSUME Writer(w) PROVE CountsInv'
  <2> DEFINE n == Count(recs, currentFile)
  <2>1. UNCHANGED <<pc_switch, currentFile>>
    BY <1>4 DEF Writer, file_vars, pointers, currentFile
  <2>2. CASE WriteToStream(w) /\ monarch # NoFile
    <3> DEFINE new == [stream |-> w, number |-> sent[w] + 1, file |-> stream_wraps[w]]
    <3>1. /\ recs' = recs \cup {new} /\ UNCHANGED <<tally, file_size_est>>
          /\ pc_writer[w] = "write" /\ pc_writer'[w] = "load"
      BY <1>0, <2>2 DEF WriteToStream, WriterGoes, PcTypeOK, estimate
    <3>2. pc_switch \notin Switching
      BY <3>1 DEF WriterInv, SwitchInv, Contributing
    <3>3. new.file = currentFile /\ pc_switch' \notin Stale
      BY <2>1, <3>1, <3>2 DEF WriterInv, StreamInv, Using, Switching, currentFile,
         Stale
    <3>4. n <= file_size_est /\ file_size_est < MaxFileSize
      BY <1>a, <3>1, ConstantsAssumption DEF CountsInv, FullInv, Full
    <3> HIDE DEF new
    <3>5. IsFiniteSet(recs')
      BY <3>1, CountAdded DEF CountsInv
    <3>6. ASSUME NEW f
          PROVE  /\ Count(recs', f) \in Nat /\ Count(recs', f) <= Count(recs, f) + 1
                 /\ f # currentFile => Count(recs', f) = Count(recs, f)
      BY <3>1, <3>3, CountAdded DEF CountsInv
    <3>7. n' \in Nat /\ n' <= n + 1 /\ n' = Count(recs', currentFile)
      BY <2>1, <3>6
    <3>8. n \in Nat
      BY <1>b
    <3>9. \A f \in File : Count(recs', f) <= MaxFileSize
      <4>1. ASSUME NEW f \in File PROVE Count(recs', f) <= MaxFileSize
        <5>1. CASE f = currentFile
          BY <1>a, <3>4, <3>7, <3>8, <5>1, ConstantsAssumption
        <5>2. CASE f # currentFile
          BY <3>6, <5>2 DEF CountsInv
        <5> QED
          BY <5>1, <5>2
      <4> QED
        BY <4>1
    <3>10. n' <= file_size_est + 1
      BY <1>a, <3>4, <3>7, <3>8
    <3> HIDE DEF n
    <3> QED
      BY <3>1, <3>3, <3>5, <3>9, <3>10 DEF CountsInv, n
  <2>3. CASE LoadEstimate(w)
    <3>1. /\ UNCHANGED <<recs, file_size_est>> /\ pc_writer[w] = "load"
          /\ pc_writer'[w] = "store" /\ tally'[w] = file_size_est + 1
      BY <2>3 DEF LoadEstimate, WriterGoes, PcTypeOK, DataTypeOK
    <3>2. n <= file_size_est + 1 /\ file_size_est < MaxFileSize
      BY <1>a, <3>1, ConstantsAssumption DEF CountsInv, FullInv, Full
    <3>3. file_size_est + 1 <= MaxFileSize
      BY <1>a, <3>2, ConstantsAssumption
    <3>4. n' = n
      BY <2>1, <3>1
    <3> QED
      BY <2>1, <3>1, <3>2, <3>3, <3>4 DEF CountsInv
  <2>4. CASE StoreEstimate(w)
    <3>1. /\ UNCHANGED <<recs, tally>> /\ pc_writer[w] = "store"
          /\ pc_writer'[w] \in {"trigger", "ready", "dead"}
          /\ file_size_est' = tally[w]
      BY <2>4 DEF StoreEstimate, WriterGoes, Return, PcTypeOK
    <3>2. n' = n
      BY <2>1, <3>1
    <3> QED
      BY <2>1, <3>1, <3>2 DEF CountsInv
  <2>5. CASE \/ GetStream(w) \/ NeverStarted(w) \/ WriteRecord(w)
             \/ OkayToWrite(w) \/ TestSwitchFlag(w) \/ SetSwitchFlag(w)
             \/ ClearOkToWrite(w) \/ FinishStream(w)
             \/ WriteToStream(w) /\ monarch = NoFile
    <3>1. /\ UNCHANGED <<recs, file_size_est>>
          /\ pc_writer[w] \notin {"load", "store"}
          /\ pc_writer'[w] \notin {"load", "store"}
      BY <2>5 DEF GetStream, NeverStarted, WriteRecord, OkayToWrite,
         TestSwitchFlag, SetSwitchFlag, ClearOkToWrite, FinishStream,
         WriteToStream, WriterGoes, Return, PcTypeOK, data_vars, estimate
    <3>2. n' = n
      BY <2>1, <3>1
    <3> QED
      BY <2>1, <3>1, <3>2 DEF CountsInv
  <2> QED
    BY <1>4, <2>2, <2>3, <2>4, <2>5 DEF Writer
<1>5. CASE UNCHANGED vars
  BY <1>5, CountsKept DEF vars, file_vars, pointers, data_vars, estimate, pcs,
     currentFile, CountsInv
<1> QED
  BY <1>1, <1>2, <1>3, <1>4, <1>5 DEF Next

\* With one writer, and library calls that do not fail, no file takes more
\* records than it takes to reach the limit.
THEOREM OneWriterSizeBound == OneWriter /\ NoFailures => (Spec => []FileSizeBound)
<1> SUFFICES ASSUME OneWriter, NoFailures PROVE Spec => []FileSizeBound
  OBVIOUS
<1> DEFINE I == Inv /\ HeaderInv /\ NotesInv /\ UsedInv /\ FullInv /\ CountsInv
<1>1. Init => I
  BY InvInit, HeaderInit, NotesInit, UsedInit, FullInit, CountsInit
<1>2. I /\ [Next]_vars => I'
  BY InvStep, HeaderStep, NotesStep, UsedStep, FullStep, CountsStep
  DEF Inv, WriterInv, ChainInv
<1>3. I => FileSizeBound
  BY DEF Inv, TypeOK, FilesTypeOK, File, CountsInv, Count, FileSizeBound
<1> QED
  BY <1>1, <1>2, <1>3, PTL DEF Spec

=============================================================================
