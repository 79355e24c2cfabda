------------------------- MODULE MonarchWrapperProofs -------------------------
(***************************************************************************)
(* Theorems about MonarchWrapper, for every value of its constants.        *)
(*                                                                         *)
(* Two strengthenings carry the proofs.  PointersInv holds of any number   *)
(* of writers, with failures and whatever way the wrapper goes: it says    *)
(* which pointers are set at which step of a switch, and gives             *)
(* FilesOwnedOnce.  WriterInv adds, for one writer, the protocol of        *)
(* f_do_switch_flag and f_ok_to_write, and gives WriteInOpenFile.          *)
(***************************************************************************)
EXTENDS MonarchWrapper, TLAPS

-----------------------------------------------------------------------------
(* Types.                                                                  *)

\* Init gives every variable a value of its type.
LEMMA TypeInit == Init => TypeOK
<1> USE DEF Init, File
<1>1. Init => FilesTypeOK
  BY DEF FilesTypeOK
<1>2. Init => DataTypeOK
  BY DEF DataTypeOK
<1>3. Init => SyncTypeOK
  BY DEF SyncTypeOK
<1>4. Init => PcTypeOK
  BY DEF PcTypeOK
<1>5. Init => FlagTypeOK
  BY Zenon DEF FlagTypeOK
<1> QED
  BY <1>1, <1>2, <1>3, <1>4, <1>5 DEF TypeOK

\* The on-deck thread keeps the pointers and file sets in their types.
LEMMA OnDeckFilesType == FilesTypeOK /\ OnDeck => FilesTypeOK'
<1> SUFFICES ASSUME FilesTypeOK, OnDeck PROVE FilesTypeOK'
  OBVIOUS
<1>1. UNCHANGED <<stage, monarch, header, removed>>
  BY DEF OnDeck
<1>2. CASE OnDeckTop \/ OnDeckWake \/ OnDeckRest
  BY <1>1, <1>2 DEF OnDeckTop, OnDeckWake, OnDeckRest, disk, FilesTypeOK
<1>3. CASE OnDeckFinish
  BY <1>1, <1>3 DEF OnDeckFinish, FinishToFinish, FilesTypeOK, File
<1>4. CASE OnDeckCreate
  BY <1>1, <1>4 DEF OnDeckCreate, CreateOnDeck, FilesTypeOK, File
<1>5. CASE OnDeckThrows
  <2>1. \/ UNCHANGED <<file_count, abandoned>>
        \/ CreateOnDeckThrows
    BY <1>5, Zenon DEF OnDeckThrows
  <2>2. file_count' \in Nat
    BY <2>1 DEF CreateOnDeckThrows, FilesTypeOK
  <2>3. abandoned' \subseteq Nat
    BY <2>1 DEF CreateOnDeckThrows, FilesTypeOK
  <2>4. UNCHANGED <<on_deck, to_finish, continues, finished>>
    BY <1>5 DEF OnDeckThrows
  <2> QED
    BY <1>1, <2>2, <2>3, <2>4 DEF FilesTypeOK
<1> QED
  BY <1>2, <1>3, <1>4, <1>5 DEF OnDeck

\* Every step keeps every variable in its type.
LEMMA TypeStep == TypeOK /\ [Next]_vars => TypeOK'
<1> SUFFICES ASSUME TypeOK, [Next]_vars PROVE TypeOK'
  OBVIOUS
<1> USE ConstantsAssumption DEF File, pointers, disk, estimate, flags,
        mutexes, file_vars, data_vars, pcs, FinishToFinish, CreateOnDeck,
        CreateOnDeckThrows, Throws, Works, ControlGoes, SwitchGoes, OnDeckGoes,
        WriterGoes
<1>1. CASE Control
  <2> USE <1>1 DEF Control, StartUsing, StartUsingThrows, Cancel, StopUsing,
          FinishFile, WriteHeader, WaitStreams, CloseFile, Destroy, Destroyed,
          Live, RemoveOnDeck
  <2>1. FilesTypeOK'
    BY DEF TypeOK, FilesTypeOK
  <2>2. DataTypeOK'
    BY DEF TypeOK, DataTypeOK
  <2>3. SyncTypeOK'
    BY DEF TypeOK, SyncTypeOK
  <2>4. PcTypeOK'
    BY DEF TypeOK, PcTypeOK
  <2>5. FlagTypeOK'
    BY Zenon DEF TypeOK, FlagTypeOK
  <2> QED
    BY <2>1, <2>2, <2>3, <2>4, <2>5 DEF TypeOK
<1>2. CASE Switch
  <2> USE <1>2 DEF Switch, SwitchTop, SwitchWait, SwitchLockHeader,
          SwitchFinishToFinish, SwitchCreateOnDeck, SwitchThrows,
          SwitchSetAsToFinish, SwitchGetOnDeck, SwitchSetHeader,
          SwitchSetStreams, SwitchDone
  <2>1. FilesTypeOK'
    BY DEF TypeOK, FilesTypeOK
  <2>2. DataTypeOK'
    BY DEF TypeOK, DataTypeOK, FilesTypeOK
  <2>3. SyncTypeOK'
    BY DEF TypeOK, SyncTypeOK
  <2>4. PcTypeOK'
    BY DEF TypeOK, PcTypeOK
  <2>5. FlagTypeOK'
    BY Zenon DEF TypeOK, FlagTypeOK
  <2> QED
    BY <2>1, <2>2, <2>3, <2>4, <2>5 DEF TypeOK
<1>3. CASE OnDeck
  <2> USE <1>3 DEF OnDeck, OnDeckTop, OnDeckWake, OnDeckFinish, OnDeckCreate,
          OnDeckThrows, OnDeckRest
  <2>1. FilesTypeOK'
    BY OnDeckFilesType DEF TypeOK
  <2>2. DataTypeOK'
    BY DEF TypeOK, DataTypeOK
  <2>3. SyncTypeOK'
    BY DEF TypeOK, SyncTypeOK
  <2>4. PcTypeOK'
    BY DEF TypeOK, PcTypeOK
  <2>5. FlagTypeOK'
    BY Zenon DEF TypeOK, FlagTypeOK
  <2> QED
    BY <2>1, <2>2, <2>3, <2>4, <2>5 DEF TypeOK
<1>4. ASSUME NEW s \in Streams, Writer(s) PROVE TypeOK'
  <2> USE <1>4 DEF Writer, Return, GetStream, NeverStarted, WriteRecord,
          OkayToWrite, WriteToStream, LoadEstimate, StoreEstimate,
          TestSwitchFlag, SetSwitchFlag, ClearOkToWrite, FinishStream
  <2>1. FilesTypeOK'
    BY DEF TypeOK, FilesTypeOK
  <2>2. DataTypeOK'
    BY DEF TypeOK, DataTypeOK, FilesTypeOK
  <2>3. SyncTypeOK'
    BY DEF TypeOK, SyncTypeOK
  <2>4. PcTypeOK'
    BY DEF TypeOK, PcTypeOK
  <2>5. FlagTypeOK'
    BY Zenon DEF TypeOK, FlagTypeOK
  <2> QED
    BY <2>1, <2>2, <2>3, <2>4, <2>5 DEF TypeOK
<1>5. CASE UNCHANGED vars
  <2> USE <1>5 DEF vars
  <2>1. FilesTypeOK' /\ DataTypeOK'
    BY DEF TypeOK, FilesTypeOK, DataTypeOK
  <2>2. SyncTypeOK' /\ PcTypeOK'
    BY DEF TypeOK, SyncTypeOK, PcTypeOK
  <2>3. FlagTypeOK'
    BY Zenon DEF TypeOK, FlagTypeOK
  <2> QED
    BY <2>1, <2>2, <2>3 DEF TypeOK
<1> QED
  BY <1>1, <1>2, <1>3, <1>4, <1>5 DEF Next

\* Type correctness, for every value of the constants.
THEOREM TypeCorrect == Spec => []TypeOK
<1>1. QED
  BY TypeInit, TypeStep, PTL DEF Spec

-----------------------------------------------------------------------------
(* The pointers, with any number of writers.                               *)

\* Run control is past the two joins: neither thread runs any more.
Joined == {"finish_file", "write_header", "wait_streams", "close_file",
           "finished", "failed", "destroyed"}

PointersInv ==
    /\ pc_switch = "off" <=> pc_ondeck = "off"
    /\ pc_control = "constructed" => pc_switch = "off"
    /\ pc_control \in Joined => pc_switch \in {"off", "done"}
                             /\ pc_ondeck \in {"off", "done"}
    /\ pc_switch \in {"create_on_deck", "set_as_to_finish"} => to_finish = NoFile
    /\ pc_switch \in {"set_as_to_finish", "get_on_deck"} => on_deck # NoFile
    /\ pc_switch = "get_on_deck" => monarch = NoFile
    /\ pc_switch # "get_on_deck" /\ pc_control \notin {"finished", "destroyed"}
           => monarch # NoFile

LEMMA PointersInit == Init => PointersInv
  BY ConstantsAssumption DEF Init, PointersInv, Joined

LEMMA PointersStep == TypeOK /\ PointersInv /\ [Next]_vars => PointersInv'
<1> SUFFICES ASSUME FilesTypeOK, PointersInv, [Next]_vars PROVE PointersInv'
  BY DEF TypeOK
<1>1. CASE Control
  <2>1. CASE StartUsing
    BY <2>1 DEF StartUsing, ControlGoes, PointersInv, Joined, pointers
  <2>2. CASE StartUsingThrows
    BY <2>2 DEF StartUsingThrows, ControlGoes, PointersInv, Joined, pointers
  <2>3. CASE Cancel
    BY <2>3 DEF Cancel, ControlGoes, PointersInv, Joined, file_vars, pointers
  <2>4. CASE StopUsing
    BY <2>4 DEF StopUsing, RemoveOnDeck, ControlGoes, PointersInv, Joined
  <2>5. CASE FinishFile
    BY <2>5 DEF FinishFile, FinishToFinish, ControlGoes, PointersInv, Joined
  <2>6. CASE WriteHeader
    BY <2>6 DEF WriteHeader, ControlGoes, PointersInv, Joined, pointers
  <2>7. CASE WaitStreams
    BY <2>7 DEF WaitStreams, ControlGoes, PointersInv, Joined, file_vars, pointers
  <2>8. CASE CloseFile
    BY <2>8 DEF CloseFile, ControlGoes, PointersInv, Joined
  <2>9. CASE Destroy
    BY <2>9 DEF Destroy, ControlGoes, PointersInv, Joined, file_vars, pointers
  <2>10. CASE Destroyed
    BY <2>10 DEF Destroyed, ControlGoes, PointersInv, Joined
  <2> QED
    BY <1>1, <2>1, <2>2, <2>3, <2>4, <2>5, <2>6, <2>7, <2>8, <2>9, <2>10
    DEF Control
<1>2. CASE Switch
  <2> SUFFICES ASSUME UNCHANGED <<pc_control, pc_ondeck>> PROVE PointersInv'
    BY <1>2 DEF Switch
  <2>1. CASE SwitchTop
    BY <2>1 DEF SwitchTop, SwitchGoes, PointersInv, Joined, pointers
  <2>2. CASE SwitchWait
    BY <2>2 DEF SwitchWait, SwitchGoes, PointersInv, Joined, pointers
  <2>3. CASE SwitchLockHeader
    BY <2>3 DEF SwitchLockHeader, SwitchGoes, PointersInv, Joined, pointers
  <2>4. CASE SwitchFinishToFinish
    BY <2>4 DEF SwitchFinishToFinish, FinishToFinish, SwitchGoes, PointersInv,
       Joined
  <2>5. CASE SwitchCreateOnDeck
    <3>1. on_deck' # NoFile
      BY <2>5, ConstantsAssumption DEF SwitchCreateOnDeck, CreateOnDeck,
         FilesTypeOK
    <3> QED
      BY <2>5, <3>1 DEF SwitchCreateOnDeck, SwitchGoes, PointersInv, Joined
  <2>6. CASE SwitchThrows
    BY <2>6 DEF SwitchThrows, SwitchGoes, PointersInv, Joined, pointers
  <2>7. CASE SwitchSetAsToFinish
    BY <2>7 DEF SwitchSetAsToFinish, SwitchGoes, PointersInv, Joined
  <2>8. CASE SwitchGetOnDeck
    BY <2>8 DEF SwitchGetOnDeck, SwitchGoes, PointersInv, Joined
  <2>9. CASE SwitchSetHeader
    BY <2>9 DEF SwitchSetHeader, SwitchGoes, PointersInv, Joined, pointers
  <2>10. CASE SwitchSetStreams
    BY <2>10 DEF SwitchSetStreams, SwitchGoes, PointersInv, Joined, pointers
  <2>11. CASE SwitchDone
    BY <2>11 DEF SwitchDone, SwitchGoes, PointersInv, Joined, pointers
  <2> QED
    BY <1>2, <2>1, <2>2, <2>3, <2>4, <2>5, <2>6, <2>7, <2>8, <2>9, <2>10, <2>11
    DEF Switch
<1>3. CASE OnDeck
  <2>1. UNCHANGED <<monarch, pc_control, pc_switch>>
    BY <1>3 DEF OnDeck
  <2>2. /\ pc_ondeck' # "off" /\ pc_ondeck # "off"
        /\ pc_ondeck # "done"
    BY <1>3 DEF OnDeck, OnDeckTop, OnDeckWake, OnDeckFinish, OnDeckCreate,
       OnDeckThrows, OnDeckRest, OnDeckGoes
  <2>3. to_finish' \in {to_finish, NoFile}
    BY <1>3 DEF OnDeck, OnDeckTop, OnDeckWake, OnDeckFinish, OnDeckCreate,
       OnDeckThrows, OnDeckRest, FinishToFinish
  <2>4. on_deck' = on_deck \/ on_deck' = file_count
    BY <1>3 DEF OnDeck, OnDeckTop, OnDeckWake, OnDeckFinish, OnDeckCreate,
       OnDeckThrows, OnDeckRest, CreateOnDeck
  <2>5. file_count # NoFile
    BY ConstantsAssumption DEF FilesTypeOK
  <2> QED
    BY <2>1, <2>2, <2>3, <2>4, <2>5 DEF PointersInv, Joined
<1>4. ASSUME NEW s \in Streams, Writer(s) PROVE PointersInv'
  BY <1>4 DEF Writer, file_vars, pointers, PointersInv, Joined
<1>5. CASE UNCHANGED vars
  BY <1>5 DEF vars, file_vars, pointers, pcs, PointersInv, Joined
<1> QED
  BY <1>1, <1>2, <1>3, <1>4, <1>5 DEF Next

\* The files are accounted for as long as nothing touches them.
LEMMA FilesUntouched ==
    FilesOwnedOnce /\ UNCHANGED <<monarch, on_deck, to_finish, file_count,
                                  finished, removed, abandoned>>
        => FilesOwnedOnce'
  BY DEF FilesOwnedOnce, Live

LEMMA FilesInit == Init => FilesOwnedOnce
  BY ConstantsAssumption DEF Init, FilesOwnedOnce, Live

\* Finishing the to-finish file and creating the on-deck file, by whichever
\* thread, move one number each.
LEMMA FilesFinishToFinish ==
    FilesOwnedOnce /\ FinishToFinish
    /\ UNCHANGED <<monarch, on_deck, file_count, removed, abandoned>>
        => FilesOwnedOnce'
  BY DEF FilesOwnedOnce, FinishToFinish, Live

LEMMA FilesCreateOnDeck ==
    FilesTypeOK /\ FilesOwnedOnce /\ on_deck = NoFile /\ CreateOnDeck
    /\ UNCHANGED <<monarch, to_finish, finished, removed, abandoned>>
        => FilesOwnedOnce'
<1> SUFFICES ASSUME FilesTypeOK, FilesOwnedOnce, on_deck = NoFile, CreateOnDeck,
                    UNCHANGED <<monarch, to_finish, finished, removed, abandoned>>
             PROVE  FilesOwnedOnce'
  OBVIOUS
<1>1. file_count \in Nat /\ file_count \notin 0 .. file_count - 1
      /\ 0 .. file_count' - 1 = (0 .. file_count - 1) \cup {file_count}
  BY DEF FilesTypeOK, CreateOnDeck
<1>2. Live' = Live \cup {file_count}
  BY <1>1, ConstantsAssumption DEF CreateOnDeck, Live
<1>3. file_count \notin Live \cup finished \cup removed \cup abandoned
  BY <1>1 DEF FilesOwnedOnce
<1> QED
  BY <1>1, <1>2, <1>3 DEF FilesOwnedOnce, CreateOnDeck, Live

LEMMA FilesCreateThrows ==
    FilesTypeOK /\ FilesOwnedOnce /\ CreateOnDeckThrows
    /\ UNCHANGED <<monarch, on_deck, to_finish, finished, removed>>
        => FilesOwnedOnce'
<1> SUFFICES ASSUME FilesTypeOK, FilesOwnedOnce, CreateOnDeckThrows,
                    UNCHANGED <<monarch, on_deck, to_finish, finished, removed>>
             PROVE  FilesOwnedOnce'
  OBVIOUS
<1>1. file_count \in Nat /\ file_count \notin 0 .. file_count - 1
      /\ 0 .. file_count' - 1 = (0 .. file_count - 1) \cup {file_count}
  BY DEF FilesTypeOK, CreateOnDeckThrows
<1>2. abandoned' = abandoned \cup {file_count} /\ Live' = Live
  BY DEF CreateOnDeckThrows, Live
<1>3. file_count \notin Live \cup finished \cup removed \cup abandoned
  BY <1>1 DEF FilesOwnedOnce
<1> QED
  BY <1>1, <1>2, <1>3 DEF FilesOwnedOnce

LEMMA FilesStep ==
    TypeOK /\ PointersInv /\ FilesOwnedOnce /\ [Next]_vars => FilesOwnedOnce'
<1> SUFFICES ASSUME FilesTypeOK, PointersInv, FilesOwnedOnce, [Next]_vars
             PROVE  FilesOwnedOnce'
  BY DEF TypeOK
<1>1. CASE Control
  <2>1. UNCHANGED file_count
    BY <1>1 DEF Control
  <2>2. CASE \/ StartUsing \/ StartUsingThrows \/ Cancel \/ WriteHeader
             \/ WaitStreams \/ Destroy
    BY <2>1, <2>2, FilesUntouched DEF StartUsing, StartUsingThrows, Cancel,
       WriteHeader, WaitStreams, Destroy, file_vars, pointers, disk
  <2>3. CASE StopUsing
    BY <2>1, <2>3 DEF StopUsing, RemoveOnDeck, FilesOwnedOnce, Live
  <2>4. CASE FinishFile
    BY <2>1, <2>4, FilesFinishToFinish, FilesUntouched DEF FinishFile
  <2>5. CASE CloseFile
    BY <2>1, <2>5 DEF CloseFile, ControlGoes, PointersInv, Joined,
       FilesOwnedOnce, Live
  <2>6. CASE Destroyed
    BY <2>1, <2>6 DEF Destroyed, FilesOwnedOnce, Live
  <2> QED
    BY <1>1, <2>2, <2>3, <2>4, <2>5, <2>6 DEF Control
<1>2. CASE Switch
  <2>1. UNCHANGED removed
    BY <1>2 DEF Switch
  <2>2. CASE \/ SwitchTop \/ SwitchWait \/ SwitchLockHeader \/ SwitchSetHeader
             \/ SwitchSetStreams \/ SwitchDone
    BY <2>1, <2>2, FilesUntouched DEF SwitchTop, SwitchWait, SwitchLockHeader,
       SwitchSetHeader, SwitchSetStreams, SwitchDone, pointers, disk
  <2>3. CASE SwitchFinishToFinish
    BY <2>1, <2>3, FilesFinishToFinish DEF SwitchFinishToFinish
  <2>4. CASE SwitchCreateOnDeck
    BY <2>1, <2>4, FilesCreateOnDeck, FilesUntouched DEF SwitchCreateOnDeck
  <2>5. CASE SwitchThrows
    BY <2>1, <2>5, FilesCreateThrows, FilesUntouched DEF SwitchThrows, pointers
  <2>6. CASE SwitchSetAsToFinish
    BY <2>1, <2>6 DEF SwitchSetAsToFinish, FilesOwnedOnce, Live, disk
  <2>7. CASE SwitchGetOnDeck
    BY <2>1, <2>7 DEF SwitchGetOnDeck, FilesOwnedOnce, Live, disk
  <2> QED
    BY <1>2, <2>2, <2>3, <2>4, <2>5, <2>6, <2>7 DEF Switch
<1>3. CASE OnDeck
  <2>1. UNCHANGED <<monarch, removed>>
    BY <1>3 DEF OnDeck
  <2>2. CASE OnDeckTop \/ OnDeckWake \/ OnDeckRest
    BY <2>1, <2>2, FilesUntouched DEF OnDeckTop, OnDeckWake, OnDeckRest, disk
  <2>3. CASE OnDeckFinish
    BY <2>1, <2>3, FilesFinishToFinish DEF OnDeckFinish
  <2>4. CASE OnDeckCreate
    BY <2>1, <2>4, FilesCreateOnDeck DEF OnDeckCreate
  <2>5. CASE OnDeckThrows
    BY <2>1, <2>5, FilesCreateThrows, FilesUntouched DEF OnDeckThrows
  <2> QED
    BY <1>3, <2>2, <2>3, <2>4, <2>5 DEF OnDeck
<1>4. ASSUME NEW s \in Streams, Writer(s) PROVE FilesOwnedOnce'
  BY <1>4, FilesUntouched DEF Writer, file_vars, pointers, disk
<1>5. CASE UNCHANGED vars
  BY <1>5, FilesUntouched DEF vars, file_vars, pointers, disk
<1> QED
  BY <1>1, <1>2, <1>3, <1>4, <1>5 DEF Next

\* With any number of writers, any failures and either ending, the wrapper
\* neither loses nor duplicates a file.
THEOREM FilesAccounted == Spec => []FilesOwnedOnce
<1>1. Init => TypeOK /\ PointersInv /\ FilesOwnedOnce
  BY TypeInit, PointersInit, FilesInit
<1>2. TypeOK /\ PointersInv /\ FilesOwnedOnce /\ [Next]_vars
          => (TypeOK /\ PointersInv /\ FilesOwnedOnce)'
  BY TypeStep, PointersStep, FilesStep
<1> QED
  BY <1>1, <1>2, PTL DEF Spec

-----------------------------------------------------------------------------
(* One writer, and finish_files only after it has been started.            *)

OneWriter == (\E w : Streams = {w}) /\ ~LateStart

\* The switch thread holds f_monarch_mutex.
Switching == {"lock_header", "finish_to_finish", "create_on_deck",
              "set_as_to_finish", "get_on_deck", "set_header", "set_streams",
              "switched"}

\* The writer has a stream; it is between okay_to_write and the trigger.
Using        == {"ready", "check", "write", "load", "store", "trigger",
                 "set_flag", "clear_ok"}
Contributing == {"write", "load", "store", "trigger", "set_flag"}

LocksInv ==
    /\ monarch_mutex = "switch" <=> pc_switch \in Switching
    /\ monarch_mutex = "control" <=> pc_control = "destroying"

\* A requested or running switch keeps the writer out: either okay_to_write
\* waits, or the writer is about to make it wait.
SwitchInv ==
    /\ pc_switch \in Switching => ~do_switch_flag
    /\ do_switch_flag \/ pc_switch \in Switching
           => ~ok_to_write \/ \E s \in Streams : pc_writer[s] = "clear_ok"
    /\ \A s \in Streams : pc_writer[s] \in Contributing
           => ~do_switch_flag /\ pc_switch \notin Switching

PhaseInv ==
    /\ pc_control = "constructed" => \A s \in Streams : pc_writer[s] = "idle"
    /\ pc_control \in {"stop_using", "finish_file", "write_header",
                       "wait_streams", "close_file", "finished"}
           => \A s \in Streams : pc_writer[s] # "idle"
    /\ pc_control \in {"destroying", "destroyed"}
           => \A s \in Streams : pc_writer[s] \in {"idle", "done", "dead"}
    /\ pc_control \in {"constructed", "write_header"} => stage # "writing"
    /\ stage # "writing" /\ pc_control \notin {"failed", "destroying", "destroyed"}
           => StreamWrapsEmpty
    /\ pc_control = "close_file" => StreamWrapsEmpty

StreamInv ==
    \A s \in Streams : pc_writer[s] \in Using =>
        /\ stream_wraps[s] # NoFile
        /\ pc_switch \notin {"get_on_deck", "set_header", "set_streams"}
               => stream_wraps[s] = monarch

WriterInv == LocksInv /\ SwitchInv /\ PhaseInv /\ StreamInv

LEMMA WriterInit == Init => WriterInv
<1> SUFFICES ASSUME Init PROVE WriterInv
  OBVIOUS
<1>1. LocksInv
  BY DEF Init, LocksInv, Switching
<1>2. SwitchInv
  BY DEF Init, SwitchInv, Switching, Contributing
<1>3. PhaseInv
  BY DEF Init, PhaseInv, StreamWrapsEmpty
<1>4. StreamInv
  BY DEF Init, StreamInv, Using
<1> QED
  BY <1>1, <1>2, <1>3, <1>4 DEF WriterInv

LEMMA LocksStep == PointersInv /\ LocksInv /\ [Next]_vars => LocksInv'
<1> SUFFICES ASSUME PointersInv, LocksInv, [Next]_vars PROVE LocksInv'
  OBVIOUS
<1> USE DEF LocksInv, PointersInv, Switching, Joined
<1>1. CASE Control
  BY <1>1 DEF Control, StartUsing, StartUsingThrows, Cancel, StopUsing,
     FinishFile, WriteHeader, WaitStreams, CloseFile, Destroy, Destroyed,
     ControlGoes
<1>2. CASE Switch
  BY <1>2 DEF Switch, SwitchTop, SwitchWait, SwitchLockHeader,
     SwitchFinishToFinish, SwitchCreateOnDeck, SwitchThrows,
     SwitchSetAsToFinish, SwitchGetOnDeck, SwitchSetHeader, SwitchSetStreams,
     SwitchDone, SwitchGoes, mutexes
<1>3. CASE OnDeck
  BY <1>3 DEF OnDeck
<1>4. ASSUME NEW s \in Streams, Writer(s) PROVE LocksInv'
  BY <1>4 DEF Writer, mutexes
<1>5. CASE UNCHANGED vars
  BY <1>5 DEF vars, mutexes, pcs
<1> QED
  BY <1>1, <1>2, <1>3, <1>4, <1>5 DEF Next

LEMMA PhaseStep ==
    TypeOK /\ ~LateStart /\ PhaseInv /\ [Next]_vars => PhaseInv'
<1> SUFFICES ASSUME PcTypeOK, DataTypeOK, ~LateStart, PhaseInv, [Next]_vars
             PROVE  PhaseInv'
  BY DEF TypeOK
<1> USE DEF PhaseInv, StreamWrapsEmpty
<1>1. CASE Control
  <2>1. UNCHANGED <<stream_wraps, pc_writer>>
    BY <1>1 DEF Control
  <2>2. CASE StartUsing \/ StartUsingThrows
    BY <2>1, <2>2 DEF StartUsing, StartUsingThrows, ControlGoes
  <2>3. CASE Cancel
    <3>1. \A s \in Streams : pc_writer[s] # "idle"
      BY <2>3 DEF Cancel
    <3> QED
      BY <2>1, <2>3, <3>1 DEF Cancel, ControlGoes
  <2>4. CASE StopUsing \/ FinishFile \/ WriteHeader \/ WaitStreams
    BY <2>1, <2>4 DEF StopUsing, FinishFile, WriteHeader, WaitStreams,
       ControlGoes
  <2>5. CASE CloseFile
    BY <2>1, <2>5 DEF CloseFile, ControlGoes
  <2>6. CASE Destroy \/ Destroyed
    BY <2>1, <2>6 DEF Destroy, Destroyed, ControlGoes
  <2> QED
    BY <1>1, <2>2, <2>3, <2>4, <2>5, <2>6 DEF Control
<1>2. CASE Switch
  BY <1>2 DEF Switch, SwitchTop, SwitchWait, SwitchLockHeader,
     SwitchFinishToFinish, SwitchCreateOnDeck, SwitchThrows,
     SwitchSetAsToFinish, SwitchGetOnDeck, SwitchSetHeader, SwitchSetStreams,
     SwitchDone
<1>3. CASE OnDeck
  BY <1>3 DEF OnDeck, data_vars
<1>4. ASSUME NEW s \in Streams, Writer(s) PROVE PhaseInv'
  <2>1. UNCHANGED <<stage, pc_control>>
    BY <1>4 DEF Writer
  <2>2. CASE GetStream(s)
    BY <2>1, <2>2 DEF GetStream, WriterGoes, PcTypeOK, DataTypeOK
  <2>3. CASE NeverStarted(s)
    BY <2>1, <2>3 DEF NeverStarted, WriterGoes, PcTypeOK, data_vars
  <2>4. CASE FinishStream(s)
    BY <2>1, <2>4 DEF FinishStream, WriterGoes, PcTypeOK, DataTypeOK
  <2>5. CASE \/ WriteRecord(s) \/ OkayToWrite(s) \/ WriteToStream(s)
             \/ LoadEstimate(s) \/ StoreEstimate(s) \/ TestSwitchFlag(s)
             \/ SetSwitchFlag(s) \/ ClearOkToWrite(s)
    <3>1. /\ pc_writer[s] \notin {"idle", "done", "dead"}
          /\ \E to \in {"ready", "check", "write", "load", "store", "trigger",
                        "set_flag", "clear_ok", "dead"} :
                 pc_writer' = [pc_writer EXCEPT ![s] = to]
      BY <2>5 DEF WriteRecord, OkayToWrite, WriteToStream, LoadEstimate,
         StoreEstimate, TestSwitchFlag, SetSwitchFlag, ClearOkToWrite,
         WriterGoes, Return
    <3>2. UNCHANGED stream_wraps
      BY <2>5 DEF WriteRecord, OkayToWrite, WriteToStream, LoadEstimate,
         StoreEstimate, TestSwitchFlag, SetSwitchFlag, ClearOkToWrite, data_vars
    <3> QED
      BY <2>1, <3>1, <3>2 DEF PcTypeOK
  <2> QED
    BY <1>4, <2>2, <2>3, <2>4, <2>5 DEF Writer
<1>5. CASE UNCHANGED vars
  BY <1>5 DEF vars, data_vars, pcs
<1> QED
  BY <1>1, <1>2, <1>3, <1>4, <1>5 DEF Next

LEMMA SwitchStep ==
    TypeOK /\ OneWriter /\ PhaseInv /\ PointersInv /\ LocksInv /\ SwitchInv
    /\ [Next]_vars => SwitchInv'
<1> SUFFICES ASSUME PcTypeOK, FlagTypeOK, NEW w, Streams = {w}, PhaseInv,
                    PointersInv, LocksInv, SwitchInv, [Next]_vars
             PROVE  SwitchInv'
  BY DEF TypeOK, OneWriter
<1> USE DEF SwitchInv, Switching, Contributing
<1>1. CASE Control
  BY <1>1 DEF Control, StartUsing, StartUsingThrows, Cancel, StopUsing,
     FinishFile, WriteHeader, WaitStreams, CloseFile, Destroy, Destroyed,
     ControlGoes, PhaseInv, PointersInv
<1>2. CASE Switch
  BY <1>2 DEF Switch, SwitchTop, SwitchWait, SwitchLockHeader,
     SwitchFinishToFinish, SwitchCreateOnDeck, SwitchThrows,
     SwitchSetAsToFinish, SwitchGetOnDeck, SwitchSetHeader, SwitchSetStreams,
     SwitchDone, SwitchGoes, flags
<1>3. CASE OnDeck
  BY <1>3 DEF OnDeck, flags
<1>4. ASSUME Writer(w) PROVE SwitchInv'
  BY <1>4 DEF Writer, GetStream, NeverStarted, WriteRecord,
          OkayToWrite, WriteToStream, LoadEstimate, StoreEstimate,
          TestSwitchFlag, SetSwitchFlag, ClearOkToWrite, FinishStream,
          WriterGoes, Return, PcTypeOK, flags
<1>5. CASE UNCHANGED vars
  BY <1>5 DEF vars, flags, pcs
<1> QED
  BY <1>1, <1>2, <1>3, <1>4, <1>5 DEF Next

LEMMA StreamStep ==
    TypeOK /\ OneWriter /\ PhaseInv /\ PointersInv /\ LocksInv /\ StreamInv
    /\ [Next]_vars => StreamInv'
<1> SUFFICES ASSUME PcTypeOK, DataTypeOK, NEW w, Streams = {w}, ~LateStart,
                    PhaseInv, PointersInv, LocksInv, StreamInv, [Next]_vars
             PROVE  StreamInv'
  BY DEF TypeOK, OneWriter
<1> USE DEF StreamInv, Using
<1>1. CASE Control
  <2>1. UNCHANGED <<stream_wraps, pc_writer>>
    BY <1>1 DEF Control
  <2>2. CASE \/ StartUsing \/ StartUsingThrows
    BY <2>1, <2>2 DEF StartUsing, StartUsingThrows, ControlGoes, PhaseInv
  <2>3. CASE \/ Cancel \/ StopUsing \/ FinishFile \/ WriteHeader \/ WaitStreams
             \/ Destroy
    BY <2>1, <2>3 DEF Cancel, StopUsing, FinishFile, WriteHeader, WaitStreams,
       Destroy, file_vars, pointers
  <2>4. CASE CloseFile
    BY <2>1, <2>4 DEF CloseFile, ControlGoes, PhaseInv, StreamWrapsEmpty
  <2>5. CASE Destroyed
    BY <2>1, <2>5 DEF Destroyed, ControlGoes, PhaseInv
  <2> QED
    BY <1>1, <2>2, <2>3, <2>4, <2>5 DEF Control
<1>2. CASE Switch
  <2>1. UNCHANGED pc_writer
    BY <1>2 DEF Switch
  <2>2. CASE \/ SwitchTop \/ SwitchWait \/ SwitchLockHeader
             \/ SwitchFinishToFinish \/ SwitchCreateOnDeck \/ SwitchThrows
             \/ SwitchDone
    BY <2>1, <2>2 DEF SwitchTop, SwitchWait, SwitchLockHeader,
       SwitchFinishToFinish, SwitchCreateOnDeck, SwitchThrows, SwitchDone,
       SwitchGoes, pointers
  <2>3. CASE SwitchSetAsToFinish \/ SwitchGetOnDeck \/ SwitchSetHeader
    BY <2>1, <2>3 DEF SwitchSetAsToFinish, SwitchGetOnDeck, SwitchSetHeader,
       SwitchGoes
  <2>4. CASE SwitchSetStreams
    <3>1. monarch # NoFile
      BY <2>4 DEF SwitchSetStreams, SwitchGoes, PointersInv, Joined
    <3> QED
      BY <2>1, <2>4, <3>1 DEF SwitchSetStreams, SwitchGoes, pointers
  <2> QED
    BY <1>2, <2>2, <2>3, <2>4 DEF Switch
<1>3. CASE OnDeck
  BY <1>3 DEF OnDeck, data_vars
<1>4. ASSUME Writer(w) PROVE StreamInv'
  <2>1. UNCHANGED <<monarch, pc_switch>>
    BY <1>4 DEF Writer, file_vars, pointers
  <2>2. CASE GetStream(w)
    <3>1. pc_switch \notin Switching /\ (stage = "writing" => monarch # NoFile)
      BY <2>2 DEF GetStream, WriterGoes, LocksInv, Switching, PointersInv,
         PhaseInv
    <3> QED
      BY <2>1, <2>2, <3>1 DEF GetStream, WriterGoes, PcTypeOK, DataTypeOK,
         Switching
  <2>3. CASE FinishStream(w) \/ NeverStarted(w)
    BY <2>1, <2>3 DEF FinishStream, NeverStarted, WriterGoes, PcTypeOK,
       DataTypeOK
  <2>4. CASE \/ WriteRecord(w) \/ OkayToWrite(w) \/ WriteToStream(w)
             \/ LoadEstimate(w) \/ StoreEstimate(w) \/ TestSwitchFlag(w)
             \/ SetSwitchFlag(w) \/ ClearOkToWrite(w)
    <3>1. pc_writer[w] \in Using
      BY <2>4 DEF WriteRecord, OkayToWrite, WriteToStream, LoadEstimate,
         StoreEstimate, TestSwitchFlag, SetSwitchFlag, ClearOkToWrite,
         WriterGoes
    <3>2. UNCHANGED stream_wraps
      BY <2>4 DEF WriteRecord, OkayToWrite, WriteToStream, LoadEstimate,
         StoreEstimate, TestSwitchFlag, SetSwitchFlag, ClearOkToWrite, data_vars
    <3> QED
      BY <2>1, <3>1, <3>2
  <2> QED
    BY <1>4, <2>2, <2>3, <2>4 DEF Writer
<1>5. CASE UNCHANGED vars
  BY <1>5 DEF vars, file_vars, pointers, data_vars, pcs
<1> QED
  BY <1>1, <1>2, <1>3, <1>4, <1>5 DEF Next

\* The invariant of the system with one writer.
Inv == TypeOK /\ PointersInv /\ FilesOwnedOnce /\ WriterInv

LEMMA InvInit == Init => Inv
  BY TypeInit, PointersInit, FilesInit, WriterInit DEF Inv

LEMMA InvStep == OneWriter /\ Inv /\ [Next]_vars => Inv'
  BY TypeStep, PointersStep, FilesStep, LocksStep, SwitchStep, PhaseStep,
     StreamStep DEF Inv, WriterInv, OneWriter

\* With one writer, started before the files are finished, a record only ever
\* goes to the file in use and never to one that has been closed, whatever
\* the interleaving with switches, the on-deck thread and finish_file, and
\* whatever library calls fail.
THEOREM OneWriterWritesInOpenFile == OneWriter => (Spec => []WriteInOpenFile)
<1> SUFFICES ASSUME OneWriter PROVE Spec => []WriteInOpenFile
  OBVIOUS
<1>1. Inv => WriteInOpenFile
  <2> SUFFICES ASSUME Inv, NEW s \in Streams, pc_writer[s] = "write"
               PROVE  /\ monarch # NoFile /\ stream_wraps[s] = monarch
                      /\ monarch \notin finished
    BY DEF WriteInOpenFile
  <2>1. pc_switch \notin Switching
    BY DEF Inv, WriterInv, SwitchInv, Contributing
  <2>2. monarch # NoFile /\ stream_wraps[s] = monarch
    BY <2>1 DEF Inv, WriterInv, StreamInv, Using, Switching
  <2>3. monarch \notin finished
    BY <2>2 DEF Inv, FilesOwnedOnce, Live
  <2> QED
    BY <2>2, <2>3
<1>2. Init => Inv
  BY InvInit
<1>3. Inv /\ [Next]_vars => Inv'
  BY InvStep
<1> QED
  BY <1>1, <1>2, <1>3, PTL DEF Spec

-----------------------------------------------------------------------------
(* MonarchWrapper implements EggOutput.                                    *)

OrderlyEnd == Endings \subseteq {"finish_files"}

OrderInv ==
    /\ pc_control \notin {"destroying", "destroyed"}
    /\ pc_control \in {"write_header", "wait_streams", "close_file"}
           => to_finish = NoFile
    /\ on_deck # NoFile /\ monarch # NoFile => monarch < on_deck
    /\ \A r \in recs : r.number <= sent[r.stream]

LEMMA OrderInit == Init => OrderInv
  BY DEF Init, OrderInv

\* A new on-deck file has a larger number than the file in use.
LEMMA CreateInOrder ==
    ASSUME FilesTypeOK, FilesOwnedOnce, CreateOnDeck, UNCHANGED monarch,
           monarch # NoFile
    PROVE  monarch' < on_deck'
<1>1. monarch \in Nat /\ file_count \in Nat
  BY DEF FilesTypeOK, File
<1>2. monarch \in 0 .. file_count - 1
  BY DEF FilesOwnedOnce, Live
<1> QED
  BY <1>1, <1>2 DEF CreateOnDeck

LEMMA OrderStep ==
    OrderlyEnd /\ Inv /\ OrderInv /\ [Next]_vars => OrderInv'
<1> SUFFICES ASSUME OrderlyEnd, FilesTypeOK, DataTypeOK, PointersInv,
                    FilesOwnedOnce, OrderInv, [Next]_vars
             PROVE  OrderInv'
  BY DEF Inv, TypeOK
<1>1. CASE Control
  <2>1. UNCHANGED <<recs, sent>>
    BY <1>1 DEF Control
  <2>2. CASE StartUsing \/ StartUsingThrows \/ Cancel
    BY <2>1, <2>2 DEF StartUsing, StartUsingThrows, Cancel, ControlGoes,
       file_vars, pointers, OrderInv
  <2>3. CASE StopUsing
    BY <2>1, <2>3 DEF StopUsing, RemoveOnDeck, ControlGoes, OrderInv
  <2>4. CASE FinishFile
    BY <2>1, <2>4 DEF FinishFile, FinishToFinish, ControlGoes, OrderInv
  <2>5. CASE WriteHeader \/ WaitStreams
    BY <2>1, <2>5 DEF WriteHeader, WaitStreams, ControlGoes, file_vars,
       pointers, OrderInv
  <2>6. CASE CloseFile
    BY <2>1, <2>6 DEF CloseFile, ControlGoes, OrderInv
  <2>7. CASE Destroy \/ Destroyed
    BY <2>7 DEF Destroy, Destroyed, ControlGoes, OrderInv, OrderlyEnd
  <2> QED
    BY <1>1, <2>2, <2>3, <2>4, <2>5, <2>6, <2>7 DEF Control
<1>2. CASE Switch
  <2>1. UNCHANGED <<recs, sent, pc_control>> /\ pc_control \notin Joined
    BY <1>2 DEF Switch, SwitchTop, SwitchWait, SwitchLockHeader,
       SwitchFinishToFinish, SwitchCreateOnDeck, SwitchThrows,
       SwitchSetAsToFinish, SwitchGetOnDeck, SwitchSetHeader,
       SwitchSetStreams, SwitchDone, SwitchGoes, PointersInv
  <2>2. CASE \/ SwitchTop \/ SwitchWait \/ SwitchLockHeader \/ SwitchSetHeader
             \/ SwitchSetStreams \/ SwitchDone \/ SwitchThrows
             \/ SwitchFinishToFinish
    BY <2>1, <2>2 DEF SwitchTop, SwitchWait, SwitchLockHeader,
       SwitchFinishToFinish, SwitchThrows, SwitchSetHeader, SwitchSetStreams,
       SwitchDone, pointers, OrderInv, Joined
  <2>3. CASE SwitchCreateOnDeck
    BY <2>1, <2>3, CreateInOrder DEF SwitchCreateOnDeck, OrderInv, Joined
  <2>4. CASE SwitchSetAsToFinish \/ SwitchGetOnDeck
    BY <2>1, <2>4 DEF SwitchSetAsToFinish, SwitchGetOnDeck, SwitchGoes,
       PointersInv, OrderInv, Joined
  <2> QED
    BY <1>2, <2>2, <2>3, <2>4 DEF Switch
<1>3. CASE OnDeck
  <2>1. UNCHANGED <<recs, sent, pc_control, monarch>>
    BY <1>3 DEF OnDeck, data_vars
  <2>2. CASE OnDeckTop \/ OnDeckWake \/ OnDeckThrows \/ OnDeckRest
    BY <2>1, <2>2 DEF OnDeckTop, OnDeckWake, OnDeckThrows, OnDeckRest, OrderInv
  <2>3. CASE OnDeckFinish
    BY <2>1, <2>3 DEF OnDeckFinish, FinishToFinish, OrderInv
  <2>4. CASE OnDeckCreate
    BY <2>1, <2>4, CreateInOrder DEF OnDeckCreate, OrderInv
  <2> QED
    BY <1>3, <2>2, <2>3, <2>4 DEF OnDeck
<1>4. ASSUME NEW s \in Streams, Writer(s) PROVE OrderInv'
  <2>1. UNCHANGED <<pc_control, monarch, on_deck, to_finish>>
    BY <1>4 DEF Writer, file_vars, pointers
  <2>2. CASE WriteToStream(s)
    <3>1. \A r \in recs' : r.number <= sent'[r.stream]
      BY <2>2 DEF WriteToStream, OrderInv, DataTypeOK
    <3> QED
      BY <2>1, <3>1 DEF OrderInv
  <2>3. CASE ~WriteToStream(s)
    <3>1. UNCHANGED <<recs, sent>>
      BY <1>4, <2>3 DEF Writer, GetStream, NeverStarted, WriteRecord,
         OkayToWrite, LoadEstimate, StoreEstimate, TestSwitchFlag,
         SetSwitchFlag, ClearOkToWrite, FinishStream, data_vars
    <3> QED
      BY <2>1, <3>1 DEF OrderInv
  <2> QED
    BY <2>2, <2>3
<1>5. CASE UNCHANGED vars
  BY <1>5 DEF vars, file_vars, pointers, data_vars, pcs, OrderInv
<1> QED
  BY <1>1, <1>2, <1>3, <1>4, <1>5 DEF Next

\* Finishing the to-finish file is the abstract Close, or nothing.
LEMMA FinishIsClose ==
    FinishToFinish /\ UNCHANGED <<currentFile, recs>>
        => EO!Close \/ UNCHANGED EO!vars
  BY DEF FinishToFinish, EO!Close, EO!vars

\* Every step of the threads is a step of the abstract output or a stutter.
LEMMA StepImplements ==
    OneWriter /\ Inv /\ OrderInv /\ [Next]_vars => [EO!Next]_(EO!vars)
<1> SUFFICES ASSUME FilesTypeOK, DataTypeOK, PointersInv, WriterInv, OrderInv,
                    [Next]_vars
             PROVE  EO!Next \/ UNCHANGED EO!vars
  BY DEF Inv, TypeOK
<1> USE DEF currentFile
<1>1. CASE Control
  <2>1. UNCHANGED recs
    BY <1>1 DEF Control
  <2>2. CASE StartUsing \/ StartUsingThrows
    BY <2>1, <2>2 DEF StartUsing, StartUsingThrows, ControlGoes, PointersInv,
       pointers, EO!vars
  <2>3. CASE Cancel \/ WriteHeader \/ WaitStreams \/ Destroy
    BY <2>1, <2>3 DEF Cancel, WriteHeader, WaitStreams, Destroy, file_vars,
       pointers, disk, EO!vars
  <2>4. CASE StopUsing
    BY <2>1, <2>4 DEF StopUsing, ControlGoes, PointersInv, Joined, EO!vars
  <2>5. CASE FinishFile
    <3>1. UNCHANGED currentFile
      BY <2>5 DEF FinishFile
    <3> QED
      BY <2>1, <2>5, <3>1, FinishIsClose DEF FinishFile, EO!vars, EO!Next
  <2>6. CASE CloseFile
    <3>1. monarch # NoFile /\ pc_switch \in {"off", "done"} /\ to_finish = NoFile
      BY <2>6 DEF CloseFile, ControlGoes, PointersInv, Joined, OrderInv
    <3> QED
      BY <2>1, <2>6, <3>1 DEF CloseFile, EO!CloseCurrent, EO!Next, EO!vars
  <2>7. CASE Destroyed
    BY <2>7 DEF Destroyed, ControlGoes, OrderInv
  <2> QED
    BY <1>1, <2>2, <2>3, <2>4, <2>5, <2>6, <2>7 DEF Control
<1>2. CASE Switch
  <2>1. UNCHANGED recs
    BY <1>2 DEF Switch
  <2>2. CASE \/ SwitchTop \/ SwitchWait \/ SwitchLockHeader \/ SwitchSetHeader
             \/ SwitchSetStreams \/ SwitchDone \/ SwitchThrows
    BY <2>1, <2>2 DEF SwitchTop, SwitchWait, SwitchLockHeader, SwitchThrows,
       SwitchSetHeader, SwitchSetStreams, SwitchDone, SwitchGoes, pointers,
       disk, EO!vars
  <2>3. CASE SwitchFinishToFinish
    <3>1. UNCHANGED currentFile
      BY <2>3 DEF SwitchFinishToFinish, SwitchGoes
    <3> QED
      BY <2>1, <2>3, <3>1, FinishIsClose DEF SwitchFinishToFinish, EO!Next
  <2>4. CASE SwitchCreateOnDeck
    BY <2>1, <2>4 DEF SwitchCreateOnDeck, SwitchGoes, EO!vars
  <2>5. CASE SwitchSetAsToFinish
    <3>1. /\ to_finish = NoFile /\ on_deck # NoFile /\ monarch # NoFile
          /\ on_deck \in Nat /\ monarch < on_deck
      BY <2>5 DEF SwitchSetAsToFinish, SwitchGoes, PointersInv, Joined,
         OrderInv, FilesTypeOK, File
    <3>2. /\ currentFile = monarch /\ currentFile' = on_deck
          /\ to_finish' = monarch /\ finished' = finished
      BY <2>5 DEF SwitchSetAsToFinish, SwitchGoes, disk
    <3>3. EO!NextFile
      BY <2>1, <3>1, <3>2 DEF EO!NextFile
    <3> QED
      BY <3>3 DEF EO!Next
  <2>6. CASE SwitchGetOnDeck
    BY <2>1, <2>6 DEF SwitchGetOnDeck, SwitchGoes, disk, EO!vars
  <2> QED
    BY <1>2, <2>2, <2>3, <2>4, <2>5, <2>6 DEF Switch
<1>3. CASE OnDeck
  <2>1. UNCHANGED <<recs, monarch, pc_switch>>
    BY <1>3 DEF OnDeck, data_vars
  <2>2. CASE OnDeckTop \/ OnDeckWake \/ OnDeckThrows \/ OnDeckRest
    BY <2>1, <2>2 DEF OnDeckTop, OnDeckWake, OnDeckThrows, OnDeckRest, disk,
       EO!vars
  <2>3. CASE OnDeckFinish
    BY <2>1, <2>3, FinishIsClose DEF OnDeckFinish, EO!Next
  <2>4. CASE OnDeckCreate
    BY <2>1, <2>4 DEF OnDeckCreate, PointersInv, EO!vars
  <2> QED
    BY <1>3, <2>2, <2>3, <2>4 DEF OnDeck
<1>4. ASSUME NEW s \in Streams, Writer(s) PROVE EO!Next \/ UNCHANGED EO!vars
  <2>1. UNCHANGED <<currentFile, to_finish, finished>>
    BY <1>4 DEF Writer, file_vars, pointers, disk
  <2>2. CASE WriteToStream(s) /\ recs' # recs
    <3> DEFINE r == [stream |-> s, number |-> sent[s] + 1, file |-> stream_wraps[s]]
    <3>1. recs' = recs \cup {r} /\ monarch # NoFile /\ pc_writer[s] = "write"
      BY <2>2 DEF WriteToStream, WriterGoes
    <3>2. stream_wraps[s] = monarch /\ currentFile = monarch
      BY <3>1 DEF WriterInv, SwitchInv, StreamInv, Contributing, Using, Switching
    <3>3. \A q \in recs : q.stream = s => q.number < r.number
      BY DEF OrderInv, DataTypeOK
    <3>4. EO!Append(s)
      BY <2>1, <3>1, <3>2, <3>3 DEF EO!Append
    <3> QED
      BY <3>4 DEF EO!Next
  <2>3. CASE ~(WriteToStream(s) /\ recs' # recs)
    <3>1. UNCHANGED recs
      BY <1>4, <2>3 DEF Writer, GetStream, NeverStarted, WriteRecord,
         OkayToWrite, LoadEstimate, StoreEstimate, TestSwitchFlag,
         SetSwitchFlag, ClearOkToWrite, FinishStream, data_vars
    <3> QED
      BY <2>1, <3>1 DEF EO!vars
  <2> QED
    BY <2>2, <2>3
<1>5. CASE UNCHANGED vars
  BY <1>5 DEF vars, file_vars, pointers, disk, data_vars, pcs, EO!vars
<1> QED
  BY <1>1, <1>2, <1>3, <1>4, <1>5 DEF Next

\* With one writer and no early destruction, the four kinds of thread
\* together implement the abstract output, whatever library calls fail.
THEOREM WrapperImplementsEggOutput ==
    OneWriter /\ OrderlyEnd => (Spec => ImplementsEggOutput)
<1> SUFFICES ASSUME OneWriter, OrderlyEnd PROVE Spec => ImplementsEggOutput
  OBVIOUS
<1>1. Init => EO!Init
  BY DEF Init, EO!Init, currentFile
<1>2. Init => Inv /\ OrderInv
  BY InvInit, OrderInit
<1>3. Inv /\ OrderInv /\ [Next]_vars => (Inv /\ OrderInv)'
  BY InvStep, OrderStep
<1>4. Inv /\ OrderInv /\ [Next]_vars => [EO!Next]_(EO!vars)
  BY StepImplements
<1> QED
  BY <1>1, <1>2, <1>3, <1>4, PTL DEF Spec, EO!Spec, ImplementsEggOutput

=============================================================================
