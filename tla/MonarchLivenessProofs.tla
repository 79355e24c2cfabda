------------------------ MODULE MonarchLivenessProofs ------------------------
(***************************************************************************)
(* What the wrapper's threads get to in the end.  For any number of        *)
(* writers, when nothing fails: finish_files ends, and a file a switch has *)
(* taken out of use is finished.  For one writer, whatever fails: a switch *)
(* it asks for is made.  For any number of writers and whatever fails: the *)
(* places where the way out of a run can come to a stop.                   *)
(*                                                                         *)
(* Weak fairness of a thread speaks of the states in which the thread can  *)
(* take a step, its ENABLED, which is not reasoned about here.  It is a    *)
(* hypothesis, []ThreadsGoOn: the thread can take a step wherever its      *)
(* place in the code says so.  It says what weak fairness is about, and is *)
(* read off the guards of the actions.                                     *)
(***************************************************************************)
EXTENDS MonarchRecordsProofs

-----------------------------------------------------------------------------
(* Who holds what, and how far the threads are.                            *)

\* Control has called cancel(), and is somewhere in finish_files.
Finishing == {"stop_using", "finish_file", "wait_streams", "close_file",
              "finished", "failed"}

\* Without failures and with finish_files as the only ending: only the on-deck
\* thread keeps f_od_mutex over a step; both threads run until they are
\* cancelled; nothing is left to finish when control looks at the streams.
EndingInv ==
    /\ header_mutex = "switch" <=> pc_switch \in HoldsHeader
    /\ od_mutex = IF pc_ondeck = "work" THEN "ondeck" ELSE "none"
    /\ monarch_mutex # "control"
    /\ pc_control \in {"constructed", "running"} \cup Finishing
    /\ canceled <=> pc_control \in Finishing
    /\ pc_control = "constructed" <=> pc_ondeck = "off"
    /\ pc_ondeck = "done" \/ pc_switch = "done" => canceled
    /\ pc_control \in {"running", "stop_using", "finish_file", "wait_streams",
                       "close_file"} => stage = "writing"
    /\ pc_control = "constructed" => to_finish = NoFile
    /\ pc_control \in {"wait_streams", "close_file", "finished", "failed"}
           => to_finish = NoFile

Base == TypeOK /\ PointersInv /\ LocksInv /\ EndingInv

LEMMA EndingInit == Init => EndingInv
  BY DEF Init, EndingInv, HoldsHeader, Finishing

LEMMA EndingStep ==
    NoFailures /\ OrderlyEnd /\ Base /\ [Next]_vars => EndingInv'
<1> SUFFICES ASSUME NoFailures, OrderlyEnd, TypeOK, PointersInv, LocksInv,
                    EndingInv, [Next]_vars
             PROVE  EndingInv'
  BY DEF Base
<1> USE DEF EndingInv, HoldsHeader, Finishing
<1>0. ~Throws
  BY DEF NoFailures, Throws, TypeOK, SyncTypeOK
<1>1. CASE Control
  <2>1. UNCHANGED header_mutex
    BY <1>1 DEF Control
  <2>2. CASE StartUsing \/ StartUsingThrows
    BY <1>0, <2>1, <2>2 DEF StartUsing, StartUsingThrows, ControlGoes,
       PointersInv, pointers, disk, TypeOK, SyncTypeOK
  <2>3. CASE Cancel
    BY <2>1, <2>3 DEF Cancel, ControlGoes, file_vars, pointers
  <2>4. CASE StopUsing
    BY <2>1, <2>4 DEF StopUsing, ControlGoes
  <2>5. CASE FinishFile
    BY <1>0, <2>1, <2>5 DEF FinishFile, ControlGoes, FinishToFinish
  <2>6. CASE WriteHeader \/ WaitStreams
    BY <1>0, <2>1, <2>6 DEF WriteHeader, WaitStreams, ControlGoes, file_vars,
       pointers
  <2>7. CASE CloseFile
    BY <1>0, <2>1, <2>7 DEF CloseFile, ControlGoes
  <2>8. CASE Destroy \/ Destroyed
    BY <2>8 DEF Destroy, Destroyed, ControlGoes, OrderlyEnd
  <2> QED
    BY <1>1, <2>2, <2>3, <2>4, <2>5, <2>6, <2>7, <2>8 DEF Control
<1>2. CASE Switch
  <2>1. UNCHANGED <<stage, canceled, pc_control, pc_ondeck>>
    BY <1>2 DEF Switch
  <2>2. ~SwitchThrows
    BY <1>0 DEF SwitchThrows, CreateOnDeckThrows
  <2>3. pc_switch \notin {"off", "done"}
        /\ pc_control \in {"running", "stop_using"}
    BY <1>2 DEF Switch, SwitchTop, SwitchWait, SwitchLockHeader,
       SwitchFinishToFinish, SwitchCreateOnDeck, SwitchThrows,
       SwitchSetAsToFinish, SwitchGetOnDeck, SwitchSetHeader,
       SwitchSetStreams, SwitchDone, SwitchGoes, PointersInv, Joined
  <2>4. CASE SwitchTop \/ SwitchWait \/ SwitchLockHeader \/ SwitchSetHeader
    BY <2>1, <2>3, <2>4 DEF SwitchTop, SwitchWait, SwitchLockHeader,
       SwitchSetHeader, SwitchGoes, mutexes, TypeOK, SyncTypeOK
  <2>5. CASE \/ SwitchFinishToFinish \/ SwitchCreateOnDeck
             \/ SwitchSetAsToFinish \/ SwitchGetOnDeck
    BY <2>1, <2>3, <2>5 DEF SwitchFinishToFinish, SwitchCreateOnDeck,
       SwitchSetAsToFinish, SwitchGetOnDeck, SwitchGoes, mutexes
  <2>6. CASE SwitchSetStreams \/ SwitchDone
    BY <2>1, <2>3, <2>6 DEF SwitchSetStreams, SwitchDone, SwitchGoes, mutexes
  <2> QED
    BY <1>2, <2>2, <2>4, <2>5, <2>6 DEF Switch
<1>3. CASE OnDeck
  <2>1. UNCHANGED <<stage, canceled, monarch_mutex, header_mutex, pc_control,
                    pc_switch>>
    BY <1>3 DEF OnDeck
  <2>2. ~OnDeckThrows
    BY <1>0 DEF OnDeckThrows, CreateOnDeckThrows
  <2>3. pc_ondeck \notin {"off", "done"}
        /\ pc_control \in {"running", "stop_using"}
    BY <1>3 DEF OnDeck, OnDeckTop, OnDeckWake, OnDeckFinish, OnDeckCreate,
       OnDeckThrows, OnDeckRest, OnDeckGoes, PointersInv, Joined
  <2> QED
    BY <1>3, <2>1, <2>2, <2>3 DEF OnDeck, OnDeckTop, OnDeckWake, OnDeckFinish,
       OnDeckCreate, OnDeckRest, OnDeckGoes
<1>4. ASSUME NEW s \in Streams, Writer(s) PROVE EndingInv'
  BY <1>4 DEF Writer, mutexes, file_vars, pointers
<1>5. CASE UNCHANGED vars
  BY <1>5 DEF vars, mutexes, file_vars, pointers, pcs
<1> QED
  BY <1>1, <1>2, <1>3, <1>4, <1>5 DEF Next

LEMMA BaseInit == Init => Base
  BY TypeInit, PointersInit, WriterInit, EndingInit DEF Base, WriterInv

LEMMA BaseStep == NoFailures /\ OrderlyEnd /\ Base /\ [Next]_vars => Base'
  BY TypeStep, PointersStep, LocksStep, EndingStep DEF Base

-----------------------------------------------------------------------------
(* The on-deck thread, once cancelled.                                     *)

\* A cancellation is never taken back.
LEMMA CanceledStays == canceled /\ [Next]_vars => canceled'
  BY DEF Next, vars, Control, StartUsing, StartUsingThrows, Cancel, StopUsing,
     FinishFile, WriteHeader, WaitStreams, CloseFile, Destroy, Destroyed,
     Switch, OnDeck, Writer

\* While the on-deck thread has f_od_mutex, nobody else touches its files.
LEMMA OnDeckUndisturbed ==
    Base /\ canceled /\ [Next]_vars /\ ~OnDeck
        => /\ pc_ondeck' = pc_ondeck
           /\ pc_ondeck = "work" => UNCHANGED <<on_deck, to_finish>>
<1> SUFFICES ASSUME PointersInv, EndingInv, canceled, [Next]_vars, ~OnDeck
             PROVE  /\ pc_ondeck' = pc_ondeck
                    /\ pc_ondeck = "work" => UNCHANGED <<on_deck, to_finish>>
  BY DEF Base
<1>1. CASE Control
  BY <1>1 DEF Control, StartUsing, StartUsingThrows, Cancel, StopUsing,
     FinishFile, WriteHeader, WaitStreams, CloseFile, Destroy, Destroyed,
     ControlGoes, EndingInv, PointersInv, Joined, Finishing, file_vars, pointers
<1>2. CASE Switch
  BY <1>2 DEF Switch, SwitchTop, SwitchWait, SwitchLockHeader,
     SwitchFinishToFinish, SwitchCreateOnDeck, SwitchThrows,
     SwitchSetAsToFinish, SwitchGetOnDeck, SwitchSetHeader, SwitchSetStreams,
     SwitchDone, EndingInv, pointers
<1>3. ASSUME NEW s \in Streams, Writer(s)
      PROVE  UNCHANGED <<pc_ondeck, on_deck, to_finish>>
  BY <1>3 DEF Writer, file_vars, pointers
<1>4. CASE UNCHANGED vars
  BY <1>4 DEF vars, file_vars, pointers, pcs
<1> QED
  BY <1>1, <1>2, <1>3, <1>4 DEF Next

\* Its places on the way out, in the order in which it may pass them.
AtWait    == canceled /\ pc_ondeck = "wait"
AtFinish  == canceled /\ pc_ondeck = "work" /\ to_finish # NoFile
AtCreate  == canceled /\ pc_ondeck = "work" /\ to_finish = NoFile /\ on_deck = NoFile
AtRest    == canceled /\ pc_ondeck = "work" /\ to_finish = NoFile /\ on_deck # NoFile
AtTop     == canceled /\ pc_ondeck = "top"
OnDeckOut == canceled /\ pc_ondeck = "done"

\* Without failures the on-deck thread goes through them without turning back.
LEMMA OnDeckSteps ==
    NoFailures /\ Base /\ canceled /\ OnDeck
        => /\ AtWait   => (AtFinish \/ AtCreate \/ AtRest)'
           /\ AtFinish => (AtCreate \/ AtRest)'
           /\ AtCreate => AtRest' /\ header_mutex = "none"
           /\ AtRest   => AtTop'
           /\ AtTop    => OnDeckOut'
           /\ pc_ondeck # "done"
<1> SUFFICES ASSUME NoFailures, TypeOK, canceled, OnDeck
             PROVE  /\ AtWait   => (AtFinish \/ AtCreate \/ AtRest)'
                    /\ AtFinish => (AtCreate \/ AtRest)'
                    /\ AtCreate => AtRest' /\ header_mutex = "none"
                    /\ AtRest   => AtTop'
                    /\ AtTop    => OnDeckOut'
                    /\ pc_ondeck # "done"
  BY DEF Base
<1> USE DEF AtWait, AtFinish, AtCreate, AtRest, AtTop, OnDeckOut, OnDeckGoes
<1>1. canceled'
  BY DEF OnDeck
<1>2. ~OnDeckThrows
  BY DEF OnDeckThrows, CreateOnDeckThrows, Throws, NoFailures, TypeOK, SyncTypeOK
<1>3. CASE OnDeckTop
  BY <1>1, <1>3 DEF OnDeckTop
<1>4. CASE OnDeckWake
  BY <1>1, <1>4 DEF OnDeckWake
<1>5. CASE OnDeckFinish
  BY <1>1, <1>5 DEF OnDeckFinish, FinishToFinish
<1>6. CASE OnDeckCreate
  BY <1>1, <1>6, ConstantsAssumption
     DEF OnDeckCreate, CreateOnDeck, TypeOK, FilesTypeOK
<1>7. CASE OnDeckRest
  BY <1>1, <1>7 DEF OnDeckRest
<1> QED
  BY <1>2, <1>3, <1>4, <1>5, <1>6, <1>7 DEF OnDeck

-----------------------------------------------------------------------------
(* The switch thread, once cancelled, and control.                         *)

\* Where a cancelled switch thread goes from each place, unless a call fails.
SwitchNext ==
    [k \in {"wait", "lock_header", "finish_to_finish", "create_on_deck",
            "set_as_to_finish", "get_on_deck", "set_header", "set_streams",
            "switched", "top"} |->
        CASE k = "wait"             -> "done"
          [] k = "lock_header"      -> "finish_to_finish"
          [] k = "finish_to_finish" -> "create_on_deck"
          [] k = "create_on_deck"   -> "set_as_to_finish"
          [] k = "set_as_to_finish" -> "get_on_deck"
          [] k = "get_on_deck"      -> "set_header"
          [] k = "set_header"       -> "set_streams"
          [] k = "set_streams"      -> "switched"
          [] k = "switched"         -> "top"
          [] k = "top"              -> "done"]

\* A step of the switch thread follows this order, and no other step moves it.
LEMMA SwitchSteps ==
    NoFailures /\ Base /\ canceled /\ [Next]_vars
        => \/ /\ Switch
              /\ pc_switch \in DOMAIN SwitchNext /\ pc_switch' = SwitchNext[pc_switch]
              /\ pc_switch = "set_header" => header_mutex' = "none"
           \/ ~Switch /\ UNCHANGED <<pc_switch, header_mutex>>
<1> SUFFICES ASSUME NoFailures, TypeOK, PointersInv, EndingInv, canceled,
                    [Next]_vars
             PROVE  \/ /\ Switch
                       /\ pc_switch \in DOMAIN SwitchNext
                       /\ pc_switch' = SwitchNext[pc_switch]
                       /\ pc_switch = "set_header" => header_mutex' = "none"
                    \/ ~Switch /\ UNCHANGED <<pc_switch, header_mutex>>
  BY DEF Base
<1>1. CASE Switch
  <2>1. ~SwitchThrows
    BY DEF SwitchThrows, CreateOnDeckThrows, Throws, NoFailures, TypeOK, SyncTypeOK
  <2> QED
    BY <1>1, <2>1 DEF Switch, SwitchTop, SwitchWait, SwitchLockHeader,
       SwitchFinishToFinish, SwitchCreateOnDeck, SwitchSetAsToFinish,
       SwitchGetOnDeck, SwitchSetHeader, SwitchSetStreams, SwitchDone,
       SwitchGoes, SwitchNext
<1>2. CASE ~Switch
  <2>1. CASE Control
    BY <1>2, <2>1 DEF Control, StartUsing, StartUsingThrows, Cancel, StopUsing,
       FinishFile, WriteHeader, WaitStreams, CloseFile, Destroy, Destroyed,
       ControlGoes, EndingInv, Finishing
  <2>2. CASE OnDeck
    BY <1>2, <2>2 DEF OnDeck
  <2>3. ASSUME NEW s \in Streams, Writer(s)
        PROVE  UNCHANGED <<pc_switch, header_mutex>>
    BY <2>3 DEF Writer, mutexes
  <2>4. CASE UNCHANGED vars
    BY <1>2, <2>4 DEF vars, mutexes, pcs
  <2> QED
    BY <1>2, <2>1, <2>2, <2>3, <2>4 DEF Next
<1> QED
  BY <1>1, <1>2

\* The on-deck thread waits for the header while the switch thread has it: that
\* is the lock cycle, or the switch thread is about to give it back.
HeaderAwaited == AtCreate /\ header_mutex # "none" /\ ~LockCycle
HeaderFree    == AtCreate /\ header_mutex = "none"

LEMMA HeaderSteps ==
    NoFailures /\ OrderlyEnd /\ Base /\ [Next]_vars
        => /\ HeaderAwaited => (HeaderAwaited \/ HeaderFree)'
           /\ HeaderAwaited /\ Switch => HeaderFree'
           /\ HeaderFree => (HeaderFree \/ AtRest \/ LockCycle)'
<1> SUFFICES ASSUME NoFailures, OrderlyEnd, Base, AtCreate, [Next]_vars
             PROVE  /\ HeaderAwaited => (HeaderAwaited \/ HeaderFree)'
                    /\ HeaderAwaited /\ Switch => HeaderFree'
                    /\ HeaderFree => (HeaderFree \/ AtRest \/ LockCycle)'
  BY DEF HeaderAwaited, HeaderFree
<1>0. canceled /\ canceled'
  BY CanceledStays DEF AtCreate
<1>1. CASE OnDeck
  <2>1. AtRest' /\ header_mutex = "none"
    BY <1>0, <1>1, OnDeckSteps
  <2>2. ~Switch
    BY <1>1 DEF OnDeck, Switch, SwitchTop, SwitchWait, SwitchLockHeader,
       SwitchFinishToFinish, SwitchCreateOnDeck, SwitchThrows,
       SwitchSetAsToFinish, SwitchGetOnDeck, SwitchSetHeader, SwitchSetStreams,
       SwitchDone, SwitchGoes
  <2> QED
    BY <2>1, <2>2 DEF HeaderAwaited
<1>2. CASE ~OnDeck
  <2>1. AtCreate'
    BY <1>0, <1>2, OnDeckUndisturbed DEF AtCreate
  <2>2. /\ EndingInv /\ EndingInv'
        /\ header_mutex \in {"none", "switch"} /\ header_mutex' \in {"none", "switch"}
    BY BaseStep DEF Base, TypeOK, SyncTypeOK
  <2>3. od_mutex = "ondeck" /\ od_mutex' = "ondeck"
    BY <2>1, <2>2 DEF EndingInv, AtCreate
  <2>4. header_mutex = "switch" <=> pc_switch \in HoldsHeader
    BY <2>2 DEF EndingInv
  <2>5. (header_mutex = "switch")' <=> pc_switch' \in HoldsHeader
    BY <2>2 DEF EndingInv
  <2>6. CASE ~Switch
    <3>1. UNCHANGED <<pc_switch, header_mutex>>
      BY <1>0, <2>6, SwitchSteps
    <3>2. LockCycle' => LockCycle
      BY <2>3, <3>1 DEF LockCycle, AtCreate
    <3> QED
      BY <2>1, <2>6, <3>1, <3>2 DEF HeaderAwaited, HeaderFree
  <2>7. CASE Switch
    <3>1. /\ pc_switch \in DOMAIN SwitchNext /\ pc_switch' = SwitchNext[pc_switch]
          /\ pc_switch = "set_header" => header_mutex' = "none"
      BY <1>0, <2>7, SwitchSteps
    <3>2. ASSUME HeaderAwaited PROVE HeaderFree'
      <4>1. pc_switch = "set_header"
        BY <2>2, <2>3, <2>4, <3>2 DEF HeaderAwaited, AtCreate, LockCycle, HoldsHeader
      <4> QED
        BY <2>1, <3>1, <4>1 DEF HeaderFree
    <3>3. ASSUME HeaderFree, header_mutex' # "none" PROVE LockCycle'
      <4>1. pc_switch \notin HoldsHeader /\ pc_switch' \in HoldsHeader
        BY <2>2, <2>4, <2>5, <3>3 DEF HeaderFree
      <4>2. pc_switch' = "finish_to_finish"
        BY <3>1, <4>1 DEF HoldsHeader, SwitchNext
      <4> QED
        BY <2>1, <2>2, <2>3, <3>3, <4>2 DEF LockCycle, AtCreate
    <3> QED
      BY <2>1, <3>2, <3>3 DEF HeaderFree
  <2> QED
    BY <2>6, <2>7
<1> QED
  BY <1>1, <1>2

\* Both threads are out.
ThreadsOut == OnDeckOut /\ pc_switch = "done"

\* They stay out, ...
LEMMA OutStays ==
    NoFailures /\ Base /\ [Next]_vars
        => /\ OnDeckOut => OnDeckOut'
           /\ ThreadsOut => ThreadsOut'
<1> SUFFICES ASSUME NoFailures, Base, [Next]_vars, OnDeckOut
             PROVE  OnDeckOut' /\ (pc_switch = "done" => pc_switch' = "done")
  BY DEF ThreadsOut
<1>1. canceled /\ canceled'
  BY CanceledStays DEF OnDeckOut
<1>2. OnDeckOut'
  BY <1>1, OnDeckSteps, OnDeckUndisturbed DEF OnDeckOut
<1>3. pc_switch = "done" => pc_switch' = "done"
  BY <1>1, SwitchSteps DEF SwitchNext
<1> QED
  BY <1>2, <1>3

\* ... the switch thread can always go on once the on-deck thread is out, ...
LEMMA SwitchFree ==
    Base /\ OnDeckOut
        => pc_switch = "done" \/ (SwitchCanGo /\ pc_switch \in DOMAIN SwitchNext)
  BY DEF Base, TypeOK, SyncTypeOK, PcTypeOK, PointersInv, LocksInv, EndingInv,
     OnDeckOut, SwitchCanGo, SwitchNext, Switching, HoldsHeader, Finishing

\* ... and control once both are, and nothing else moves it.
LEMMA ControlSteps ==
    NoFailures /\ OrderlyEnd /\ Base /\ ThreadsOut /\ [Next]_vars
        => /\ pc_control \notin {"finished", "failed"} => ControlCanGo
           /\ \/ UNCHANGED pc_control /\ ~Control
              \/ pc_control = "stop_using" /\ pc_control' = "finish_file"
              \/ pc_control = "finish_file" /\ pc_control' = "wait_streams"
              \/ pc_control = "wait_streams" /\ pc_control' \in {"close_file", "failed"}
              \/ pc_control = "close_file" /\ pc_control' = "finished"
<1> SUFFICES ASSUME NoFailures, OrderlyEnd, Base, ThreadsOut, [Next]_vars
             PROVE  /\ pc_control \notin {"finished", "failed"} => ControlCanGo
                    /\ \/ UNCHANGED pc_control /\ ~Control
                       \/ pc_control = "stop_using" /\ pc_control' = "finish_file"
                       \/ pc_control = "finish_file" /\ pc_control' = "wait_streams"
                       \/ pc_control = "wait_streams"
                              /\ pc_control' \in {"close_file", "failed"}
                       \/ pc_control = "close_file" /\ pc_control' = "finished"
  OBVIOUS
<1>1. pc_control \notin {"finished", "failed"} => ControlCanGo
  BY DEF Base, TypeOK, SyncTypeOK, LocksInv, EndingInv, ThreadsOut, OnDeckOut,
     ControlCanGo, Switching, Finishing
<1>2. CASE Control
  <2>1. ~Throws
    BY DEF Throws, NoFailures, Base, TypeOK, SyncTypeOK
  <2>2. pc_control \in Finishing /\ (pc_control = "finish_file" => stage = "writing")
    BY DEF Base, EndingInv, ThreadsOut, OnDeckOut
  <2> QED
    BY <1>1, <1>2, <2>1, <2>2 DEF Control, StartUsing, StartUsingThrows, Cancel,
       StopUsing, FinishFile, WriteHeader, WaitStreams, CloseFile, Destroy,
       Destroyed, ControlGoes, Finishing, OrderlyEnd
<1>3. CASE ~Control
  BY <1>1, <1>3 DEF Next, vars, pcs, Switch, OnDeck, Writer
<1> QED
  BY <1>2, <1>3

-----------------------------------------------------------------------------
(* finish_files ends.                                                      *)

\* A step of the cancelled on-deck thread's way out.
LEMMA OnDeckStepsOn ==
    NoFailures /\ Base /\ [Next]_vars
        => /\ AtWait   => (AtWait \/ AtFinish \/ AtCreate \/ AtRest)'
           /\ AtFinish => (AtFinish \/ AtCreate \/ AtRest)'
           /\ AtRest   => (AtRest \/ AtTop)'
           /\ AtTop    => (AtTop \/ OnDeckOut)'
<1> SUFFICES ASSUME NoFailures, Base, [Next]_vars, canceled
             PROVE  /\ AtWait   => (AtWait \/ AtFinish \/ AtCreate \/ AtRest)'
                    /\ AtFinish => (AtFinish \/ AtCreate \/ AtRest)'
                    /\ AtRest   => (AtRest \/ AtTop)'
                    /\ AtTop    => (AtTop \/ OnDeckOut)'
  BY DEF AtWait, AtFinish, AtRest, AtTop
<1>1. canceled'
  BY CanceledStays
<1>2. CASE OnDeck
  BY <1>2, OnDeckSteps
<1>3. CASE ~OnDeck
  BY <1>1, <1>3, OnDeckUndisturbed DEF AtWait, AtFinish, AtRest, AtTop
<1> QED
  BY <1>2, <1>3

\* What holds for ever when nothing fails.
LEMMA BaseHolds == NoFailures /\ OrderlyEnd => (Spec => []Base)
<1> SUFFICES ASSUME NoFailures, OrderlyEnd PROVE Spec => []Base
  OBVIOUS
<1>1. Init => Base
  BY BaseInit
<1>2. Base /\ [Next]_vars => Base'
  BY BaseStep
<1> QED
  BY <1>1, <1>2, PTL DEF Spec

\* The cancelled on-deck thread comes to its end, or to the lock cycle.
LEMMA OnDeckEnds ==
    NoFailures /\ OrderlyEnd
        => (FairSpec /\ []ThreadsGoOn => (canceled ~> (OnDeckOut \/ LockCycle)))
<1> SUFFICES ASSUME NoFailures, OrderlyEnd
             PROVE  FairSpec /\ []ThreadsGoOn => (canceled ~> (OnDeckOut \/ LockCycle))
  OBVIOUS
<1>1. Spec => []Base
  BY BaseHolds
<1>2. Base /\ canceled
          => AtWait \/ AtFinish \/ AtCreate \/ AtRest \/ AtTop \/ OnDeckOut
  BY DEF Base, TypeOK, PcTypeOK, EndingInv, Finishing, AtWait, AtFinish,
     AtCreate, AtRest, AtTop, OnDeckOut
<1>3. Base /\ [Next]_vars /\ AtWait => (AtWait \/ AtFinish \/ AtCreate \/ AtRest)'
  BY OnDeckStepsOn
<1>4. Base /\ [Next]_vars /\ AtFinish => (AtFinish \/ AtCreate \/ AtRest)'
  BY OnDeckStepsOn
<1>5. Base /\ [Next]_vars /\ AtRest => (AtRest \/ AtTop)'
  BY OnDeckStepsOn
<1>6. Base /\ [Next]_vars /\ AtTop => (AtTop \/ OnDeckOut)'
  BY OnDeckStepsOn
<1>7. Base /\ <<OnDeck>>_vars
          => /\ AtWait => (AtFinish \/ AtCreate \/ AtRest)'
             /\ AtFinish => (AtCreate \/ AtRest)'
             /\ HeaderFree => AtRest'
             /\ AtRest => AtTop'
             /\ AtTop => OnDeckOut'
  BY OnDeckSteps DEF AtWait, AtFinish, AtCreate, AtRest, AtTop, HeaderFree
<1>8. Base /\ [Next]_vars
          => /\ HeaderAwaited => (HeaderAwaited \/ HeaderFree)'
             /\ HeaderAwaited /\ <<Switch>>_vars => HeaderFree'
             /\ HeaderFree => (HeaderFree \/ AtRest \/ LockCycle)'
  BY HeaderSteps
<1>9. Base /\ (AtWait \/ AtFinish \/ HeaderFree \/ AtRest \/ AtTop) => OnDeckCanGo
  BY DEF Base, EndingInv, AtWait, AtFinish, HeaderFree, AtCreate, AtRest, AtTop,
     OnDeckCanGo
<1>10. Base /\ HeaderAwaited => SwitchCanGo
  BY DEF Base, TypeOK, SyncTypeOK, EndingInv, HoldsHeader, HeaderAwaited,
     AtCreate, LockCycle, SwitchCanGo
<1>11. AtCreate => HeaderAwaited \/ HeaderFree \/ LockCycle
  BY DEF HeaderAwaited, HeaderFree
<1>12. /\ ThreadsGoOn /\ OnDeckCanGo => ENABLED <<OnDeck>>_vars
       /\ ThreadsGoOn /\ SwitchCanGo => ENABLED <<Switch>>_vars
  BY DEF ThreadsGoOn
<1> QED
  BY <1>1, <1>2, <1>3, <1>4, <1>5, <1>6, <1>7, <1>8, <1>9, <1>10, <1>11, <1>12,
     PTL DEF FairSpec, Spec

\* So, once the on-deck thread is out, the switch thread comes to its end.
LEMMA SwitchEnds ==
    NoFailures /\ OrderlyEnd
        => (FairSpec /\ []ThreadsGoOn => (OnDeckOut ~> ThreadsOut))
<1> SUFFICES ASSUME NoFailures, OrderlyEnd
             PROVE  FairSpec /\ []ThreadsGoOn => (OnDeckOut ~> ThreadsOut)
  OBVIOUS
<1> DEFINE At(place) == OnDeckOut /\ pc_switch = place
<1>1. Spec => []Base
  BY BaseHolds
<1>2. ASSUME NEW k \in DOMAIN SwitchNext
      PROVE  /\ Base /\ [Next]_vars /\ At(k) => (At(k) \/ At(SwitchNext[k]))'
             /\ Base /\ [Next]_vars /\ At(k) /\ Switch => At(SwitchNext[k])'
  BY OutStays, SwitchSteps DEF OnDeckOut
<1>3. Switch => Next
  BY DEF Next
<1>4. Base /\ [Next]_vars
          => /\ At("lock_header") => (At("lock_header") \/ At("finish_to_finish"))'
             /\ At("finish_to_finish") => (At("finish_to_finish") \/ At("create_on_deck"))'
             /\ At("create_on_deck") => (At("create_on_deck") \/ At("set_as_to_finish"))'
             /\ At("set_as_to_finish") => (At("set_as_to_finish") \/ At("get_on_deck"))'
             /\ At("get_on_deck") => (At("get_on_deck") \/ At("set_header"))'
             /\ At("set_header") => (At("set_header") \/ At("set_streams"))'
             /\ At("set_streams") => (At("set_streams") \/ At("switched"))'
             /\ At("switched") => (At("switched") \/ At("top"))'
             /\ At("top") => (At("top") \/ At("done"))'
             /\ At("wait") => (At("wait") \/ At("done"))'
  BY <1>2 DEF SwitchNext
<1>5. Base /\ <<Switch>>_vars
          => /\ At("lock_header") => At("finish_to_finish")'
             /\ At("finish_to_finish") => At("create_on_deck")'
             /\ At("create_on_deck") => At("set_as_to_finish")'
             /\ At("set_as_to_finish") => At("get_on_deck")'
             /\ At("get_on_deck") => At("set_header")'
             /\ At("set_header") => At("set_streams")'
             /\ At("set_streams") => At("switched")'
             /\ At("switched") => At("top")'
             /\ At("top") => At("done")'
             /\ At("wait") => At("done")'
  BY <1>2, <1>3 DEF SwitchNext
<1>6. Base /\ OnDeckOut /\ ~At("done") => SwitchCanGo
  BY SwitchFree
<1>7. Base /\ OnDeckOut
          => \/ At("lock_header") \/ At("finish_to_finish") \/ At("create_on_deck")
             \/ At("set_as_to_finish") \/ At("get_on_deck") \/ At("set_header")
             \/ At("set_streams") \/ At("switched") \/ At("top") \/ At("wait")
             \/ At("done")
  BY SwitchFree DEF SwitchNext
<1>8. ThreadsGoOn /\ SwitchCanGo => ENABLED <<Switch>>_vars
  BY DEF ThreadsGoOn
<1>9. At("done") <=> ThreadsOut
  BY DEF ThreadsOut
<1>10. At("lock_header") \/ At("finish_to_finish") \/ At("create_on_deck")
       \/ At("set_as_to_finish") \/ At("get_on_deck") \/ At("set_header")
       \/ At("set_streams") \/ At("switched") \/ At("top") \/ At("wait")
          => OnDeckOut /\ ~At("done")
  OBVIOUS
<1> QED
  BY <1>1, <1>4, <1>5, <1>6, <1>7, <1>8, <1>9, <1>10, PTL DEF FairSpec, Spec

\* Both threads are out: control goes through the rest of finish_files.
LEMMA ControlEnds ==
    NoFailures /\ OrderlyEnd
        => (FairSpec /\ []ThreadsGoOn
                => (ThreadsOut ~> pc_control \in {"finished", "failed"}))
<1> SUFFICES ASSUME NoFailures, OrderlyEnd
             PROVE  FairSpec /\ []ThreadsGoOn
                        => (ThreadsOut ~> pc_control \in {"finished", "failed"})
  OBVIOUS
<1> DEFINE At(place) == ThreadsOut /\ pc_control = place
           Ended == pc_control \in {"finished", "failed"}
<1>1. Spec => []Base
  BY BaseHolds
<1>2. Base /\ [Next]_vars
          => /\ At("stop_using") => (At("stop_using") \/ At("finish_file"))'
             /\ At("finish_file") => (At("finish_file") \/ At("wait_streams"))'
             /\ At("wait_streams")
                    => (At("wait_streams") \/ At("close_file") \/ Ended)'
             /\ At("close_file") => (At("close_file") \/ Ended)'
  BY ControlSteps, OutStays
<1>3. Base /\ <<pc_control # "running" /\ Control>>_vars
          => /\ At("stop_using") => At("finish_file")'
             /\ At("finish_file") => At("wait_streams")'
             /\ At("wait_streams") => (At("close_file") \/ Ended)'
             /\ At("close_file") => Ended'
  BY ControlSteps, OutStays DEF Next
<1>4. Base /\ ThreadsOut
          => \/ At("stop_using") \/ At("finish_file") \/ At("wait_streams")
             \/ At("close_file") \/ Ended
  BY DEF Base, EndingInv, ThreadsOut, OnDeckOut, Finishing
<1>5. Base /\ (\/ At("stop_using") \/ At("finish_file") \/ At("wait_streams")
              \/ At("close_file"))
          => ControlCanGo
  BY DEF Base, TypeOK, SyncTypeOK, LocksInv, EndingInv, ThreadsOut, OnDeckOut,
     ControlCanGo, Switching
<1>6. ThreadsGoOn /\ ControlCanGo => ENABLED <<pc_control # "running" /\ Control>>_vars
  BY DEF ThreadsGoOn
<1> QED
  BY <1>1, <1>2, <1>3, <1>4, <1>5, <1>6, PTL DEF FairSpec, Spec

\* With any number of writers and whenever they start, and with nothing failing:
\* after finish_files has cancelled the threads it comes to an end, unless the
\* on-deck thread and the switch thread wait for each other.
THEOREM FinishFilesReachesEnd ==
    NoFailures /\ OrderlyEnd => (FairSpec /\ []ThreadsGoOn => FinishFilesEnds)
<1> SUFFICES ASSUME NoFailures, OrderlyEnd
             PROVE  FairSpec /\ []ThreadsGoOn => FinishFilesEnds
  OBVIOUS
<1>1. FairSpec /\ []ThreadsGoOn => (canceled ~> (OnDeckOut \/ LockCycle))
  BY OnDeckEnds
<1>2. FairSpec /\ []ThreadsGoOn => (OnDeckOut ~> ThreadsOut)
  BY SwitchEnds
<1>3. FairSpec /\ []ThreadsGoOn => (ThreadsOut ~> pc_control \in {"finished", "failed"})
  BY ControlEnds
<1> QED
  BY <1>1, <1>2, <1>3, PTL DEF FinishFilesEnds

-----------------------------------------------------------------------------
(* A replaced file is finished.                                            *)

\* File f waits to be finished, and where the on-deck thread is meanwhile.
Waits(f) == to_finish = f /\ f \notin finished

\* It waits until it is finished.
LEMMA WaitsOn ==
    ASSUME NoFailures, OrderlyEnd, NEW f \in Nat, Base, Waits(f), [Next]_vars
    PROVE  Waits(f)' \/ (f \in finished)'
<1>0. f # NoFile /\ ~Throws
  BY ConstantsAssumption DEF Throws, NoFailures, Base, TypeOK, SyncTypeOK
<1>1. CASE Control
  <2>1. pc_control \in {"constructed", "running"} \cup Finishing
    BY DEF Base, EndingInv
  <2> QED
    BY <1>0, <1>1, <2>1 DEF Control, StartUsing, StartUsingThrows, Cancel, StopUsing,
       FinishFile, WriteHeader, WaitStreams, CloseFile, Destroy, Destroyed,
       ControlGoes, OrderlyEnd, Finishing, FinishToFinish, Waits, file_vars,
       pointers, disk
<1>2. CASE Switch
  BY <1>0, <1>2 DEF Switch, SwitchTop, SwitchWait, SwitchLockHeader,
     SwitchFinishToFinish, SwitchCreateOnDeck, SwitchThrows,
     SwitchSetAsToFinish, SwitchGetOnDeck, SwitchSetHeader, SwitchSetStreams,
     SwitchDone, SwitchGoes, Base, PointersInv, FinishToFinish, Waits, CreateOnDeck,
     CreateOnDeckThrows, pointers, disk
<1>3. CASE OnDeck
  BY <1>0, <1>3 DEF OnDeck, OnDeckTop, OnDeckWake, OnDeckFinish, OnDeckCreate,
     OnDeckThrows, OnDeckRest, FinishToFinish, CreateOnDeckThrows, Waits, disk
<1>4. ASSUME NEW s \in Streams, Writer(s) PROVE UNCHANGED <<to_finish, finished>>
  BY <1>4 DEF Writer, file_vars, pointers, disk
<1>5. CASE UNCHANGED vars
  BY <1>5 DEF vars, file_vars, pointers, disk, Waits
<1> QED
  BY <1>1, <1>2, <1>3, <1>4, <1>5 DEF Next, Waits

\* Before a cancellation the on-deck thread goes round its loop.
LEMMA OnDeckGoesRound ==
    ASSUME NoFailures, NEW f \in Nat, Base, Waits(f), ~canceled, [Next]_vars
    PROVE  /\ pc_ondeck \in {"top", "wait", "work"} /\ OnDeckCanGo
           /\ ~OnDeck => pc_ondeck' = pc_ondeck
           /\ OnDeck => /\ pc_ondeck = "top" => pc_ondeck' = "wait"
                        /\ pc_ondeck = "wait" => pc_ondeck' = "work"
                        /\ pc_ondeck = "work" => (f \in finished)'
<1>0. f # NoFile /\ ~Throws
  BY ConstantsAssumption DEF Throws, NoFailures, Base, TypeOK, SyncTypeOK
<1>1. pc_ondeck \in {"top", "wait", "work"} /\ pc_control = "running" /\ stage = "writing"
  BY <1>0 DEF Base, TypeOK, PcTypeOK, EndingInv, Waits
<1>2. OnDeckCanGo
  BY <1>0, <1>1 DEF Base, EndingInv, Waits, OnDeckCanGo
<1>3. CASE OnDeck
  BY <1>0, <1>1, <1>2, <1>3 DEF OnDeck, OnDeckTop, OnDeckWake, OnDeckFinish,
     OnDeckCreate, OnDeckThrows, OnDeckRest, OnDeckGoes, FinishToFinish,
     CreateOnDeckThrows, Waits
<1>4. CASE ~OnDeck
  <2>1. CASE Control
    BY <1>1, <1>2, <1>4, <2>1 DEF Control, StartUsing, StartUsingThrows, Cancel,
       StopUsing, FinishFile, WriteHeader, WaitStreams, CloseFile, Destroy,
       Destroyed, ControlGoes
  <2> QED
    BY <1>1, <1>2, <1>4, <2>1 DEF Next, Switch, Writer, vars, pcs
<1> QED
  BY <1>3, <1>4

\* With any number of writers and whenever they start, and with nothing failing:
\* a file that a switch has replaced is finished, by the on-deck thread, by the
\* next switch or by finish_files, unless the two threads wait for each other.
THEOREM ReplacedFilesFinished ==
    NoFailures /\ OrderlyEnd => (FairSpec /\ []ThreadsGoOn => FilesGetFinished)
<1> SUFFICES ASSUME NoFailures, OrderlyEnd,
                    NEW f \in 0 .. Cardinality(Streams) * MaxRecords
             PROVE  FairSpec /\ []ThreadsGoOn
                        => ((to_finish = f) ~> (f \in finished \/ LockCycle))
  BY DEF FilesGetFinished
<1> DEFINE Fair == FairSpec /\ []ThreadsGoOn
           Ended == pc_control \in {"finished", "failed"}
           At(place) == Waits(f) /\ ~canceled /\ pc_ondeck = place
<1>1. f \in Nat /\ f # NoFile
  BY ConstantsAssumption
<1>2. Spec => []Base
  BY BaseHolds
<1>3. Fair => (canceled ~> (Ended \/ LockCycle))
  BY FinishFilesReachesEnd DEF FinishFilesEnds
<1>4. Base /\ Ended => ~Waits(f)
  BY <1>1 DEF Base, EndingInv, Waits
<1>5. Base /\ [Next]_vars /\ Waits(f) => Waits(f)' \/ (f \in finished)'
  BY <1>1, WaitsOn
<1>6. Base /\ [Next]_vars
          => /\ Waits(f) /\ ~canceled => At("top") \/ At("wait") \/ At("work")
             /\ At("top") => (At("top") \/ At("wait") \/ canceled \/ f \in finished)'
             /\ At("wait") => (At("wait") \/ At("work") \/ canceled \/ f \in finished)'
             /\ At("work") => (At("work") \/ canceled \/ f \in finished)'
  BY <1>1, <1>5, OnDeckGoesRound
<1>7. Base /\ <<OnDeck>>_vars
          => /\ At("top") => (At("wait") \/ canceled \/ f \in finished)'
             /\ At("wait") => (At("work") \/ canceled \/ f \in finished)'
             /\ At("work") => (f \in finished)'
  BY <1>1, <1>5, OnDeckGoesRound DEF Next
<1>8. Base /\ [Next]_vars /\ Waits(f) /\ ~canceled => OnDeckCanGo
  BY <1>1, OnDeckGoesRound
<1>9. ThreadsGoOn /\ OnDeckCanGo => ENABLED <<OnDeck>>_vars
  BY DEF ThreadsGoOn
<1>10. /\ to_finish = f => Waits(f) \/ f \in finished
       /\ At("top") \/ At("wait") \/ At("work") => Waits(f) /\ ~canceled
  BY DEF Waits
<1> HIDE DEF At, Ended
<1> QED
  BY <1>2, <1>3, <1>4, <1>5, <1>6, <1>7, <1>8, <1>9, <1>10, PTL DEF FairSpec, Spec

-----------------------------------------------------------------------------
(* A requested switch is taken up.  Library calls may fail here.           *)

\* With finish_files as the only ending: until the cancellation the switch
\* thread is there if the wrapper is in its writing stage, and so if there is
\* a request.
ServeInv ==
    /\ pc_control \notin {"destroying", "destroyed"}
    /\ canceled <=> pc_control \notin {"constructed", "running"}
    /\ pc_switch = "done" \/ stage = "finished" => canceled
    /\ (stage = "writing" \/ do_switch_flag) /\ ~canceled => pc_switch # "off"

LEMMA ServeInit == Init => ServeInv
  BY DEF Init, ServeInv

\* A writer that uses its stream does so in the writing stage.
LEMMA UsingWhileWriting ==
    ASSUME Inv, ServeInv, ~canceled, NEW s \in Streams, pc_writer[s] \in Using
    PROVE  stage = "writing"
  BY DEF Inv, WriterInv, PhaseInv, StreamInv, StreamWrapsEmpty, ServeInv

LEMMA ServeStep == OrderlyEnd /\ Inv /\ ServeInv /\ [Next]_vars => ServeInv'
<1> SUFFICES ASSUME OrderlyEnd, Inv, ServeInv, [Next]_vars PROVE ServeInv'
  OBVIOUS
<1>1. CASE Control
  <2>1. CASE StartUsing \/ StartUsingThrows
    BY <2>1 DEF StartUsing, StartUsingThrows, ControlGoes, ServeInv
  <2>2. CASE \/ Cancel \/ StopUsing \/ FinishFile \/ WriteHeader \/ WaitStreams
             \/ CloseFile
    BY <2>2 DEF Cancel, StopUsing, FinishFile, WriteHeader, WaitStreams,
       CloseFile, ControlGoes, ServeInv
  <2>3. CASE Destroy \/ Destroyed
    BY <2>3 DEF Destroy, Destroyed, ControlGoes, OrderlyEnd, ServeInv
  <2> QED
    BY <1>1, <2>1, <2>2, <2>3 DEF Control
<1>2. CASE Switch
  BY <1>2 DEF Switch, SwitchTop, SwitchWait, SwitchLockHeader,
     SwitchFinishToFinish, SwitchCreateOnDeck, SwitchThrows,
     SwitchSetAsToFinish, SwitchGetOnDeck, SwitchSetHeader, SwitchSetStreams,
     SwitchDone, SwitchGoes, flags, ServeInv
<1>3. CASE OnDeck
  BY <1>3 DEF OnDeck, flags, ServeInv
<1>4. ASSUME NEW s \in Streams, Writer(s) PROVE ServeInv'
  <2>1. UNCHANGED <<stage, canceled, pc_control, pc_switch>>
    BY <1>4 DEF Writer
  <2>2. CASE SetSwitchFlag(s)
    <3>1. ~canceled => stage = "writing"
      BY <2>2, UsingWhileWriting DEF SetSwitchFlag, WriterGoes, Using
    <3> QED
      BY <2>1, <3>1 DEF ServeInv
  <2>3. CASE ~SetSwitchFlag(s)
    <3>1. UNCHANGED do_switch_flag
      BY <1>4, <2>3 DEF Writer, GetStream, NeverStarted, WriteRecord,
         OkayToWrite, WriteToStream, LoadEstimate, StoreEstimate,
         TestSwitchFlag, ClearOkToWrite, FinishStream, flags
    <3> QED
      BY <2>1, <3>1 DEF ServeInv
  <2> QED
    BY <2>2, <2>3
<1>5. CASE UNCHANGED vars
  BY <1>5 DEF vars, flags, pcs, ServeInv
<1> QED
  BY <1>1, <1>2, <1>3, <1>4, <1>5 DEF Next

\* A request waits, with the switch thread at a place of its loop.
Requested(place) == do_switch_flag /\ ~canceled /\ pc_switch = place

LEMMA RequestSteps ==
    OneWriter /\ OrderlyEnd /\ Inv /\ ServeInv /\ do_switch_flag /\ ~canceled
    /\ [Next]_vars
        => /\ pc_switch \in {"top", "wait"} /\ SwitchCanGo
           /\ ~Switch => pc_switch' = pc_switch
           /\ Switch /\ pc_switch = "top" => pc_switch' = "wait"
           /\ Switch /\ pc_switch = "wait" => do_switch_flag' = FALSE
<1> SUFFICES ASSUME OneWriter, OrderlyEnd, Inv, ServeInv, do_switch_flag, ~canceled,
                    [Next]_vars
             PROVE  /\ pc_switch \in {"top", "wait"} /\ SwitchCanGo
                    /\ ~Switch => pc_switch' = pc_switch
                    /\ Switch /\ pc_switch = "top" => pc_switch' = "wait"
                    /\ Switch /\ pc_switch = "wait" => do_switch_flag' = FALSE
  OBVIOUS
<1>1. pc_switch \in {"top", "wait"}
  BY DEF Inv, TypeOK, PcTypeOK, WriterInv, SwitchInv, Switching, ServeInv
<1>2. SwitchCanGo
  BY <1>1 DEF Inv, TypeOK, SyncTypeOK, WriterInv, LocksInv, Switching, ServeInv,
     SwitchCanGo
<1>3. CASE Switch
  BY <1>1, <1>2, <1>3 DEF Switch, SwitchTop, SwitchWait, SwitchLockHeader,
     SwitchFinishToFinish, SwitchCreateOnDeck, SwitchThrows,
     SwitchSetAsToFinish, SwitchGetOnDeck, SwitchSetHeader, SwitchSetStreams,
     SwitchDone, SwitchGoes, ServeInv
<1>4. CASE ~Switch
  <2>1. CASE Control
    BY <1>1, <1>2, <1>4, <2>1 DEF Control, StartUsing, StartUsingThrows, Cancel,
       StopUsing, FinishFile, WriteHeader, WaitStreams, CloseFile, Destroy,
       Destroyed, ControlGoes, Inv, PointersInv
  <2> QED
    BY <1>1, <1>2, <1>4, <2>1 DEF Next, OnDeck, Writer, vars, pcs
<1> QED
  BY <1>3, <1>4

\* With one writer a requested switch is taken up or the run is cancelled, also
\* when switches or the creation of files fail.
THEOREM OneWriterSwitchServed ==
    OneWriter /\ OrderlyEnd => (FairSpec /\ []ThreadsGoOn => SwitchServed)
<1> SUFFICES ASSUME OneWriter, OrderlyEnd
             PROVE  FairSpec /\ []ThreadsGoOn => SwitchServed
  OBVIOUS
<1>1. Init => Inv /\ ServeInv
  BY InvInit, ServeInit
<1>2. Inv /\ ServeInv /\ [Next]_vars => (Inv /\ ServeInv)'
  BY InvStep, ServeStep
<1>3. Inv /\ ServeInv /\ [Next]_vars
          => /\ do_switch_flag /\ ~canceled
                    => SwitchCanGo /\ (Requested("top") \/ Requested("wait"))
             /\ Requested("top")
                    => (Requested("top") \/ Requested("wait") \/ ~do_switch_flag \/ canceled)'
             /\ Requested("wait")
                    => (Requested("wait") \/ ~do_switch_flag \/ canceled)'
  BY RequestSteps DEF Requested
<1>4. Inv /\ ServeInv /\ <<Switch>>_vars
          => /\ Requested("top") => (Requested("wait") \/ ~do_switch_flag \/ canceled)'
             /\ Requested("wait") => (~do_switch_flag \/ canceled)'
  BY RequestSteps DEF Requested, Next
<1>5. ThreadsGoOn /\ SwitchCanGo => ENABLED <<Switch>>_vars
  BY DEF ThreadsGoOn
<1>6. Requested("top") \/ Requested("wait") => do_switch_flag /\ ~canceled
  BY DEF Requested
<1> QED
  BY <1>1, <1>2, <1>3, <1>4, <1>5, <1>6, PTL DEF FairSpec, Spec, SwitchServed

-----------------------------------------------------------------------------
(* Where the way out of a run can come to a stop, whatever fails and       *)
(* whichever way it ends.                                                  *)

\* Who holds the header mutex and f_od_mutex, and when control has got to an
\* ending: an on-deck call of control that throws leaves f_od_mutex locked
\* once both threads are gone, one of the switch thread at any time.
HoldersInv ==
    /\ header_mutex = "switch" <=> pc_switch \in HoldsHeader
    /\ od_mutex = "ondeck" <=> pc_ondeck = "work"
    /\ od_mutex = "switch" => failures > 0
    /\ od_mutex = "control" => /\ pc_control \in {"failed", "destroying", "destroyed"}
                               /\ pc_ondeck \in {"off", "done"}
                               /\ pc_switch \in {"off", "done"}
    /\ pc_control = "stop_using" => canceled

LEMMA HoldersInit == Init => HoldersInv
  BY DEF Init, HoldersInv, HoldsHeader

\* Every step of every thread keeps it.
LEMMA HoldersStep ==
    TypeOK /\ PointersInv /\ HoldersInv /\ [Next]_vars => HoldersInv'
<1> SUFFICES ASSUME TypeOK, PointersInv, HoldersInv, [Next]_vars
             PROVE  HoldersInv'
  OBVIOUS
<1> USE DEF HoldersInv, HoldsHeader
<1>0. (Throws \/ Works \/ UNCHANGED failures)
          => /\ failures > 0 => failures' > 0
             /\ Throws => failures' > 0
  BY DEF Throws, Works, TypeOK, SyncTypeOK
<1>1. CASE Control
  <2>1. UNCHANGED header_mutex
    BY <1>1 DEF Control
  <2>2. CASE StartUsing \/ StartUsingThrows
    BY <1>0, <2>1, <2>2 DEF StartUsing, StartUsingThrows, ControlGoes,
       PointersInv
  <2>3. CASE Cancel
    BY <1>0, <2>1, <2>3 DEF Cancel, ControlGoes
  <2>4. CASE StopUsing
    BY <1>0, <2>1, <2>4 DEF StopUsing, ControlGoes
  <2>5. CASE FinishFile
    BY <1>0, <2>1, <2>5 DEF FinishFile, ControlGoes, PointersInv, Joined
  <2>6. CASE WriteHeader \/ WaitStreams
    BY <1>0, <2>1, <2>6 DEF WriteHeader, WaitStreams, ControlGoes
  <2>7. CASE CloseFile
    BY <1>0, <2>1, <2>7 DEF CloseFile, ControlGoes
  <2>8. CASE Destroy
    BY <1>0, <2>1, <2>8 DEF Destroy, ControlGoes
  <2>9. CASE Destroyed
    BY <1>0, <2>1, <2>9 DEF Destroyed, ControlGoes
  <2> QED
    BY <1>1, <2>2, <2>3, <2>4, <2>5, <2>6, <2>7, <2>8, <2>9 DEF Control
<1>2. CASE Switch
  <2>1. UNCHANGED <<canceled, pc_control, pc_ondeck>>
    BY <1>2 DEF Switch
  <2>2. CASE SwitchTop \/ SwitchWait \/ SwitchLockHeader \/ SwitchSetHeader
    BY <1>0, <2>1, <2>2 DEF SwitchTop, SwitchWait, SwitchLockHeader,
       SwitchSetHeader, SwitchGoes, mutexes
  <2>3. CASE \/ SwitchFinishToFinish \/ SwitchCreateOnDeck
             \/ SwitchSetAsToFinish \/ SwitchGetOnDeck
    BY <1>0, <2>1, <2>3 DEF SwitchFinishToFinish, SwitchCreateOnDeck,
       SwitchSetAsToFinish, SwitchGetOnDeck, SwitchGoes, mutexes
  <2>4. CASE SwitchThrows
    BY <1>0, <2>1, <2>4 DEF SwitchThrows, CreateOnDeckThrows, SwitchGoes
  <2>5. CASE SwitchSetStreams \/ SwitchDone
    BY <1>0, <2>1, <2>5 DEF SwitchSetStreams, SwitchDone, SwitchGoes, mutexes
  <2> QED
    BY <1>2, <2>2, <2>3, <2>4, <2>5 DEF Switch
<1>3. CASE OnDeck
  <2>1. UNCHANGED <<canceled, header_mutex, pc_control, pc_switch>>
    BY <1>3 DEF OnDeck
  <2>2. CASE OnDeckTop \/ OnDeckWake \/ OnDeckRest
    BY <1>0, <2>1, <2>2 DEF OnDeckTop, OnDeckWake, OnDeckRest, OnDeckGoes
  <2>3. CASE OnDeckFinish \/ OnDeckCreate
    BY <1>0, <2>1, <2>3 DEF OnDeckFinish, OnDeckCreate, OnDeckGoes
  <2>4. CASE OnDeckThrows
    BY <1>0, <2>1, <2>4 DEF OnDeckThrows, CreateOnDeckThrows, OnDeckGoes
  <2> QED
    BY <1>3, <2>2, <2>3, <2>4 DEF OnDeck
<1>4. ASSUME NEW s \in Streams, Writer(s) PROVE HoldersInv'
  <2>1. Throws \/ Works \/ UNCHANGED failures
    BY <1>4 DEF Writer, GetStream, NeverStarted, WriteRecord, OkayToWrite,
       WriteToStream, LoadEstimate, StoreEstimate, TestSwitchFlag,
       SetSwitchFlag, ClearOkToWrite, FinishStream
  <2> QED
    BY <1>0, <1>4, <2>1 DEF Writer, mutexes
<1>5. CASE UNCHANGED vars
  BY <1>0, <1>5 DEF vars, mutexes, pcs
<1> QED
  BY <1>1, <1>2, <1>3, <1>4, <1>5 DEF Next

\* The places the three threads can be at while control is on its way out:
\* f_monarch_mutex is the destructor's or the switching thread's, so nothing
\* but the mutexes of HoldersInv is left to wait for.
LEMMA HangsFromHolders ==
    TypeOK /\ PointersInv /\ LocksInv /\ HoldersInv => HangsOnlyAsKnown
<1> SUFFICES ASSUME TypeOK, PointersInv, LocksInv, HoldersInv,
                    pc_control \in {"stop_using", "finish_file", "write_header",
                                    "wait_streams", "close_file", "destroying"},
                    ~LockCycle, ~OdMutexAbandoned, ~DestructorWaits
             PROVE  OnDeckCanGo \/ SwitchCanGo \/ ControlCanGo
  BY DEF HangsOnlyAsKnown
<1>1. od_mutex # "switch"
  BY DEF HoldersInv, OdMutexAbandoned
<1>2. CASE pc_control \in {"finish_file", "write_header", "wait_streams",
                           "close_file"}
  BY <1>1, <1>2 DEF TypeOK, SyncTypeOK, PointersInv, Joined, LocksInv,
     Switching, HoldersInv, ControlCanGo
<1>3. CASE pc_control \in {"stop_using", "destroying"}
  <2>1. CASE pc_ondeck = "off"
    BY <1>3, <2>1 DEF PointersInv, ControlCanGo
  <2>2. CASE pc_ondeck = "top"
    BY <2>2 DEF OnDeckCanGo
  <2>3. CASE pc_ondeck = "wait"
    <3>1. od_mutex = "none"
      BY <1>1, <2>3 DEF TypeOK, SyncTypeOK, HoldersInv
    <3> QED
      BY <2>3, <3>1 DEF OnDeckCanGo
  <2>4. CASE pc_ondeck = "work"
    <3>1. CASE to_finish # NoFile \/ on_deck # NoFile \/ header_mutex = "none"
      BY <2>4, <3>1 DEF OnDeckCanGo
    <3>2. CASE to_finish = NoFile /\ on_deck = NoFile /\ header_mutex # "none"
      <4>1. pc_switch = "set_header"
        BY <2>4, <3>2 DEF TypeOK, SyncTypeOK, HoldersInv, HoldsHeader, LockCycle
      <4> QED
        BY <4>1 DEF SwitchCanGo
    <3> QED
      BY <3>1, <3>2
  <2>5. CASE pc_ondeck = "done"
    <3>1. CASE pc_switch = "done"
      BY <1>1, <1>3, <2>5, <3>1 DEF TypeOK, SyncTypeOK, HoldersInv, ControlCanGo
    <3>2. CASE pc_switch \in {"top", "set_header", "set_streams", "switched"}
      BY <3>2 DEF SwitchCanGo
    <3>3. CASE pc_switch = "wait"
      BY <1>3, <3>3 DEF TypeOK, SyncTypeOK, HoldersInv, LocksInv, Switching,
         DestructorWaits, SwitchCanGo
    <3>4. CASE pc_switch = "lock_header"
      BY <3>4 DEF TypeOK, SyncTypeOK, HoldersInv, HoldsHeader, SwitchCanGo
    <3>5. CASE pc_switch \in {"finish_to_finish", "create_on_deck",
                              "set_as_to_finish", "get_on_deck"}
      BY <1>1, <2>5, <3>5 DEF TypeOK, SyncTypeOK, HoldersInv, SwitchCanGo
    <3> QED
      BY <2>5, <3>1, <3>2, <3>3, <3>4, <3>5 DEF TypeOK, PcTypeOK, PointersInv
  <2> QED
    BY <2>1, <2>2, <2>3, <2>4, <2>5 DEF TypeOK, PcTypeOK
<1> QED
  BY <1>2, <1>3

\* What the ways to a stop are read off from holds for ever.
LEMMA HoldersHold == Spec => [](TypeOK /\ PointersInv /\ LocksInv /\ HoldersInv)
<1>1. Init => TypeOK /\ PointersInv /\ LocksInv /\ HoldersInv
  BY TypeInit, PointersInit, WriterInit, HoldersInit DEF WriterInv
<1>2. TypeOK /\ PointersInv /\ LocksInv /\ HoldersInv /\ [Next]_vars
          => (TypeOK /\ PointersInv /\ LocksInv /\ HoldersInv)'
  BY TypeStep, PointersStep, LocksStep, HoldersStep
<1> QED
  BY <1>1, <1>2, PTL DEF Spec

\* Whatever the number of writers, of files and of exceptions, and whichever
\* way the wrapper goes: stop_using, finish_file and ~monarch_wrapper are held
\* up for good by the lock cycle, by an f_od_mutex an exception has left
\* locked, or by the destructor's own f_monarch_mutex, and by nothing else.
THEOREM EndingHangsKnown == Spec => []HangsOnlyAsKnown
<1>1. QED
  BY HoldersHold, HangsFromHolders, PTL

\* As long as no exception is thrown, finish_files is held up by the lock
\* cycle alone: the last two ways take an exception or the destructor.
THEOREM OnlyLockCycleHangs ==
    Spec => [](pc_control \in Finishing /\ failures = 0
                   => \/ OnDeckCanGo \/ SwitchCanGo \/ ControlCanGo
                      \/ LockCycle
                      \/ pc_control \in {"finished", "failed"})
<1>1. TypeOK /\ PointersInv /\ LocksInv /\ HoldersInv
          => (pc_control \in Finishing /\ failures = 0
                  => \/ OnDeckCanGo \/ SwitchCanGo \/ ControlCanGo
                     \/ LockCycle
                     \/ pc_control \in {"finished", "failed"})
  BY HangsFromHolders DEF HangsOnlyAsKnown, OdMutexAbandoned, DestructorWaits,
     Finishing
<1> QED
  BY HoldersHold, <1>1, PTL

=============================================================================
