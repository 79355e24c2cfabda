---------------------------- MODULE MonarchWrapper ----------------------------
(***************************************************************************)
(* One monarch_wrapper of src/source/control/monarch3_wrap.cc: the chain   *)
(* of egg files one output file of a run is written to.                    *)
(*                                                                         *)
(* Four kinds of thread meet here:                                         *)
(*   control   run control, in butterfly_house::start_files/finish_files   *)
(*             and in ~monarch_wrapper;                                    *)
(*   switch    monarch_wrapper::execute_switch_loop;                       *)
(*   ondeck    monarch_on_deck_manager::execute;                           *)
(*   writer s  the midge node that owns stream s.                          *)
(*                                                                         *)
(* A file is named by its number: 0 is the file the run was given, n > 0   *)
(* the continuation file with suffix _n.  An M3 exception may be thrown by *)
(* every library call the code guards against, at most MaxFailures times.  *)
(*                                                                         *)
(* A critical section that neither blocks nor can be seen half-way is one  *)
(* action guarded by its mutex being free.  Timed condition waits that     *)
(* find nothing to do are stuttering steps, so a lost notify only delays.  *)
(***************************************************************************)
EXTENDS Naturals, FiniteSets

CONSTANTS
    Streams,        \* stream numbers, one writer node each
    MaxFileSize,    \* least number of records that reaches f_max_file_size_mb
    MaxRecords,     \* bound: records each writer writes in the run
    MaxFailures,    \* bound: M3 exceptions thrown in the run
    LateStart,      \* may finish_files begin before every writer saw s_start?
    Endings,        \* how the wrapper goes: "finish_files" and/or "destroy"
    NoFile          \* a null Monarch3 pointer

ASSUME ConstantsAssumption ==
    /\ MaxFileSize \in Nat \ {0}
    /\ MaxRecords \in Nat
    /\ MaxFailures \in Nat
    /\ LateStart \in BOOLEAN
    /\ Endings \subseteq {"finish_files", "destroy"}
    /\ NoFile \notin Nat

VARIABLES
    stage,          \* f_stage
    monarch,        \* f_monarch: the file being written
    on_deck,        \* f_monarch_on_deck
    to_finish,      \* f_monarch_to_finish
    header,         \* the file f_header_wrap->f_header points into
    file_count,     \* f_file_count
    continues,      \* <<new, old>>: new's description names old
    finished,       \* files FinishWriting has completed
    removed,        \* on-deck files deleted by clear_on_deck
    abandoned,      \* files given up without FinishWriting
    stream_wraps,   \* f_stream_wraps: the file each f_stream points into
    sent,           \* records each writer has handed over
    recs,           \* records in files: [stream, number, file]
    tally,          \* t_file_size_est_mb, local to each writer
    file_size_est,  \* f_file_size_est_mb, in records
    do_switch_flag, \* f_do_switch_flag
    ok_to_write,    \* f_ok_to_write
    canceled,       \* is_canceled() of the wrapper and of its manager
    monarch_mutex,  \* holder of f_monarch_mutex
    header_mutex,   \* holder of the header_wrapper's f_mutex
    od_mutex,       \* holder of f_od_mutex
    failures,       \* M3 exceptions so far
    pc_control, pc_switch, pc_ondeck, pc_writer

pointers   == <<monarch, on_deck, to_finish>>
disk       == <<file_count, continues, finished, abandoned>>
estimate   == <<tally, file_size_est>>
flags      == <<do_switch_flag, ok_to_write>>
mutexes    == <<monarch_mutex, header_mutex, od_mutex>>
file_vars  == <<pointers, header, disk, removed>>
data_vars  == <<stream_wraps, sent, recs, estimate>>
pcs        == <<pc_control, pc_switch, pc_ondeck, pc_writer>>

vars == <<stage, file_vars, data_vars, flags, canceled, mutexes, failures, pcs>>

Init ==
    /\ stage = "initialized"
    /\ monarch = 0 /\ on_deck = NoFile /\ to_finish = NoFile
    /\ header = NoFile
    /\ file_count = 1
    /\ continues = {} /\ finished = {} /\ removed = {} /\ abandoned = {}
    /\ stream_wraps = [s \in Streams |-> NoFile]
    /\ sent = [s \in Streams |-> 0]
    /\ recs = {}
    /\ tally = [s \in Streams |-> 0] /\ file_size_est = 0
    /\ do_switch_flag = FALSE /\ ok_to_write = TRUE
    /\ canceled = FALSE
    /\ monarch_mutex = "none" /\ header_mutex = "none" /\ od_mutex = "none"
    /\ failures = 0
    /\ pc_control = "constructed" /\ pc_switch = "off" /\ pc_ondeck = "off"
    /\ pc_writer = [s \in Streams |-> "idle"]

\* A library call throws an M3 exception; it does not.
Throws == failures < MaxFailures /\ failures' = failures + 1
Works  == UNCHANGED failures

-----------------------------------------------------------------------------
(* What several threads do.                                                *)

\* The files held open: the non-null Monarch3 pointers.
Live == {monarch, on_deck, to_finish} \ {NoFile}

\* Mutant: the pointer is not reset.
FinishToFinishNoReset ==
    /\ finished' = finished \cup ({to_finish} \ {NoFile})
    /\ UNCHANGED to_finish

\* Mutant: the pointer is reset without FinishWriting.
DropToFinish == UNCHANGED finished /\ to_finish' = NoFile

FinishToFinish ==
    /\ finished' = finished \cup ({to_finish} \ {NoFile})
    /\ to_finish' = NoFile

\* Mutant: every file is described as the continuation of the original one.
CreateOnDeckFromOriginal ==
    /\ on_deck' = file_count
    /\ file_count' = file_count + 1
    /\ continues' = continues \cup {<<file_count, 0>>}

\* The new file takes the next number and is described as the continuation
\* of the file the header pointer is in.
CreateOnDeck ==
    /\ on_deck' = file_count
    /\ file_count' = file_count + 1
    /\ continues' = continues \cup {<<file_count, header>>}

\* Opening the file or writing its header throws: the number is used up.
CreateOnDeckThrows ==
    /\ abandoned' = abandoned \cup {file_count}
    /\ file_count' = file_count + 1
    /\ Throws

\* clear_on_deck: the unused file is deleted, if there is one.
RemoveOnDeck ==
    /\ removed' = removed \cup ({on_deck} \ {NoFile})
    /\ on_deck' = NoFile

\* Mutant: the limit has to be exceeded.
ExceedsLimit(n) == n > MaxFileSize

ReachesLimit(n) == n >= MaxFileSize

StreamWrapsEmpty == \A s \in Streams : stream_wraps[s] = NoFile

\* How each thread's program counter moves.
ControlGoes(from, to) == pc_control = from /\ pc_control' = to
SwitchGoes(from, to)  == pc_switch = from /\ pc_switch' = to
OnDeckGoes(from, to)  == pc_ondeck = from /\ pc_ondeck' = to
WriterGoes(s, from, to) ==
    pc_writer[s] = from /\ pc_writer' = [pc_writer EXCEPT ![s] = to]

-----------------------------------------------------------------------------
(* Run control.                                                            *)

\* start_files: get_header, prepare_to_write and start_using.
StartUsing ==
    /\ ControlGoes("constructed", "running")
    /\ stage' = "writing"
    /\ header' = monarch
    /\ do_switch_flag' = FALSE
    /\ pc_switch' = "top" /\ pc_ondeck' = "top"
    /\ UNCHANGED <<pointers, finished, removed, abandoned, file_size_est,
                   canceled, monarch_mutex, od_mutex, failures>>

\* WriteHeader or prepare_to_write throws: no thread is started.
StartUsingThrows ==
    /\ ControlGoes("constructed", "running")
    /\ stage' = "preparing"
    /\ header' = monarch
    /\ Throws
    /\ UNCHANGED <<pointers, finished, removed, abandoned, file_size_est,
                   do_switch_flag, canceled, monarch_mutex, od_mutex,
                   pc_switch, pc_ondeck>>

\* finish_files begins: cancel() reaches the wrapper and its manager.
Cancel ==
    /\ "finish_files" \in Endings
    /\ LateStart \/ \A s \in Streams : pc_writer[s] # "idle"
    /\ ControlGoes("running", "stop_using")
    /\ canceled' = TRUE
    /\ UNCHANGED <<stage, file_vars, file_size_est, do_switch_flag,
                   monarch_mutex, od_mutex, failures, pc_switch, pc_ondeck>>

\* stop_using returns at once if start_using had not succeeded.  Otherwise
\* both threads are joined, then clear_on_deck deletes the on-deck file.
StopUsing ==
    /\ ControlGoes("stop_using", "finish_file")
    /\ \/ /\ pc_ondeck = "off"
          /\ UNCHANGED <<on_deck, removed>>
       \/ /\ pc_ondeck = "done" /\ pc_switch = "done"
          /\ od_mutex = "none"
          /\ RemoveOnDeck
    /\ UNCHANGED <<stage, monarch, to_finish, header, finished, abandoned,
                   file_size_est, do_switch_flag, canceled, monarch_mutex,
                   od_mutex, failures, pc_switch, pc_ondeck>>

\* finish_file up to the release of f_monarch_mutex; both threads are gone,
\* so f_od_mutex is not contended.  A FinishWriting that throws leaves it
\* locked: finish_to_finish uses a bare lock().
FinishFile ==
    /\ monarch_mutex = "none" /\ od_mutex = "none"
    /\ \/ /\ ControlGoes("finish_file",
                  IF stage = "writing" THEN "wait_streams" ELSE "write_header")
          /\ FinishToFinish /\ Works
          /\ UNCHANGED od_mutex
       \/ /\ ControlGoes("finish_file", "failed")
          /\ to_finish # NoFile /\ Throws
          /\ od_mutex' = "control"
          /\ UNCHANGED <<to_finish, finished>>
    /\ UNCHANGED <<stage, monarch, on_deck, header, removed, abandoned,
                   file_size_est, do_switch_flag, canceled, monarch_mutex,
                   pc_switch, pc_ondeck>>

\* A run whose start_using failed still writes the header of its file.
WriteHeader ==
    /\ \/ ControlGoes("write_header", "close_file") /\ Works
       \/ ControlGoes("write_header", "failed") /\ Throws
    /\ header' = NoFile
    /\ UNCHANGED <<stage, pointers, finished, removed, abandoned,
                   file_size_est, do_switch_flag, canceled, monarch_mutex,
                   od_mutex, pc_switch, pc_ondeck>>

\* f_monarch_mutex is free while the writers finish their streams.  Ten
\* polls, a global cancellation and ten more polls may not be enough.
WaitStreams ==
    /\ ControlGoes("wait_streams",
                   IF StreamWrapsEmpty THEN "close_file" ELSE "failed")
    /\ UNCHANGED <<stage, file_vars, file_size_est, do_switch_flag, canceled,
                   monarch_mutex, od_mutex, failures, pc_switch, pc_ondeck>>

CloseFile ==
    /\ monarch_mutex = "none"
    /\ stage' = "finished"
    /\ \/ /\ ControlGoes("close_file", "finished") /\ Works
          /\ finished' = finished \cup {monarch}
          /\ monarch' = NoFile
          /\ file_size_est' = 0
       \/ /\ ControlGoes("close_file", "failed") /\ Throws
          /\ UNCHANGED <<finished, monarch, file_size_est>>
    /\ UNCHANGED <<on_deck, to_finish, header, removed, abandoned,
                   do_switch_flag, canceled, monarch_mutex, od_mutex,
                   pc_switch, pc_ondeck>>

\* ~monarch_wrapper, run when no writer uses the wrapper: either
\* start_files threw for a later file, or finish_files threw for this one.
Destroy ==
    /\ "destroy" \in Endings
    /\ \A s \in Streams : pc_writer[s] \in {"idle", "done", "dead"}
    /\ ControlGoes("running", "destroying") \/ ControlGoes("failed", "destroying")
    /\ monarch_mutex = "none" /\ monarch_mutex' = "control"
    /\ stage' = "finished"
    /\ UNCHANGED <<file_vars, file_size_est, do_switch_flag, canceled,
                   od_mutex, failures, pc_switch, pc_ondeck>>

\* Both threads are joined with f_monarch_mutex held, then the current file
\* is finished; the manager's pointers go with the object.
Destroyed ==
    /\ ControlGoes("destroying", "destroyed")
    /\ pc_ondeck \in {"off", "done"} /\ pc_switch \in {"off", "done"}
    /\ \/ /\ Works
          /\ finished' = finished \cup ({monarch} \ {NoFile})
          /\ abandoned' = abandoned \cup ({on_deck, to_finish} \ {NoFile})
       \/ /\ monarch # NoFile /\ Throws
          /\ abandoned' = abandoned \cup Live
          /\ UNCHANGED finished
    /\ monarch' = NoFile /\ on_deck' = NoFile /\ to_finish' = NoFile
    /\ monarch_mutex' = "none"
    /\ UNCHANGED <<stage, header, removed, file_size_est, do_switch_flag,
                   canceled, od_mutex, pc_switch, pc_ondeck>>

Control ==
    /\ \/ StartUsing \/ StartUsingThrows \/ Cancel \/ StopUsing \/ FinishFile
       \/ WriteHeader \/ WaitStreams \/ CloseFile \/ Destroy \/ Destroyed
    /\ UNCHANGED <<file_count, continues, stream_wraps, sent, recs, tally,
                   ok_to_write, header_mutex, pc_writer>>

-----------------------------------------------------------------------------
(* execute_switch_loop.                                                    *)

SwitchTop ==
    /\ SwitchGoes("top",
                  IF canceled \/ stage = "finished" THEN "done" ELSE "wait")
    /\ UNCHANGED <<pointers, header, disk, stream_wraps, file_size_est, flags,
                   mutexes, failures>>

\* A cancellation ends the wait and the thread, whatever the flag; a set
\* flag is reset and the switch begun with f_monarch_mutex held.
SwitchWait ==
    /\ monarch_mutex = "none"
    /\ \/ /\ canceled /\ SwitchGoes("wait", "done")
          /\ UNCHANGED <<do_switch_flag, monarch_mutex>>
       \/ /\ do_switch_flag /\ ~canceled /\ SwitchGoes("wait", "lock_header")
          /\ monarch_mutex' = "switch"
          /\ do_switch_flag' = FALSE
    /\ UNCHANGED <<pointers, header, disk, stream_wraps, file_size_est,
                   ok_to_write, header_mutex, od_mutex, failures>>

SwitchLockHeader ==
    /\ SwitchGoes("lock_header", "finish_to_finish")
    /\ header_mutex = "none" /\ header_mutex' = "switch"
    /\ UNCHANGED <<pointers, header, disk, stream_wraps, file_size_est, flags,
                   monarch_mutex, od_mutex, failures>>

\* Mutant: the to-finish file is left to the on-deck thread.
SwitchSkipFinish ==
    /\ SwitchGoes("finish_to_finish", "create_on_deck")
    /\ UNCHANGED <<pointers, header, disk, stream_wraps, file_size_est, flags,
                   mutexes, failures>>

SwitchFinishToFinish ==
    /\ SwitchGoes("finish_to_finish", "create_on_deck")
    /\ od_mutex = "none"
    /\ FinishToFinish
    /\ UNCHANGED <<monarch, on_deck, header, file_count, continues, abandoned,
                   stream_wraps, file_size_est, flags, mutexes, failures>>

SwitchCreateOnDeck ==
    /\ SwitchGoes("create_on_deck", "set_as_to_finish")
    /\ od_mutex = "none"
    /\ IF on_deck = NoFile THEN CreateOnDeck
                           ELSE UNCHANGED <<on_deck, file_count, continues>>
    /\ UNCHANGED <<monarch, to_finish, header, finished, abandoned,
                   stream_wraps, file_size_est, flags, mutexes, failures>>

\* The two synchronous calls use a bare lock(): an exception leaves
\* f_od_mutex locked while the header lock is released on the way out.
SwitchThrows ==
    /\ od_mutex = "none" /\ od_mutex' = "switch"
    /\ header_mutex' = "none"
    /\ \/ /\ SwitchGoes("finish_to_finish", "switched")
          /\ to_finish # NoFile /\ Throws
          /\ UNCHANGED <<file_count, abandoned>>
       \/ /\ SwitchGoes("create_on_deck", "switched")
          /\ on_deck = NoFile /\ CreateOnDeckThrows
    /\ UNCHANGED <<pointers, header, continues, finished, stream_wraps,
                   file_size_est, flags, monarch_mutex>>

\* set_as_to_finish and get_on_deck swap pointers, whatever they hold.
SwitchSetAsToFinish ==
    /\ SwitchGoes("set_as_to_finish", "get_on_deck")
    /\ od_mutex = "none"
    /\ to_finish' = monarch /\ monarch' = to_finish
    /\ UNCHANGED <<on_deck, header, disk, stream_wraps, file_size_est, flags,
                   mutexes, failures>>

\* Mutant: the on-deck pointer is copied, not swapped.
SwitchCopyOnDeck ==
    /\ SwitchGoes("get_on_deck", "set_header")
    /\ od_mutex = "none"
    /\ monarch' = on_deck
    /\ UNCHANGED <<on_deck, to_finish, header, disk, stream_wraps,
                   file_size_est, flags, mutexes, failures>>

SwitchGetOnDeck ==
    /\ SwitchGoes("get_on_deck", "set_header")
    /\ od_mutex = "none"
    /\ monarch' = on_deck /\ on_deck' = monarch
    /\ UNCHANGED <<to_finish, header, disk, stream_wraps, file_size_est, flags,
                   mutexes, failures>>

\* Mutant: the header pointer stays in the old file.
SwitchKeepHeader ==
    /\ SwitchGoes("set_header", "set_streams")
    /\ file_size_est' = 0
    /\ header_mutex' = "none"
    /\ UNCHANGED <<pointers, header, disk, stream_wraps, flags, monarch_mutex,
                   od_mutex, failures>>

\* Mutant: the header stays locked.
SwitchHoldHeader ==
    /\ SwitchGoes("set_header", "set_streams")
    /\ file_size_est' = 0
    /\ header' = monarch
    /\ UNCHANGED <<pointers, disk, stream_wraps, flags, mutexes, failures>>

SwitchSetHeader ==
    /\ SwitchGoes("set_header", "set_streams")
    /\ file_size_est' = 0
    /\ header' = monarch
    /\ header_mutex' = "none"
    /\ UNCHANGED <<pointers, disk, stream_wraps, flags, monarch_mutex,
                   od_mutex, failures>>

SwitchSetStreams ==
    /\ SwitchGoes("set_streams", "switched")
    /\ stream_wraps' = [s \in Streams |->
           IF stream_wraps[s] = NoFile THEN NoFile ELSE monarch]
    /\ UNCHANGED <<pointers, header, disk, file_size_est, flags, mutexes,
                   failures>>

\* Mutant: the thread serves one request only.
SwitchOnce ==
    /\ SwitchGoes("switched", "done")
    /\ ok_to_write' = TRUE
    /\ monarch_mutex' = "none"
    /\ UNCHANGED <<pointers, header, disk, stream_wraps, file_size_est,
                   do_switch_flag, header_mutex, od_mutex, failures>>

\* Reached after a switch and after a failed one alike.
SwitchDone ==
    /\ SwitchGoes("switched", "top")
    /\ ok_to_write' = TRUE
    /\ monarch_mutex' = "none"
    /\ UNCHANGED <<pointers, header, disk, stream_wraps, file_size_est,
                   do_switch_flag, header_mutex, od_mutex, failures>>

Switch ==
    /\ \/ SwitchTop \/ SwitchWait \/ SwitchLockHeader \/ SwitchFinishToFinish
       \/ SwitchCreateOnDeck \/ SwitchThrows \/ SwitchSetAsToFinish
       \/ SwitchGetOnDeck \/ SwitchSetHeader \/ SwitchSetStreams \/ SwitchDone
    /\ UNCHANGED <<stage, removed, sent, recs, tally, canceled, pc_control,
                   pc_ondeck, pc_writer>>

-----------------------------------------------------------------------------
(* monarch_on_deck_manager::execute.                                       *)

\* Mutant: the loop condition looks at the stage only.
OnDeckIgnoresCancel ==
    /\ OnDeckGoes("top", IF stage = "finished" THEN "done" ELSE "wait")
    /\ UNCHANGED <<on_deck, to_finish, disk, od_mutex, failures>>

OnDeckTop ==
    /\ OnDeckGoes("top",
                  IF canceled \/ stage = "finished" THEN "done" ELSE "wait")
    /\ UNCHANGED <<on_deck, to_finish, disk, od_mutex, failures>>

\* The wait ends, by a notify or after 500 ms.
OnDeckWake ==
    /\ OnDeckGoes("wait", "work")
    /\ od_mutex = "none" /\ od_mutex' = "ondeck"
    /\ UNCHANGED <<on_deck, to_finish, disk, failures>>

OnDeckFinish ==
    /\ OnDeckGoes("work", "work")
    /\ to_finish # NoFile /\ FinishToFinish
    /\ UNCHANGED <<on_deck, file_count, continues, abandoned, od_mutex, failures>>

\* f_od_mutex stays locked while the header mutex is waited for.
OnDeckCreate ==
    /\ OnDeckGoes("work", "work")
    /\ to_finish = NoFile /\ on_deck = NoFile /\ header_mutex = "none"
    /\ CreateOnDeck
    /\ UNCHANGED <<to_finish, finished, abandoned, od_mutex, failures>>

\* The scoped lock is released and the loop goes round again.
OnDeckThrows ==
    /\ OnDeckGoes("work", "top")
    /\ \/ /\ to_finish # NoFile /\ Throws
          /\ UNCHANGED <<file_count, abandoned>>
       \/ /\ to_finish = NoFile /\ on_deck = NoFile /\ header_mutex = "none"
          /\ CreateOnDeckThrows
    /\ od_mutex' = "none"
    /\ UNCHANGED <<on_deck, to_finish, continues, finished>>

OnDeckRest ==
    /\ OnDeckGoes("work", "top")
    /\ to_finish = NoFile /\ on_deck # NoFile
    /\ od_mutex' = "none"
    /\ UNCHANGED <<on_deck, to_finish, disk, failures>>

OnDeck ==
    /\ \/ OnDeckTop \/ OnDeckWake \/ OnDeckFinish \/ OnDeckCreate
       \/ OnDeckThrows \/ OnDeckRest
    /\ UNCHANGED <<stage, monarch, header, removed, data_vars, flags, canceled,
                   monarch_mutex, header_mutex, pc_control, pc_switch,
                   pc_writer>>

-----------------------------------------------------------------------------
(* The writer of stream s.                                                 *)

\* write_record returns what WriteRecord returned; on false the writer throws.
Return(s) ==
    IF \E r \in recs : r.stream = s /\ r.number = sent[s] THEN "ready" ELSE "dead"

\* s_start: get_stream, refused outside the writing stage.
GetStream(s) ==
    /\ pc_control \notin {"constructed", "destroying", "destroyed"}
    /\ monarch_mutex = "none"
    /\ \/ /\ stage = "writing" /\ WriterGoes(s, "idle", "ready")
          /\ stream_wraps' = [stream_wraps EXCEPT ![s] = monarch]
       \/ /\ stage # "writing" /\ WriterGoes(s, "idle", "dead")
          /\ UNCHANGED stream_wraps
    /\ UNCHANGED <<sent, recs, estimate, flags, failures>>

\* The node is cancelled or told to stop before any s_start.
NeverStarted(s) ==
    /\ pc_control # "constructed"
    /\ WriterGoes(s, "idle", "done")
    /\ UNCHANGED <<data_vars, flags, failures>>

\* s_run: write_record begins.
WriteRecord(s) ==
    /\ sent[s] < MaxRecords
    /\ WriterGoes(s, "ready", "check")
    /\ UNCHANGED <<data_vars, flags, failures>>

\* okay_to_write waits for f_ok_to_write, and for nothing else.
OkayToWrite(s) ==
    /\ ok_to_write
    /\ WriterGoes(s, "check", "write")
    /\ UNCHANGED <<data_vars, flags, failures>>

\* f_monarch is tested, then the record goes to whatever file f_stream is in.
\* WriteRecord returns false, or throws and leaves the estimate alone.
WriteToStream(s) ==
    /\ \/ /\ monarch # NoFile /\ WriterGoes(s, "write", "load")
          /\ sent' = [sent EXCEPT ![s] = @ + 1]
          /\ \/ /\ Works
                /\ recs' = recs \cup {[stream |-> s, number |-> sent[s] + 1,
                                       file |-> stream_wraps[s]]}
             \/ Throws /\ UNCHANGED recs
       \/ /\ WriterGoes(s, "write", "dead")
          /\ (monarch = NoFile /\ Works) \/ Throws
          /\ UNCHANGED <<sent, recs>>
    /\ UNCHANGED <<stream_wraps, estimate, flags>>

\* record_file_contribution reads the estimate, adds its part ...
LoadEstimate(s) ==
    /\ WriterGoes(s, "load", "store")
    /\ tally' = [tally EXCEPT ![s] = file_size_est + 1]
    /\ UNCHANGED <<stream_wraps, sent, recs, file_size_est, flags, failures>>

\* ... and stores the sum, triggering a switch when it reaches the limit.
StoreEstimate(s) ==
    /\ WriterGoes(s, "store",
                  IF ReachesLimit(tally[s]) THEN "trigger" ELSE Return(s))
    /\ file_size_est' = tally[s]
    /\ UNCHANGED <<stream_wraps, sent, recs, tally, flags, failures>>

TestSwitchFlag(s) ==
    /\ WriterGoes(s, "trigger", IF do_switch_flag THEN Return(s) ELSE "set_flag")
    /\ UNCHANGED <<data_vars, flags, failures>>

SetSwitchFlag(s) ==
    /\ WriterGoes(s, "set_flag", "clear_ok")
    /\ do_switch_flag' = TRUE
    /\ UNCHANGED <<data_vars, ok_to_write, failures>>

\* Mutant: the writers are not held back while a switch is pending.
KeepOkToWrite(s) ==
    /\ WriterGoes(s, "clear_ok", Return(s))
    /\ UNCHANGED <<data_vars, flags, failures>>

ClearOkToWrite(s) ==
    /\ WriterGoes(s, "clear_ok", Return(s))
    /\ ok_to_write' = FALSE
    /\ UNCHANGED <<data_vars, do_switch_flag, failures>>

\* s_stop, s_exit, s_error or cancellation: finish_stream.
FinishStream(s) ==
    /\ monarch_mutex = "none"
    /\ \/ /\ stage = "writing" /\ WriterGoes(s, "ready", "done")
          /\ stream_wraps' = [stream_wraps EXCEPT ![s] = NoFile]
       \/ /\ stage # "writing" /\ WriterGoes(s, "ready", "dead")
          /\ UNCHANGED stream_wraps
    /\ UNCHANGED <<sent, recs, estimate, flags, failures>>

Writer(s) ==
    /\ \/ GetStream(s) \/ NeverStarted(s) \/ WriteRecord(s) \/ OkayToWrite(s)
       \/ WriteToStream(s) \/ LoadEstimate(s) \/ StoreEstimate(s)
       \/ TestSwitchFlag(s) \/ SetSwitchFlag(s) \/ ClearOkToWrite(s)
       \/ FinishStream(s)
    /\ UNCHANGED <<stage, file_vars, canceled, mutexes, pc_control, pc_switch,
                   pc_ondeck>>

-----------------------------------------------------------------------------
Next == Control \/ Switch \/ OnDeck \/ \E s \in Streams : Writer(s)

Spec == Init /\ [][Next]_vars

\* Every thread is scheduled: its waits are timed or for mutexes held for a
\* bounded time.  Nothing says when a run is ended: a run may go on for ever.
FairSpec ==
    /\ Spec
    /\ WF_vars(pc_control # "running" /\ Control)
    /\ WF_vars(Switch) /\ WF_vars(OnDeck)
    /\ \A s \in Streams : WF_vars(Writer(s))

-----------------------------------------------------------------------------
(* Properties.                                                             *)

File == Nat \cup {NoFile}

FilesTypeOK ==
    /\ stage \in {"initialized", "preparing", "writing", "finished"}
    /\ monarch \in File /\ on_deck \in File /\ to_finish \in File
    /\ header \in File
    /\ file_count \in Nat
    /\ continues \subseteq Nat \X File
    /\ finished \subseteq File /\ removed \subseteq Nat /\ abandoned \subseteq Nat

DataTypeOK ==
    /\ stream_wraps \in [Streams -> File]
    /\ sent \in [Streams -> Nat]
    /\ recs \subseteq [stream : Streams, number : Nat, file : File]
    /\ tally \in [Streams -> Nat] /\ file_size_est \in Nat

FlagTypeOK ==
    /\ do_switch_flag \in BOOLEAN /\ ok_to_write \in BOOLEAN
    /\ canceled \in BOOLEAN

SyncTypeOK ==
    /\ monarch_mutex \in {"none", "control", "switch"}
    /\ header_mutex \in {"none", "switch"}
    /\ od_mutex \in {"none", "control", "switch", "ondeck"}
    /\ failures \in Nat

PcTypeOK ==
    /\ pc_control \in {"constructed", "running", "stop_using", "finish_file",
                       "write_header", "wait_streams", "close_file",
                       "finished", "failed", "destroying", "destroyed"}
    /\ pc_switch \in {"off", "top", "wait", "lock_header", "finish_to_finish",
                      "create_on_deck", "set_as_to_finish", "get_on_deck",
                      "set_header", "set_streams", "switched", "done"}
    /\ pc_ondeck \in {"off", "top", "wait", "work", "done"}
    /\ pc_writer \in [Streams -> {"idle", "ready", "check", "write", "load",
                                  "store", "trigger", "set_flag", "clear_ok",
                                  "done", "dead"}]

\* The pointers, counters, locks and program counters take only the values
\* the code can give them.
TypeOK == FilesTypeOK /\ DataTypeOK /\ FlagTypeOK /\ SyncTypeOK /\ PcTypeOK

\* A writer about to use its M3Stream uses the stream of the file that is
\* being written, and that file has not been finished: no switch, on-deck
\* thread or finish_file gets between okay_to_write and WriteRecord.
WriteInOpenFile ==
    \A s \in Streams : pc_writer[s] = "write" =>
        /\ monarch # NoFile
        /\ stream_wraps[s] = monarch
        /\ monarch \notin finished

\* Every number the wrapper has given to a file is accounted for exactly
\* once: in one of the three pointers, finished, removed or given up.  A swap
\* that loses or duplicates a Monarch3 pointer breaks this.
FilesOwnedOnce ==
    /\ 0 .. file_count - 1 = Live \cup finished \cup removed \cup abandoned
    /\ Live \cap (finished \cup removed \cup abandoned) = {}
    /\ finished \cap (removed \cup abandoned) = {}
    /\ removed \cap abandoned = {}
    /\ monarch # NoFile => monarch # on_deck /\ monarch # to_finish
    /\ on_deck # NoFile => on_deck # to_finish

\* The "Continuation of file" notes form one unbroken chain: each file names
\* the file created just before it, and only the last may have been removed.
ContinuationChain ==
    \A p, q \in continues :
        /\ p[2] \in Nat /\ p[2] < p[1] /\ p[2] \notin removed
        /\ ~(p[2] < q[1] /\ q[1] < p[1])

\* No file takes more records than it took to reach the size limit: the
\* estimate restarts with each file and no record slips in during a switch.
FileSizeBound ==
    \A f \in 0 .. file_count :
        Cardinality({r \in recs : r.file = f}) <= MaxFileSize

\* Reading the files of a run in order gives each stream's records in order.
RecordsInOrder ==
    \A q, r \in recs :
        q.stream = r.stream /\ q.number < r.number => q.file <= r.file

\* A file that was dropped unfinished, or deleted as unused, holds no record.
RecordsKept == \A r \in recs : r.file \notin removed \cup abandoned

\* Whoever takes the header lock finds the header of the current file, never
\* one inside a file the on-deck thread may have closed meanwhile.
HeaderInCurrentFile ==
    stage = "writing" /\ header_mutex = "none" => header = monarch

\* The on-deck thread holds f_od_mutex and waits for the header mutex, the
\* switch thread holds the header mutex and waits for f_od_mutex.
LockCycle ==
    /\ od_mutex = "ondeck" /\ to_finish = NoFile /\ on_deck = NoFile
    /\ header_mutex = "switch"
    /\ pc_switch \in {"finish_to_finish", "create_on_deck",
                      "set_as_to_finish", "get_on_deck"}

NoLockCycle == ~LockCycle

\* Where each of the library's threads is in its code, and what has to be free
\* or set for it to go on from there.
OnDeckCanGo ==
    \/ pc_ondeck = "top"
    \/ pc_ondeck = "wait" /\ od_mutex = "none"
    \/ pc_ondeck = "work" /\ (to_finish # NoFile \/ on_deck # NoFile)
    \/ pc_ondeck = "work" /\ header_mutex = "none"

SwitchCanGo ==
    \/ pc_switch \in {"top", "set_header", "set_streams", "switched"}
    \/ pc_switch = "wait" /\ monarch_mutex = "none" /\ (canceled \/ do_switch_flag)
    \/ pc_switch = "lock_header" /\ header_mutex = "none"
    \/ /\ pc_switch \in {"finish_to_finish", "create_on_deck",
                          "set_as_to_finish", "get_on_deck"}
       /\ od_mutex = "none"

ControlCanGo ==
    \/ pc_control = "stop_using" /\ pc_ondeck = "off"
    \/ /\ pc_control = "stop_using" /\ pc_ondeck = "done" /\ pc_switch = "done"
       /\ od_mutex = "none"
    \/ pc_control = "finish_file" /\ monarch_mutex = "none" /\ od_mutex = "none"
    \/ pc_control \in {"write_header", "wait_streams"}
    \/ pc_control = "close_file" /\ monarch_mutex = "none"
    \/ /\ pc_control = "destroying"
       /\ pc_ondeck \in {"off", "done"} /\ pc_switch \in {"off", "done"}

\* A thread is held up by the mutexes and joins of the place it is at, and by
\* nothing else.  No property of the code but a reading of the guards above:
\* the proofs about FairSpec take it as their hypothesis.
ThreadsGoOn ==
    /\ OnDeckCanGo => ENABLED <<OnDeck>>_vars
    /\ SwitchCanGo => ENABLED <<Switch>>_vars
    /\ ControlCanGo => ENABLED <<pc_control # "running" /\ Control>>_vars

\* An exception of a synchronous on-deck call has left f_od_mutex locked.
OdMutexAbandoned == od_mutex = "switch" /\ failures > 0

\* The destructor holds f_monarch_mutex and joins the switch thread, whose wait
\* for the flag cannot end without that mutex.
DestructorWaits ==
    pc_control = "destroying" /\ monarch_mutex = "control" /\ pc_switch = "wait"

\* The way out of a run, through finish_files or the destructor, comes to a
\* stop in three ways at most: whatever was thrown and wherever the threads
\* were, one of the three can go on, or the two locks are held crosswise, or
\* f_od_mutex was left locked, or the destructor waits for the switch thread.
HangsOnlyAsKnown ==
    pc_control \in {"stop_using", "finish_file", "write_header",
                    "wait_streams", "close_file", "destroying"}
        => \/ OnDeckCanGo \/ SwitchCanGo \/ ControlCanGo
           \/ LockCycle \/ OdMutexAbandoned \/ DestructorWaits

\* A requested switch is taken up, unless the run is cancelled first.
SwitchServed == do_switch_flag ~> (~do_switch_flag \/ canceled \/ LockCycle)

\* finish_files gets to an end, with the file finished or an error.
FinishFilesEnds ==
    canceled ~> (pc_control \in {"finished", "failed"} \/ LockCycle)

\* Every file a switch has taken out of use is finished in the end, whoever
\* of the on-deck thread, the next switch and finish_file gets to it.
FilesGetFinished ==
    \A f \in 0 .. Cardinality(Streams) * MaxRecords :
        (to_finish = f) ~> (f \in finished \/ LockCycle)

-----------------------------------------------------------------------------
(* The abstract specification this one implements.                         *)

\* While the switch thread has taken the old file away and not yet put the
\* new one in place, the file in use is already the one on deck.
currentFile == IF pc_switch = "get_on_deck" THEN on_deck ELSE monarch

EO == INSTANCE EggOutput WITH current <- currentFile, closing <- to_finish,
                              closed <- finished, records <- recs

\* With one writer and an orderly end, the threads together do no more than
\* append records in order to a chain of files, each closed once and for all.
ImplementsEggOutput == EO!Spec

=============================================================================
