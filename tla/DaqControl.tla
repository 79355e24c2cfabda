------------------------------ MODULE DaqControl ------------------------------
(***************************************************************************)
(* Run control: start-run requests (src/source/control/daq_control.cc),    *)
(* what butterfly_house keeps for the files and labels, and the starting   *)
(* and finishing of the files around a run.                                *)
(*                                                                         *)
(* Requests are handled in one thread, a run goes on in another; both use  *)
(* the butterfly house, most of whose members lock f_house_mutex.          *)
(* start_files blocks nowhere and is one action; finish_files waits for    *)
(* the writers with the mutex locked.  sandfly's run control is external:  *)
(* it launches a run when idle, calls on_pre_run, lets the nodes run until *)
(* the end is asked for, and calls on_post_run.                            *)
(***************************************************************************)
EXTENDS Naturals, Sequences

CONSTANTS
    NFiles,         \* n-files
    Writers,        \* the egg_writer nodes
    FileNum,        \* file-num of each writer
    Requests,       \* start-run requests in their order: sequences of settings
    NoFile,         \* a null monarch_wrap_ptr
    MaxFailures     \* bound: files or directories that fail

Files == 0 .. NFiles - 1

ASSUME ControlAssumption ==
    /\ NFiles \in Nat \ {0}
    /\ FileNum \in [Writers -> Files]
    /\ MaxFailures \in Nat
    /\ Requests \in Seq(Seq(
           [field : {"filename", "description"}, file : Files, to : Nat] \cup
           [field : {"values", "duration"}, to : Nat]))

VARIABLES
    file_infos,     \* f_file_infos: name and description of each file
    run_duration,   \* f_run_duration of the run control
    house_duration, \* t_run_duration of the butterfly house
    extra_info,     \* t_extra_info
    writers,        \* f_writers, with their FileNum
    mw_ptrs,        \* f_mw_ptrs, with the header each file has got
    monarch_ptr,    \* the run of each writer's f_monarch_ptr, 0 for none
    streaming,      \* writers with a stream in f_stream_wraps, and its run
    request,        \* settings of the request still to be made
    pc_request,
    requests,           \* the number of requests made
    failures,           \* counted against its bound
    run, pc_run,        \* number of the run, and where run control is
    finishing,          \* the file finish_files is at
    asked,              \* the number of the request of each run
    canceled            \* the nodes are cancelled

settings     == <<file_infos, run_duration, extra_info>>
house_vars   == <<house_duration, mw_ptrs, monarch_ptr>>
request_vars == <<request, pc_request, requests>>
control_vars == <<settings, house_vars, writers, streaming, request_vars,
                  failures, run, pc_run, finishing, asked, canceled>>

ControlInit ==
    /\ file_infos = [f \in Files |-> [filename |-> 0, description |-> 0]]
    /\ run_duration = 0 /\ house_duration = 0 /\ extra_info = 0
    /\ writers = {}
    /\ mw_ptrs = <<>>
    /\ monarch_ptr = [w \in Writers |-> 0]
    /\ streaming = {}
    /\ request = <<>> /\ pc_request = "idle" /\ requests = 0
    /\ failures = 0
    /\ run = 0 /\ pc_run = "inactive" /\ finishing = 0
    /\ asked = <<>>
    /\ canceled = FALSE

\* f_house_mutex is free whenever finish_files is not waiting with it.
HouseFree == pc_run # "finishing"

Fails == failures < MaxFailures /\ failures' = failures + 1

-----------------------------------------------------------------------------
(* The nodes register and unregister.                                      *)

\* register_writer, from a writer's initialize.
RegisterWriter(w) ==
    /\ pc_run = "inactive" /\ w \notin writers
    /\ writers' = writers \cup {w}
    /\ UNCHANGED <<settings, house_vars, streaming, request_vars, failures,
                   run, pc_run, finishing, asked, canceled>>

\* All nodes are initialized, and run control takes requests.
Activate ==
    /\ pc_run = "inactive" /\ pc_run' = "idle"
    /\ writers = Writers
    /\ UNCHANGED <<settings, house_vars, writers, streaming, request_vars,
                   failures, run, finishing, asked, canceled>>

\* unregister_writer, from finalize, once the node has left its loop.
UnregisterWriter(w) ==
    /\ canceled /\ HouseFree
    /\ w \in writers /\ writers' = writers \ {w}
    /\ UNCHANGED <<settings, house_vars, streaming, request_vars, failures,
                   run, pc_run, finishing, asked, canceled>>

-----------------------------------------------------------------------------
(* handle_start_run_request.                                               *)

Requesting ==
    UNCHANGED <<house_vars, writers, streaming, finishing, canceled>>

NewRequest ==
    /\ pc_request = "idle" /\ pc_request' = "setting"
    /\ pc_run # "inactive"
    /\ requests < Len(Requests) /\ requests' = requests + 1
    /\ request' = Requests[requests']
    /\ UNCHANGED <<settings, failures, run, pc_run, asked>> /\ Requesting

\* set_filename and set_description lock the house, set_values and the
\* duration do not.
ApplySetting ==
    /\ pc_request = "setting" /\ request # <<>>
    /\ LET s == Head(request) IN
       \/ /\ s.field \in {"filename", "description"}
          /\ HouseFree
          /\ file_infos' = [file_infos EXCEPT ![s.file][s.field] = s.to]
          /\ UNCHANGED <<run_duration, extra_info>>
       \/ /\ s.field = "values" /\ extra_info' = s.to
          /\ UNCHANGED <<file_infos, run_duration>>
       \/ /\ s.field = "duration" /\ run_duration' = s.to
          /\ UNCHANGED <<file_infos, extra_info>>
    /\ request' = Tail(request)
    /\ UNCHANGED <<pc_request, requests, asked, failures, run, pc_run>>
    /\ Requesting

\* The request is dropped; what it has set stays.
DropRequest ==
    /\ pc_request' = "idle" /\ request' = <<>>
    /\ UNCHANGED <<settings, requests, run, pc_run, asked>>
    /\ Requesting

\* The directory of a file cannot be made.
SettingThrows ==
    /\ pc_request = "setting" /\ request # <<>>
    /\ Head(request).field = "filename" /\ Fails
    /\ DropRequest

\* start_run launches the run and returns.
StartRun ==
    /\ pc_request = "setting" /\ request = <<>>
    /\ pc_run = "idle" /\ ~canceled
    /\ pc_run' = "launched" /\ run' = run + 1
    /\ asked' = Append(asked, requests)
    /\ pc_request' = "idle"
    /\ UNCHANGED <<settings, request, requests, failures>> /\ Requesting

StartRunThrows ==
    /\ pc_request = "setting" /\ request = <<>>
    /\ pc_run # "idle" \/ canceled
    /\ DropRequest /\ UNCHANGED failures

Request ==
    \/ NewRequest \/ ApplySetting \/ SettingThrows \/ StartRun \/ StartRunThrows

-----------------------------------------------------------------------------
(* The run.                                                                *)

Running == UNCHANGED <<settings, writers, request_vars, run, asked>>

\* Mutant: the first file's entry for all files.
HeaderOfFirst(f) ==
    [filename |-> file_infos[0].filename,
     description |-> file_infos[0].description,
     duration |-> run_duration]

\* What start_files writes to the header of file f.
Header(f) ==
    [filename |-> file_infos[f].filename,
     description |-> file_infos[f].description,
     duration |-> run_duration]

\* prepare_to_write gives the writers of the files up to last their file.
Prepared(last) ==
    [w \in Writers |->
        IF w \in writers /\ FileNum[w] <= last THEN run ELSE monarch_ptr[w]]

\* Mutant: the duration of the run before stays in the house.
StartFilesOldDuration ==
    /\ pc_run = "launched" /\ pc_run' = "running"
    /\ mw_ptrs' = [f \in Files |-> Header(f)]
    /\ monarch_ptr' = Prepared(NFiles - 1)
    /\ UNCHANGED <<house_duration, streaming, failures, finishing, canceled>>
    /\ Running

\* on_pre_run, start_files.
StartFiles ==
    /\ pc_run = "launched" /\ pc_run' = "running"
    /\ house_duration' = run_duration
    /\ mw_ptrs' = [f \in Files |-> Header(f)]
    /\ monarch_ptr' = Prepared(NFiles - 1)
    /\ UNCHANGED <<streaming, failures, finishing, canceled>>
    /\ Running

\* Making file f fails, before or after its wrapper is there: the files before
\* it are in use, those after it are null, and the nodes are cancelled.  The
\* exception is caught, so that the run goes on.
StartFilesFails ==
    /\ pc_run = "launched" /\ pc_run' = "running"
    /\ Fails
    /\ house_duration' = run_duration
    /\ \E f \in Files, made \in {0, 1} :
           /\ mw_ptrs' = [g \in Files |->
                  IF g < f + made THEN Header(g) ELSE NoFile]
           /\ monarch_ptr' = Prepared(f + made - 1)
    /\ canceled' = TRUE
    /\ UNCHANGED <<streaming, finishing>>
    /\ Running

\* on_post_run, finish_files: the mutex is locked from here on.
BeginFinishing ==
    /\ pc_run = "running" /\ pc_run' = "finishing"
    /\ finishing' = 0
    /\ UNCHANGED <<house_vars, streaming, failures, canceled>>
    /\ Running

\* The writers that still have a stream in the file being finished.
StillWriting ==
    {w \in Writers : FileNum[w] = finishing /\ <<w, run>> \in streaming}

\* Mutant: the streams are not waited for.
FinishFileNoWait ==
    /\ pc_run = "finishing"
    /\ mw_ptrs[finishing] # NoFile
    /\ IF finishing = NFiles - 1
       THEN mw_ptrs' = <<>> /\ pc_run' = "idle" /\ UNCHANGED finishing
       ELSE /\ mw_ptrs' = [mw_ptrs EXCEPT ![finishing] = NoFile]
            /\ finishing' = finishing + 1 /\ UNCHANGED pc_run
    /\ UNCHANGED <<house_duration, monarch_ptr, streaming, failures, canceled>>
    /\ Running

\* cancel, stop_using and finish_file; after the last file the pointers are
\* cleared and run control is idle.
FinishFile ==
    /\ pc_run = "finishing"
    /\ mw_ptrs[finishing] # NoFile /\ StillWriting = {}
    /\ IF finishing = NFiles - 1
       THEN mw_ptrs' = <<>> /\ pc_run' = "idle" /\ UNCHANGED finishing
       ELSE /\ mw_ptrs' = [mw_ptrs EXCEPT ![finishing] = NoFile]
            /\ finishing' = finishing + 1 /\ UNCHANGED pc_run
    /\ UNCHANGED <<house_duration, monarch_ptr, streaming, failures, canceled>>
    /\ Running

\* The first waiting time is over: a global cancellation.
CancelAll ==
    /\ pc_run = "finishing" /\ StillWriting # {}
    /\ mw_ptrs[finishing] # NoFile
    /\ ~canceled /\ canceled' = TRUE
    /\ UNCHANGED <<house_vars, streaming, failures, pc_run, finishing>>
    /\ Running

\* The second is over too, or the file cannot be closed: the rest of the files
\* stays as it is and the nodes are cancelled.
FinishFileThrows ==
    /\ pc_run = "finishing" /\ mw_ptrs[finishing] # NoFile
    /\ \/ canceled /\ StillWriting # {} /\ UNCHANGED failures
       \/ Fails
    /\ pc_run' = "error" /\ canceled' = TRUE
    /\ UNCHANGED <<house_vars, streaming, finishing>>
    /\ Running

\* A pointer start_files has left null is dereferenced.
FinishNull ==
    /\ pc_run = "finishing" /\ pc_run' = "crashed"
    /\ mw_ptrs[finishing] = NoFile
    /\ UNCHANGED <<house_vars, streaming, failures, finishing, canceled>>
    /\ Running

Run ==
    \/ StartFiles \/ StartFilesFails \/ BeginFinishing
    \/ FinishFile \/ CancelAll \/ FinishFileThrows \/ FinishNull

-----------------------------------------------------------------------------
(* Properties.                                                             *)

\* What setting s is about: one field, and for names and descriptions one file.
Replaces(s, t) ==
    /\ s.field = t.field
    /\ s.field \in {"filename", "description"} => s.file = t.file

\* Setting i of request k is not made again by the same request.
Made(k, i) ==
    \A j \in i + 1 .. Len(Requests[k]) : ~Replaces(Requests[k][j], Requests[k][i])

\* The value v is the one of setting i of the request of run r, or of a setting
\* of the same thing by a request that came after it.
SetFor(r, i, v) ==
    \/ v = Requests[asked[r]][i].to
    \/ \E k \in asked[r] + 1 .. requests :
           \E j \in DOMAIN Requests[k] :
               Replaces(Requests[k][j], Requests[asked[r]][i]) /\ v = Requests[k][j].to

\* The files of a run are named and described, and their headers give the
\* duration, as the request that started it says or one that came later: clients
\* do not wait, and a request after start_run may still reach start_files, but
\* nothing of an earlier request comes through.
FilesAsRequested ==
    pc_run = "running" /\ ~canceled =>
        \A i \in DOMAIN Requests[asked[run]] :
            LET s == Requests[asked[run]][i] IN
            Made(asked[run], i) =>
                /\ s.field \in {"filename", "description"} =>
                       SetFor(run, i, mw_ptrs[s.file][s.field])
                /\ s.field = "duration" =>
                       \A f \in Files : SetFor(run, i, mw_ptrs[f].duration)

=============================================================================
