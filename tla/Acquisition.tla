------------------------------ MODULE Acquisition ------------------------------
(***************************************************************************)
(* The path of the samples: the ATS9462 board, the run loop of             *)
(* src/source/daq/ATS9462_digitizer.cc, the stream of slots to the writer, *)
(* and the record numbering of src/source/daq/ats_streaming_writer.cc,     *)
(* under run control, which resumes and pauses the digitizer.              *)
(*                                                                         *)
(* A block is what fills one DMA buffer; blocks are numbered as the board  *)
(* digitizes them, the lost ones included, so that a gap in what a file    *)
(* holds can be seen.  The transform nodes between digitizer and writer    *)
(* pass commands and chunk counters through in order: the stream stands    *)
(* for all the slots in between.                                           *)
(***************************************************************************)
EXTENDS Naturals, Sequences

CONSTANTS
    DmaBuffers,     \* f_dma_buffer_count
    OutLength,      \* slots between the digitizer and the writer
    BuffersPerRun,  \* buffers_per_acquisition()
    CounterLimit,   \* UINT_MAX + 1
    MaxRuns,        \* bound: runs
    MaxOverruns,    \* bound: times the board runs out of buffers
    MaxFailures,    \* bound: Alazar calls that fail for another reason
    LateStart       \* may a run end before the writer has seen its s_start?

ASSUME AcquisitionAssumption ==
    /\ DmaBuffers \in Nat \ {0} /\ OutLength \in Nat \ {0}
    /\ CounterLimit \in Nat
    /\ BuffersPerRun \in 1 .. CounterLimit - 1
    /\ MaxRuns \in Nat /\ MaxOverruns \in Nat /\ MaxFailures \in Nat
    /\ LateStart \in BOOLEAN

VARIABLES
    board,              \* "idle", "capturing" or "overflown"
    posted,             \* buffers the board may fill, in order
    full,               \* [buffer, block, run] filled and not yet waited for
    allocated,          \* f_board_buffers.size(): the buffers below it exist
    block,              \* number of the block now being digitized
    overruns, failures, \* counted against their bounds
    instruction,        \* the digitizer's instruction cell
    paused,             \* f_paused
    buffers_completed,  \* f_buffers_completed
    chunk_counter,      \* f_chunk_counter
    overrun_collected,  \* f_overrun_collected
    next_read_buffer,   \* f_next_read_buffer
    this_buffer,        \* the filled buffer process_a_buffer works on
    pc_digitizer,
    out,                \* commands and data between digitizer and writer
    swrap,              \* t_swrap_ptr: the run whose file it is in, 0 if null
    start_file,         \* t_start_file_with_next_data
    last_pkt,           \* f_last_pkt_in_batch
    records,            \* records written, in order
    pc_writer,
    run, pc_control,    \* number of the current run, and where it is
    stop_requested,     \* stop_run() has been called
    canceled            \* the nodes are cancelled

board_vars  == <<board, posted, full, allocated, block>>
read_vars   == <<chunk_counter, overrun_collected, next_read_buffer>>
writer_vars == <<swrap, start_file, last_pkt, records, pc_writer>>
digitizer_vars == <<paused, buffers_completed, read_vars, this_buffer,
                    pc_digitizer>>
control_vars   == <<run, pc_control, stop_requested, canceled>>
vars == <<board_vars, overruns, failures, instruction, digitizer_vars, out,
          writer_vars, control_vars>>

NoData == [buffer |-> 0, block |-> 0, run |-> 0]

Init ==
    /\ board = "idle" /\ posted = <<>> /\ full = <<>> /\ allocated = 0 /\ block = 1
    /\ overruns = 0 /\ failures = 0
    /\ instruction = "none"
    /\ paused = TRUE /\ buffers_completed = 0
    /\ chunk_counter = 0 /\ overrun_collected = 0 /\ next_read_buffer = 0
    /\ this_buffer = NoData /\ pc_digitizer = "configure"
    /\ out = <<>>
    /\ swrap = 0 /\ start_file = FALSE /\ last_pkt = 0 /\ records = <<>>
    /\ pc_writer = "loop"
    /\ run = 0 /\ pc_control = "idle" /\ stop_requested = FALSE
    /\ canceled = FALSE

Increment(counter) == (counter + 1) % CounterLimit

-----------------------------------------------------------------------------
(* The board, as the Alazar calls in ATS9462_digitizer.cc use it.          *)

FillBuffer ==
    /\ board = "capturing" /\ posted # <<>>
    /\ full' = Append(full, [buffer |-> Head(posted), block |-> block,
                             run |-> run])
    /\ posted' = Tail(posted)
    /\ block' = block + 1
    /\ UNCHANGED <<board, allocated, overruns>>

\* The block finds no buffer and is lost; the board accepts no more buffers
\* until the next AlazarBeforeAsyncRead.
Overflow ==
    /\ board = "capturing" /\ posted = <<>>
    /\ overruns < MaxOverruns /\ overruns' = overruns + 1
    /\ board' = "overflown"
    /\ block' = block + 1
    /\ UNCHANGED <<posted, full, allocated>>

Board ==
    /\ FillBuffer \/ Overflow
    /\ UNCHANGED <<failures, instruction, digitizer_vars, out, writer_vars,
                   control_vars>>

AbortAsyncRead ==
    /\ board' = "idle" /\ posted' = <<>> /\ full' = <<>>
    /\ UNCHANGED <<allocated, block>>

-----------------------------------------------------------------------------
(* ats9462_digitizer::execute.                                             *)

DigitizerGoes(from, to) == pc_digitizer = from /\ pc_digitizer' = to

PushOut(slot) == Len(out) < OutLength /\ out' = Append(out, slot)

\* Mutant: the read position is kept when all buffers are posted again.
CommenceKeepPosition ==
    /\ board' = "capturing"
    /\ posted' = [i \in 1 .. DmaBuffers |-> i - 1] /\ full' = <<>>
    /\ overrun_collected' = 0
    /\ UNCHANGED <<allocated, block, next_read_buffer>>

\* commence_buffer_collection: every buffer is posted, in order.
Commence ==
    /\ board' = "capturing"
    /\ posted' = [i \in 1 .. DmaBuffers |-> i - 1] /\ full' = <<>>
    /\ overrun_collected' = 0 /\ next_read_buffer' = 0
    /\ UNCHANGED <<allocated, block>>

\* What an iteration of the loop does not touch unless it says so.
Untouched == <<instruction, paused, buffers_completed, this_buffer, stop_requested>>

\* configure_board: the clock, the input, the trigger and the auxiliary output
\* are set, before any node runs.
Configure ==
    /\ DigitizerGoes("configure", "allocate")
    /\ UNCHANGED <<board_vars, failures, read_vars, out, Untouched>>

\* One of its calls fails, or the rate or range is not in its table.
ConfigureThrows ==
    /\ DigitizerGoes("configure", "done")
    /\ failures < MaxFailures /\ failures' = failures + 1
    /\ UNCHANGED <<board_vars, read_vars, out, Untouched>>

\* allocate_buffers, one by one.
AllocateBuffer ==
    /\ pc_digitizer = "allocate" /\ allocated < DmaBuffers
    /\ allocated' = allocated + 1
    /\ UNCHANGED <<pc_digitizer, board, posted, full, block, failures,
                   read_vars, out, Untouched>>

\* There is no memory for the next one: those before it are freed, unless the
\* abort that goes first fails too.
AllocateThrows ==
    /\ DigitizerGoes("allocate", "done") /\ allocated < DmaBuffers
    /\ failures < MaxFailures /\ failures' = failures + 1
    /\ allocated' \in {0, allocated}
    /\ UNCHANGED <<board, posted, full, block, read_vars, out, Untouched>>

Initialized ==
    /\ DigitizerGoes("allocate", "check") /\ allocated = DmaBuffers
    /\ UNCHANGED <<board_vars, failures, read_vars, out, Untouched>>

LeaveLoop ==
    /\ canceled /\ DigitizerGoes("check", "done")
    /\ UNCHANGED <<board_vars, failures, read_vars, out, Untouched>>

\* An instruction that does not fit the state is only warned about.
TakeInstruction ==
    /\ ~canceled
    /\ instruction # "none" /\ instruction' = "none"
    /\ DigitizerGoes("check",
           IF paused /\ instruction = "resume" THEN "start"
           ELSE IF ~paused /\ instruction = "pause" THEN "stop"
           ELSE "read")
    /\ UNCHANGED <<board_vars, failures, paused, buffers_completed, read_vars,
                   this_buffer, out, stop_requested>>

\* Without an instruction a paused digitizer only polls: a stutter.
NoInstruction ==
    /\ ~canceled /\ instruction = "none" /\ ~paused
    /\ DigitizerGoes("check", "read")
    /\ UNCHANGED <<board_vars, failures, read_vars, out, Untouched>>

\* Mutant: the board is not started.
ResumeWithoutBoard ==
    /\ DigitizerGoes("start", "read")
    /\ PushOut([command |-> "s_start"])
    /\ buffers_completed' = 0 /\ chunk_counter' = 0
    /\ paused' = FALSE
    /\ UNCHANGED <<board_vars, failures, instruction, overrun_collected,
                   next_read_buffer, this_buffer, stop_requested>>

\* process_instructions, resume.
Resume ==
    /\ DigitizerGoes("start", "read")
    /\ PushOut([command |-> "s_start"])
    /\ buffers_completed' = 0 /\ chunk_counter' = 0
    /\ paused' = FALSE
    /\ Commence
    /\ UNCHANGED <<failures, instruction, this_buffer, stop_requested>>

\* A call of commence_buffer_collection fails: s_start is already out, and some
\* buffers may be posted to the board, which has not started.
ResumeThrows ==
    /\ DigitizerGoes("start", "done")
    /\ PushOut([command |-> "s_start"])
    /\ buffers_completed' = 0 /\ chunk_counter' = 0
    /\ paused' = FALSE
    /\ failures < MaxFailures /\ failures' = failures + 1
    /\ \/ UNCHANGED <<posted, overrun_collected, next_read_buffer>>
       \/ \E n \in 0 .. DmaBuffers :
             /\ posted' = [i \in 1 .. n |-> i - 1]
             /\ overrun_collected' = 0
             /\ next_read_buffer' = IF n = DmaBuffers THEN 0 ELSE next_read_buffer
    /\ UNCHANGED <<board, full, allocated, block, instruction, this_buffer,
                   stop_requested>>

\* Mutant: no s_stop for the nodes downstream.
PauseSilently ==
    /\ DigitizerGoes("stop", "read")
    /\ paused' = TRUE
    /\ AbortAsyncRead
    /\ UNCHANGED <<out, failures, instruction, buffers_completed, read_vars,
                   this_buffer, stop_requested>>

\* process_instructions, pause.
Pause ==
    /\ DigitizerGoes("stop", "read")
    /\ PushOut([command |-> "s_stop"])
    /\ paused' = TRUE
    /\ AbortAsyncRead
    /\ UNCHANGED <<failures, instruction, buffers_completed, read_vars,
                   this_buffer, stop_requested>>

\* The abort fails: s_stop is already out.
PauseThrows ==
    /\ DigitizerGoes("stop", "done")
    /\ PushOut([command |-> "s_stop"])
    /\ paused' = TRUE
    /\ failures < MaxFailures /\ failures' = failures + 1
    /\ UNCHANGED <<board_vars, instruction, buffers_completed, read_vars,
                   this_buffer, stop_requested>>

\* Once the nodes are cancelled the stream may refuse a command: data are
\* dropped with a message, s_start and s_stop make the node throw.
PushFails ==
    /\ canceled
    /\ \/ DigitizerGoes("push", "return")
       \/ DigitizerGoes("start", "done") \/ DigitizerGoes("stop", "done")
    /\ UNCHANGED <<board_vars, failures, read_vars, out, Untouched>>

\* The rest of the iteration when paused.
SkipRead ==
    /\ paused /\ DigitizerGoes("read", "check")
    /\ UNCHANGED <<board_vars, failures, read_vars, out, Untouched>>

\* Mutant: one buffer too many.
MoreThanCompleted == buffers_completed > BuffersPerRun

AllCompleted == buffers_completed >= BuffersPerRun

\* Mutant: nobody is told that the buffers are there.
StopReading ==
    /\ ~paused /\ AllCompleted
    /\ DigitizerGoes("read", "check")
    /\ AbortAsyncRead
    /\ UNCHANGED <<failures, read_vars, out, Untouched>>

\* All requested buffers are there: stop_run() and no more reads; repeated
\* until the pause comes.
StopRun ==
    /\ ~paused /\ AllCompleted
    /\ DigitizerGoes("read", "check")
    /\ stop_requested' = TRUE
    /\ AbortAsyncRead
    /\ UNCHANGED <<failures, instruction, paused, buffers_completed, read_vars,
                   this_buffer, out>>

\* The abort fails: stop_run() has been called.
StopRunThrows ==
    /\ ~paused /\ AllCompleted
    /\ DigitizerGoes("read", "done")
    /\ stop_requested' = TRUE
    /\ failures < MaxFailures /\ failures' = failures + 1
    /\ UNCHANGED <<board_vars, instruction, paused, buffers_completed, read_vars,
                   this_buffer, out>>

\* process_a_buffer: AlazarWaitAsyncBufferComplete on the next buffer.
WaitBuffer ==
    /\ ~paused /\ ~AllCompleted
    /\ full # <<>> /\ Head(full).buffer = next_read_buffer % DmaBuffers
    /\ DigitizerGoes("read", "push")
    /\ this_buffer' = Head(full) /\ full' = Tail(full)
    /\ next_read_buffer' = next_read_buffer + 1
    /\ UNCHANGED <<board, posted, allocated, block, failures, instruction, paused,
                   buffers_completed, chunk_counter, overrun_collected, out,
                   stop_requested>>

\* The buffer does not come within 5 s, or an Alazar call fails.
CallThrows ==
    /\ \/ ~paused /\ ~AllCompleted /\ DigitizerGoes("read", "done")
       \/ DigitizerGoes("return", "done")
    /\ failures < MaxFailures /\ failures' = failures + 1
    /\ UNCHANGED <<board_vars, read_vars, out, Untouched>>

PushData ==
    /\ DigitizerGoes("push", "return")
    /\ PushOut([command |-> "s_run", chunk |-> chunk_counter,
                block |-> this_buffer.block, run |-> this_buffer.run])
    /\ UNCHANGED <<board_vars, failures, read_vars, Untouched>>

\* The buffer goes back to the board.
PostBuffer ==
    /\ DigitizerGoes("return", "check")
    /\ overrun_collected = 0 /\ board = "capturing"
    /\ posted' = Append(posted, this_buffer.buffer)
    /\ buffers_completed' = buffers_completed + 1
    /\ chunk_counter' = Increment(chunk_counter)
    /\ UNCHANGED <<board, full, allocated, block, failures, instruction, paused,
                   overrun_collected, next_read_buffer, this_buffer, out,
                   stop_requested>>

\* With this buffer all buffers are collected.
RingCollected == overrun_collected + 1 = DmaBuffers

\* The board does not take the buffer back, or did not take an earlier one:
\* the filled buffers are collected without being returned.
CollectBuffer ==
    /\ DigitizerGoes("return", "check")
    /\ overrun_collected > 0 \/ board = "overflown"
    /\ ~RingCollected
    /\ overrun_collected' = overrun_collected + 1
    /\ buffers_completed' = buffers_completed + 1
    /\ chunk_counter' = Increment(chunk_counter)
    /\ UNCHANGED <<board_vars, failures, instruction, paused, next_read_buffer,
                   this_buffer, out, stop_requested>>

\* Mutant: the gap is not counted.
RestartSameCounter ==
    /\ DigitizerGoes("return", "check")
    /\ overrun_collected > 0 \/ board = "overflown"
    /\ RingCollected
    /\ Commence
    /\ buffers_completed' = buffers_completed + 1
    /\ chunk_counter' = Increment(chunk_counter)
    /\ UNCHANGED <<failures, instruction, paused, this_buffer, out,
                   stop_requested>>

\* One chunk number is left out, and the board starts afresh.
Restart ==
    /\ DigitizerGoes("return", "check")
    /\ overrun_collected > 0 \/ board = "overflown"
    /\ RingCollected
    /\ Commence
    /\ buffers_completed' = buffers_completed + 1
    /\ chunk_counter' = Increment(Increment(chunk_counter))
    /\ UNCHANGED <<failures, instruction, paused, this_buffer, out,
                   stop_requested>>

\* The nodes are destroyed when all have ended.
NodesEnded == pc_writer # "loop" /\ pc_control \in {"idle", "failed"}

\* Mutant: the board may still be writing when the buffers are freed.
ClearWithoutAbort ==
    /\ \/ DigitizerGoes("done", "free")
       \/ NodesEnded /\ DigitizerGoes("finalized", "free_last")
    /\ UNCHANGED <<board_vars, failures, read_vars, out, Untouched>>

\* clear_buffers, from finalize after the loop or an exception that cancels the
\* other nodes, and once more from the destructor: the board is stopped ...
ClearAbort ==
    /\ \/ DigitizerGoes("done", "free")
       \/ NodesEnded /\ DigitizerGoes("finalized", "free_last")
    /\ AbortAsyncRead
    /\ UNCHANGED <<failures, read_vars, out, Untouched>>

\* ... and the buffers are freed.
FreeBuffers ==
    /\ \/ DigitizerGoes("free", "finalized")
       \/ DigitizerGoes("free_last", "destroyed")
    /\ allocated' = 0
    /\ UNCHANGED <<board, posted, full, block, failures, read_vars, out, Untouched>>

\* The abort fails: no buffer is freed.  An exception out of the destructor
\* ends the program.
ClearThrows ==
    /\ \/ DigitizerGoes("done", "finalized")
       \/ NodesEnded /\ DigitizerGoes("finalized", "terminated")
    /\ failures < MaxFailures /\ failures' = failures + 1
    /\ UNCHANGED <<board_vars, read_vars, out, Untouched>>

Digitizer ==
    /\ \/ Configure \/ ConfigureThrows \/ AllocateBuffer \/ AllocateThrows
       \/ Initialized \/ LeaveLoop \/ TakeInstruction \/ NoInstruction \/ Resume
       \/ ResumeThrows \/ Pause \/ PauseThrows \/ PushFails \/ SkipRead \/ StopRun
       \/ StopRunThrows \/ WaitBuffer \/ CallThrows \/ PushData \/ PostBuffer
       \/ CollectBuffer \/ Restart \/ ClearAbort \/ FreeBuffers \/ ClearThrows
    /\ canceled' = (canceled \/ pc_digitizer' = "done")
    /\ UNCHANGED <<overruns, writer_vars, run, pc_control>>

-----------------------------------------------------------------------------
(* ats_streaming_writer::execute.                                          *)

\* The writer takes the next command from its stream.
Takes(command) ==
    /\ pc_writer = "loop" /\ ~canceled
    /\ out # <<>> /\ Head(out).command = command
    /\ out' = Tail(out)

\* get_stream is refused once the file of the run has been finished.
WriterStart ==
    /\ Takes("s_start")
    /\ \/ /\ pc_control # "idle"
          /\ swrap' = run /\ start_file' = TRUE
          /\ UNCHANGED <<pc_writer, canceled>>
       \/ /\ pc_control = "idle"
          /\ pc_writer' = "dead" /\ canceled' = TRUE /\ swrap' = 0
          /\ UNCHANGED start_file
    /\ UNCHANGED <<failures, last_pkt, records>>

\* The number that continues the batch; UINT_MAX is treated as the wrap.
ExpectedPacket ==
    IF Increment(last_pkt) >= CounterLimit - 1 THEN 0 ELSE Increment(last_pkt)

\* write_record with t_is_new_acquisition set for the first record of a run
\* and after a gap in the chunk counters.
WriterRun ==
    /\ Takes("s_run")
    /\ swrap # 0
    /\ LET data == Head(out) IN
       /\ records' = Append(records,
              [file |-> swrap, id |-> data.chunk, block |-> data.block,
               run |-> data.run,
               new |-> start_file \/ data.chunk # ExpectedPacket])
       /\ last_pkt' = data.chunk
    /\ start_file' = FALSE
    /\ UNCHANGED <<failures, swrap, pc_writer, canceled>>

\* write_record returns false, or throws.
WriterRunThrows ==
    /\ Takes("s_run")
    /\ failures < MaxFailures /\ failures' = failures + 1
    /\ pc_writer' = "dead" /\ canceled' = TRUE
    /\ UNCHANGED <<swrap, start_file, last_pkt, records>>

\* finish_stream, if there is a stream.
WriterStop ==
    /\ Takes("s_stop")
    /\ swrap' = 0
    /\ UNCHANGED <<failures, start_file, last_pkt, records, pc_writer, canceled>>

\* The loop is left by cancellation; the stream is finished after it.
WriterCanceled ==
    /\ canceled /\ pc_writer = "loop" /\ pc_writer' = "done"
    /\ swrap' = 0
    /\ UNCHANGED <<out, failures, start_file, last_pkt, records, canceled>>

Writer ==
    /\ \/ WriterStart \/ WriterRun \/ WriterRunThrows \/ WriterStop
       \/ WriterCanceled
    /\ UNCHANGED <<board_vars, overruns, instruction, digitizer_vars, run,
                   pc_control, stop_requested>>

-----------------------------------------------------------------------------
(* Run control, as daq_control's callbacks and stop_run see it.            *)

\* start_files gives the writer the file of the run, then the nodes are
\* resumed; the instruction cell holds one instruction.  Runs begin when all
\* nodes are initialized.
StartRun ==
    /\ pc_digitizer \notin {"configure", "allocate"}
    /\ pc_control = "idle" /\ pc_control' = "running"
    /\ run < MaxRuns /\ run' = run + 1
    /\ ~canceled
    /\ instruction' = "resume"
    /\ stop_requested' = FALSE
    /\ UNCHANGED canceled

\* The duration is over, or stop_run or a user asks for the end.
EndRun ==
    /\ pc_control = "running" /\ pc_control' = "finishing"
    /\ LateStart \/ swrap = run \/ canceled
    /\ instruction' = "pause"
    /\ UNCHANGED <<run, stop_requested, canceled>>

\* Mutant: the files are finished under the writer.
FinishFilesNoWait ==
    /\ pc_control = "finishing" /\ pc_control' = "idle"
    /\ UNCHANGED <<instruction, run, stop_requested, canceled>>

\* on_post_run: finish_file has waited for the writer to finish its stream.
FinishFiles ==
    /\ pc_control = "finishing" /\ pc_control' = "idle"
    /\ swrap = 0
    /\ UNCHANGED <<instruction, run, stop_requested, canceled>>

\* ... or given up: the error path of on_post_run cancels the nodes.
FinishFilesFails ==
    /\ pc_control = "finishing" /\ pc_control' = "failed"
    /\ swrap # 0
    /\ canceled' = TRUE
    /\ UNCHANGED <<instruction, run, stop_requested>>

Cancel ==
    /\ ~canceled /\ canceled' = TRUE
    /\ UNCHANGED <<instruction, run, pc_control, stop_requested>>

RunControl ==
    /\ StartRun \/ EndRun \/ FinishFiles \/ FinishFilesFails \/ Cancel
    /\ UNCHANGED <<board_vars, overruns, failures, digitizer_vars, out,
                   writer_vars>>

-----------------------------------------------------------------------------
Next == Board \/ Digitizer \/ Writer \/ RunControl

Spec == Init /\ [][Next]_vars

\* The board samples on, the two nodes and run control are scheduled; that a
\* run ends is granted only when its end has been asked for.
FairSpec ==
    /\ Spec
    /\ WF_vars(Board) /\ WF_vars(Digitizer) /\ WF_vars(Writer)
    /\ WF_vars(stop_requested /\ EndRun /\ RunControl)
    /\ WF_vars(FinishFiles /\ RunControl)

-----------------------------------------------------------------------------
(* Properties.                                                             *)

Buffer  == 0 .. DmaBuffers - 1
Counter == 0 .. CounterLimit - 1
Data    == [buffer : Buffer, block : Nat, run : Nat]
Slot    == [command : {"s_start", "s_stop"}] \cup
           [command : {"s_run"}, chunk : Counter, block : Nat, run : Nat]
Record  == [file : Nat, id : Counter, block : Nat, run : Nat, new : BOOLEAN]

BoardTypeOK ==
    /\ board \in {"idle", "capturing", "overflown"}
    /\ posted \in Seq(Buffer) /\ full \in Seq(Data)
    /\ allocated \in 0 .. DmaBuffers /\ block \in Nat
    /\ overruns \in 0 .. MaxOverruns /\ failures \in 0 .. MaxFailures

DigitizerTypeOK ==
    /\ instruction \in {"none", "resume", "pause"}
    /\ paused \in BOOLEAN
    /\ buffers_completed \in 0 .. BuffersPerRun
    /\ chunk_counter \in Counter
    /\ overrun_collected \in Buffer
    /\ next_read_buffer \in Nat
    /\ this_buffer \in Data
    /\ pc_digitizer \in {"configure", "allocate", "check", "start", "stop",
                         "read", "push", "return", "done", "free", "finalized",
                         "free_last", "destroyed", "terminated"}

WriterTypeOK ==
    /\ out \in Seq(Slot) /\ Len(out) <= OutLength
    /\ swrap \in Nat /\ start_file \in BOOLEAN
    /\ last_pkt \in Counter
    /\ records \in Seq(Record)
    /\ pc_writer \in {"loop", "dead", "done"}

ControlTypeOK ==
    /\ run \in 0 .. MaxRuns
    /\ pc_control \in {"idle", "running", "finishing", "failed"}
    /\ stop_requested \in BOOLEAN /\ canceled \in BOOLEAN

\* The counters stay within their bounds, the stream within its slots, and
\* every variable takes only the values the code can give it.
TypeOK == BoardTypeOK /\ DigitizerTypeOK /\ WriterTypeOK /\ ControlTypeOK

\* Where the digitizer is in the loop of execute.
InLoop == {"check", "start", "stop", "read", "push", "return"}

\* The buffer the digitizer holds between the wait and the return.
Held == IF pc_digitizer \in {"push", "return"} THEN 1 ELSE 0

\* The digitizer always waits for the buffer the board completes next, and
\* the buffer it copies is not one the board may write to; no DMA buffer is
\* lost from the ring, over wraps, overruns, restarts and further runs.
DmaRingInOrder ==
    board # "idle" /\ pc_digitizer \in InLoop =>
        /\ \A i \in 1 .. Len(full) :
               full[i].buffer = (next_read_buffer + i - 1) % DmaBuffers
        /\ \A i \in 1 .. Len(posted) :
               posted[i] = (next_read_buffer + Len(full) + i - 1) % DmaBuffers
        /\ Len(full) + Len(posted) + Held + overrun_collected = DmaBuffers

\* Whatever fails while the buffers are allocated, used and freed: the board
\* fills and the digitizer copies only memory that is allocated.
DmaMemoryLive ==
    /\ \A i \in 1 .. Len(posted) : posted[i] < allocated
    /\ \A i \in 1 .. Len(full) : full[i].buffer < allocated
    /\ Held = 1 => this_buffer.buffer < allocated

\* A buffer the digitizer waits for will come: it is filled, or the board is
\* still filling buffers.
NeverStarved ==
    pc_digitizer = "read" /\ ~paused /\ ~AllCompleted =>
        full # <<>> \/ (board = "capturing" /\ posted # <<>>)

\* A record begins a new acquisition exactly where samples are lost before it:
\* no gap goes unmarked, and no acquisition is broken up without one.
AcquisitionsMarked ==
    \A i \in 2 .. Len(records) :
        LET p == records[i - 1]  q == records[i] IN
        p.file = q.file => (q.new <=> q.block # p.block + 1)

\* When a run is over, its file has the buffers completed in it, none lost on
\* the way, none twice, in the order they were digitized, and nothing else; and
\* they are as many as asked for when the digitizer has ended the run itself.
RunIsWhole ==
    pc_control = "idle" /\ run > 0 /\ ~canceled =>
        /\ buffers_completed <= Len(records)
        /\ \A i \in 1 .. Len(records) :
               records[i].file = run <=> i + buffers_completed > Len(records)
        /\ \A i \in 2 .. Len(records) : records[i - 1].block < records[i].block
        /\ stop_requested => buffers_completed = BuffersPerRun

\* Data only reach a writer whose stream is in the file of their own run.
DataInOwnFile ==
    pc_writer = "loop" /\ out # <<>> /\ Head(out).command = "s_run" =>
        swrap = Head(out).run

\* However often the board overruns, a started run delivers its buffers or is
\* ended from outside.
RunCompletes ==
    ~paused ~> (stop_requested \/ paused \/ pc_digitizer \notin InLoop)

\* Ending a run ends: the pause goes through the nodes to the writer, which
\* finishes its stream.
RunsFinish == pc_control = "finishing" ~> (pc_control = "idle" \/ canceled)

=============================================================================
