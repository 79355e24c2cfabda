----------------------------- MODULE SpectrumPath -----------------------------
(***************************************************************************)
(* A run on its way through the nodes: digitizer, frequency_transform,     *)
(* and from there the spectra through power_averager to spectrum_relay,    *)
(* the data to the writers; under the run control of DaqControl.           *)
(*                                                                         *)
(* A node takes a slot from its stream, works on it and sets the slot of   *)
(* its output, waiting for room.  frequency_transform has one output that  *)
(* two nodes read: it waits for both.  The inverse transform between it    *)
(* and the writers passes everything on in order and is left out.  A chunk *)
(* of data is known by its run and its number in the run.                  *)
(***************************************************************************)
EXTENDS DaqControl

CONSTANTS
    NumToAverage,   \* num-to-average
    TimeLength,     \* slots behind the digitizer
    FreqLength,     \* freq-length: slots behind frequency_transform
    OutLength,      \* num-output-buffers of power_averager
    MaxChunks       \* bound: chunks of data between an s_start and its s_stop

ASSUME PathAssumption ==
    /\ NumToAverage \in Nat /\ MaxChunks \in Nat
    /\ TimeLength \in Nat \ {0}
    /\ FreqLength \in Nat \ {0} /\ OutLength \in Nat \ {0}

VARIABLES
    source,             \* the run the digitizer was resumed for, 0 when paused
    sent,               \* the last chunk it has sent
    fft_in, avg_in, relay_in,
    writer_in,          \* the stream of each writer
    pc_fft, pc_avg, pc_relay,
    average,            \* the chunks summed up in f_average_spectrum
    f_input_counter,
    spectrum,           \* the chunks of the spectrum sent last
    broadcast,          \* the payload of the last broadcast, or of the next
    swrap,              \* the run of each writer's t_swrap_ptr, 0 for none
    pc_writer

source_vars  == <<source, sent>>
avg_vars     == <<pc_avg, average, f_input_counter, spectrum>>
writer_vars  == <<swrap, pc_writer>>
path_vars    == <<source_vars, fft_in, pc_fft, avg_in, avg_vars, relay_in,
                  pc_relay, broadcast, writer_in, writer_vars>>
vars == <<control_vars, path_vars>>

\* Before the first spectrum.
NoChunk == [run |-> 0, number |-> 0]

PathInit ==
    /\ source = 0 /\ sent = NoChunk
    /\ fft_in = <<>> /\ avg_in = <<>> /\ relay_in = <<>>
    /\ writer_in = [w \in Writers |-> <<>>]
    /\ pc_fft = "loop" /\ pc_avg = "loop" /\ pc_relay = "loop"
    /\ average = <<>> /\ f_input_counter = 0 /\ spectrum = <<NoChunk>>
    /\ broadcast = [chunk |-> NoChunk, notes |-> 0, duration |-> 0, freq_lo |-> 0]
    /\ swrap = [w \in Writers |-> 0]
    /\ pc_writer = [w \in Writers |-> "loop"]

Init == ControlInit /\ PathInit

Command(c) == [command |-> c]
Data(chunk) == [command |-> "s_run", chunk |-> chunk]

-----------------------------------------------------------------------------
(* The digitizer, as Acquisition has it: it resumes with the run, sends    *)
(* numbered chunks, and pauses some time after the end is asked for.  Its  *)
(* one instruction is the resume while a run goes on, the pause otherwise. *)
(* A run that ends first finds it paused still; a run that begins first    *)
(* finds it sending still, and it goes on, without an s_start.             *)

PushIn(slot) == Len(fft_in) < TimeLength /\ fft_in' = Append(fft_in, slot)

NextNumber == IF sent.run = source THEN sent.number + 1 ELSE 1

Source ==
    /\ \/ /\ source = 0 /\ pc_run = "running" /\ source' = run
          /\ PushIn(Command("s_start")) /\ UNCHANGED sent
       \/ /\ source # 0 /\ NextNumber <= MaxChunks
          /\ sent' = [run |-> source, number |-> NextNumber]
          /\ PushIn(Data(sent')) /\ UNCHANGED source
       \/ /\ source # 0 /\ pc_run # "running" /\ source' = 0
          /\ PushIn(Command("s_stop")) /\ UNCHANGED sent
    /\ ~canceled
    /\ UNCHANGED <<control_vars, pc_fft, avg_in, avg_vars, relay_in, pc_relay,
                   broadcast, writer_in, writer_vars>>

-----------------------------------------------------------------------------
(* frequency_transform::execute.                                           *)

PushSpectrum(slot) ==
    /\ Len(avg_in) < FreqLength /\ avg_in' = Append(avg_in, slot)
    /\ \A w \in Writers : Len(writer_in[w]) < FreqLength
    /\ writer_in' = [w \in Writers |-> Append(writer_in[w], slot)]

FftUnchanged ==
    UNCHANGED <<control_vars, source_vars, avg_vars, relay_in, pc_relay,
                broadcast, writer_vars>>

\* Mutant: a start is not passed on.
FftKeepStart ==
    /\ pc_fft = "loop" /\ ~canceled /\ fft_in # <<>>
    /\ \/ Head(fft_in).command # "s_start" /\ PushSpectrum(Head(fft_in))
       \/ Head(fft_in).command = "s_start" /\ UNCHANGED <<avg_in, writer_in>>
    /\ fft_in' = Tail(fft_in)
    /\ UNCHANGED pc_fft
    /\ FftUnchanged

\* s_start, s_stop and data: passed on, the data transformed.
FftPass ==
    /\ pc_fft = "loop" /\ ~canceled /\ fft_in # <<>>
    /\ PushSpectrum(Head(fft_in))
    /\ fft_in' = Tail(fft_in)
    /\ UNCHANGED pc_fft
    /\ FftUnchanged

\* The loop is left by cancellation: s_stop and s_exit, if the stream still
\* takes them.
FftExit ==
    /\ pc_fft = "loop" /\ canceled /\ pc_fft' = "done"
    /\ \/ UNCHANGED <<avg_in, writer_in>>
       \/ PushSpectrum(Command("s_stop"))
       \/ /\ Len(avg_in) + 1 < FreqLength
          /\ \A w \in Writers : Len(writer_in[w]) + 1 < FreqLength
          /\ avg_in' = avg_in \o <<Command("s_stop"), Command("s_exit")>>
          /\ writer_in' = [w \in Writers |->
                 writer_in[w] \o <<Command("s_stop"), Command("s_exit")>>]
    /\ UNCHANGED fft_in
    /\ FftUnchanged

Fft == FftPass \/ FftExit

-----------------------------------------------------------------------------
(* power_averager::execute.                                                *)

AvgUnchanged ==
    UNCHANGED <<control_vars, source_vars, fft_in, pc_fft, pc_relay, broadcast,
                writer_in, writer_vars>>

PushOut(slot) == Len(relay_in) < OutLength /\ relay_in' = Append(relay_in, slot)

AvgTakes(command) ==
    /\ pc_avg = "loop" /\ ~canceled /\ avg_in # <<>>
    /\ Head(avg_in).command = command
    /\ avg_in' = Tail(avg_in)

\* Mutant: the sum is not filled with 0 after it is copied.
SendOutputKept(group) ==
    /\ PushOut([command |-> "s_run", group |-> group])
    /\ spectrum' = group
    /\ average' = group /\ f_input_counter' = 0

\* send_output.
SendOutput(group) ==
    /\ PushOut([command |-> "s_run", group |-> group])
    /\ spectrum' = group
    /\ average' = <<>> /\ f_input_counter' = 0

\* handle_start.
AvgStart ==
    /\ AvgTakes("s_start")
    /\ PushOut(Command("s_start"))
    /\ average' = <<>> /\ f_input_counter' = 0
    /\ UNCHANGED <<pc_avg, spectrum>>
    /\ AvgUnchanged

\* handle_run: with num-to-average 0 nothing is sent before the s_stop.
AvgRun ==
    /\ AvgTakes("s_run")
    /\ LET group == Append(average, Head(avg_in).chunk) IN
       IF f_input_counter + 1 = NumToAverage
       THEN SendOutput(group)
       ELSE /\ average' = group /\ f_input_counter' = f_input_counter + 1
            /\ UNCHANGED <<relay_in, spectrum>>
    /\ UNCHANGED pc_avg
    /\ AvgUnchanged

\* Mutant: only full spectra are sent.
AvgStopFullOnly ==
    /\ AvgTakes("s_stop")
    /\ pc_avg' = "stop"
    /\ UNCHANGED <<relay_in, average, f_input_counter, spectrum>>
    /\ AvgUnchanged

\* handle_stop: what has been summed up so far goes out ...
AvgStop ==
    /\ AvgTakes("s_stop")
    /\ pc_avg' = "stop"
    /\ IF f_input_counter > 0
       THEN SendOutput(average)
       ELSE UNCHANGED <<relay_in, average, f_input_counter, spectrum>>
    /\ AvgUnchanged

\* ... and then the s_stop.
AvgStopped ==
    /\ pc_avg = "stop" /\ pc_avg' = "loop"
    /\ PushOut(Command("s_stop"))
    /\ UNCHANGED <<avg_in, average, f_input_counter, spectrum>>
    /\ AvgUnchanged

\* No command ends the loop, s_exit neither; a stream that refuses after the
\* cancellation does, like the cancellation itself.
AvgExit ==
    /\ canceled /\ pc_avg # "done" /\ pc_avg' = "done"
    /\ UNCHANGED <<avg_in, relay_in, average, f_input_counter, spectrum>>
    /\ AvgUnchanged

Averager == AvgStart \/ AvgRun \/ AvgStop \/ AvgStopped \/ AvgExit

-----------------------------------------------------------------------------
(* spectrum_relay::execute.                                                *)

RelayTakes(pc) ==
    /\ pc_relay = pc /\ pc_relay' = "loop"
    /\ relay_in # <<>> /\ relay_in' = Tail(relay_in)

\* broadcast_spectrum asks the butterfly house for the labels one after the
\* other: get_description locks its mutex ...
RelayDescription ==
    /\ pc_relay = "loop" /\ ~canceled /\ relay_in # <<>>
    /\ Head(relay_in).command = "s_run"
    /\ HouseFree
    /\ LET group == Head(relay_in).group IN
       broadcast' = [broadcast EXCEPT !.chunk = group[Len(group)],
                                      !.notes = file_infos[0].description]
    /\ pc_relay' = "duration" /\ UNCHANGED relay_in

\* ... get_run_duration ...
RelayDuration ==
    /\ pc_relay = "duration" /\ pc_relay' = "values"
    /\ broadcast' = [broadcast EXCEPT !.duration = house_duration]
    /\ UNCHANGED relay_in

\* ... and get_extra_info do not; then the message is sent.
RelayValues ==
    /\ RelayTakes("values")
    /\ broadcast' = [broadcast EXCEPT !.freq_lo = extra_info]

\* Mutant: an s_stop ends the loop.
RelayOtherEnds ==
    /\ ~canceled /\ pc_relay = "loop" /\ relay_in # <<>> /\ relay_in' = Tail(relay_in)
    /\ Head(relay_in).command # "s_run"
    /\ pc_relay' = IF Head(relay_in).command = "s_stop" THEN "done" ELSE "loop"
    /\ UNCHANGED broadcast

RelayOther ==
    /\ ~canceled /\ RelayTakes("loop")
    /\ Head(relay_in).command # "s_run"
    /\ UNCHANGED broadcast

RelayExit ==
    /\ canceled /\ pc_relay = "loop" /\ pc_relay' = "done"
    /\ UNCHANGED <<relay_in, broadcast>>

Relay ==
    /\ \/ RelayDescription \/ RelayDuration \/ RelayValues
       \/ RelayOther \/ RelayExit
    /\ UNCHANGED <<control_vars, source_vars, fft_in, pc_fft, avg_in, avg_vars,
                   writer_in, writer_vars>>

-----------------------------------------------------------------------------
(* The writers' streams.                                                   *)

WriterTakes(w, command) ==
    /\ pc_writer[w] = "loop" /\ ~canceled /\ writer_in[w] # <<>>
    /\ Head(writer_in[w]).command = command
    /\ writer_in' = [writer_in EXCEPT ![w] = Tail(@)]

WriterUnchanged ==
    UNCHANGED <<settings, house_vars, writers, request_vars, failures, run,
                pc_run, finishing, asked, source_vars, fft_in, pc_fft, avg_in,
                avg_vars, relay_in, pc_relay, broadcast>>

\* The file of writer w in run r is not finished.
FileIsOpen(w, r) ==
    r # 0 /\ r = run /\ mw_ptrs # <<>> /\ mw_ptrs[FileNum[w]] # NoFile

\* get_stream: refused when the file has been finished already.
WriterStart(w) ==
    /\ WriterTakes(w, "s_start")
    /\ IF FileIsOpen(w, monarch_ptr[w])
       THEN /\ swrap' = [swrap EXCEPT ![w] = monarch_ptr[w]]
            /\ streaming' = streaming \cup {<<w, monarch_ptr[w]>>}
            /\ UNCHANGED <<pc_writer, canceled>>
       ELSE /\ pc_writer' = [pc_writer EXCEPT ![w] = "dead"]
            /\ canceled' = TRUE
            /\ UNCHANGED <<swrap, streaming>>
    /\ WriterUnchanged

\* The data go to the file of t_swrap_ptr.
WriterRun(w) ==
    /\ WriterTakes(w, "s_run")
    /\ UNCHANGED <<swrap, pc_writer, streaming, canceled>>
    /\ WriterUnchanged

\* finish_stream, of the file f_monarch_ptr is on by now.
FinishStream(w) ==
    /\ streaming' = IF swrap[w] = 0 THEN streaming
                    ELSE streaming \ {<<w, monarch_ptr[w]>>}
    /\ swrap' = [swrap EXCEPT ![w] = 0]

WriterStop(w) ==
    /\ WriterTakes(w, "s_stop")
    /\ FinishStream(w)
    /\ UNCHANGED <<pc_writer, canceled>>
    /\ WriterUnchanged

\* The loop is left by cancellation.
WriterExit(w) ==
    /\ canceled /\ pc_writer[w] = "loop"
    /\ pc_writer' = [pc_writer EXCEPT ![w] = "done"]
    /\ FinishStream(w)
    /\ UNCHANGED <<writer_in, canceled>>
    /\ WriterUnchanged

Writer(w) == WriterStart(w) \/ WriterRun(w) \/ WriterStop(w) \/ WriterExit(w)

-----------------------------------------------------------------------------
Registration ==
    /\ \/ \E w \in Writers : RegisterWriter(w)
       \/ Activate
       \/ \E w \in Writers : pc_writer[w] # "loop" /\ UnregisterWriter(w)
    /\ UNCHANGED path_vars

Client == Request /\ UNCHANGED path_vars

RunControl == Run /\ UNCHANGED path_vars

Next ==
    /\ pc_run # "crashed"
    /\ \/ Registration \/ Client \/ RunControl
       \/ Source \/ Fft \/ Averager \/ Relay
       \/ \E w \in Writers : Writer(w)

Spec == Init /\ [][Next]_vars

\* Every node and the run's thread are scheduled; requests need not come.  A
\* node that waits for room goes on once there is room.
FairSpec ==
    /\ Spec
    /\ WF_vars(RunControl) /\ WF_vars(Source) /\ WF_vars(Fft)
    /\ WF_vars(Averager) /\ WF_vars(Relay)
    /\ \A w \in Writers : WF_vars(Writer(w))

-----------------------------------------------------------------------------
(* Properties.                                                             *)

Chunk == [run : 1 .. run, number : 1 .. MaxChunks]

\* Every variable takes only the values the code can give it, and no stream
\* holds more than its slots.
TypeOK ==
    /\ mw_ptrs = <<>> \/ DOMAIN mw_ptrs = Files
    /\ monarch_ptr \in [Writers -> 0 .. run] /\ swrap \in [Writers -> 0 .. run]
    /\ writers \subseteq Writers /\ streaming \subseteq Writers \X (1 .. run)
    /\ run \in 0 .. Len(Requests) /\ Len(asked) = run
    /\ failures \in 0 .. MaxFailures
    /\ pc_run \in {"inactive", "idle", "launched", "running", "finishing",
                   "error", "crashed"}
    /\ pc_request \in {"idle", "setting"}
    /\ source \in 0 .. run
    /\ sent \in Chunk \cup {NoChunk}
    /\ Len(fft_in) <= TimeLength /\ Len(avg_in) <= FreqLength
    /\ Len(relay_in) <= OutLength
    /\ \A w \in Writers : Len(writer_in[w]) <= FreqLength
    /\ f_input_counter \in 0 .. MaxChunks
    /\ NumToAverage > 0 => f_input_counter < NumToAverage
    /\ average \in Seq(Chunk) /\ spectrum \in Seq(Chunk \cup {NoChunk})

\* The chunks follow one another in one run.
Consecutive(group) ==
    \A i \in 2 .. Len(group) :
        /\ group[i].run = group[i - 1].run
        /\ group[i].number = group[i - 1].number + 1

\* A spectrum is made of consecutive chunks of one run, as many as asked for
\* unless it is the last of its run; the next one goes on with the next chunk,
\* or with the first of a later run.
Follows(group, next) ==
    /\ next # <<>> /\ Consecutive(next)
    /\ NumToAverage > 0 => Len(next) <= NumToAverage
    /\ \/ /\ next[1].run = group[1].run
          /\ next[1].number = group[Len(group)].number + 1
          /\ Len(group) = NumToAverage
       \/ next[1].run > group[1].run /\ next[1].number = 1

SpectraTile == [][spectrum' # spectrum => Follows(spectrum, spectrum')]_vars

\* When the digitizer has paused and its s_stop has passed the averager, the
\* spectra have come to the last chunk that was sent: no end of a run is left
\* out or kept for the next, also when the next has begun.
RunAveraged ==
    source = 0 /\ fft_in = <<>> /\ avg_in = <<>> /\ ~canceled
    => spectrum[Len(spectrum)] = sent

\* Every label of a spectrum is that of the request that started its run, or of
\* one that came after it.
LabelsNotOlder ==
    broadcast.chunk # NoChunk /\ pc_relay = "loop" =>
        LET r == broadcast.chunk.run
            q == Requests[asked[r]] IN
        \A i \in DOMAIN q :
            Made(asked[r], i) =>
                /\ q[i].field = "description" /\ q[i].file = 0 =>
                       SetFor(r, i, broadcast.notes)
                /\ q[i].field = "duration" => SetFor(r, i, broadcast.duration)
                /\ q[i].field = "values" => SetFor(r, i, broadcast.freq_lo)

\* A spectrum is broadcast with the notes, duration and values of the request
\* that started its run, spectrum_relay.hh's "proper associated metadata".  The
\* code does not hold to it: a request made, or refused, while the spectrum is
\* on its way changes what the relay reads.
LabelsOfOwnRun ==
    broadcast.chunk # NoChunk /\ pc_relay = "loop" =>
        LET k == asked[broadcast.chunk.run]
            q == Requests[k] IN
        \A i \in DOMAIN q :
            Made(k, i) =>
                /\ q[i].field = "description" /\ q[i].file = 0 =>
                       broadcast.notes = q[i].to
                /\ q[i].field = "duration" => broadcast.duration = q[i].to
                /\ q[i].field = "values" => broadcast.freq_lo = q[i].to

\* What a writer gets to write finds it with a stream, in the file of the run the
\* data are of, or of a later one when that has begun before the writer came to
\* the s_start; and that file is not finished.
DataInOpenFile ==
    \A w \in Writers :
        /\ pc_writer[w] = "loop" /\ ~canceled
        /\ writer_in[w] # <<>> /\ Head(writer_in[w]).command = "s_run"
        => swrap[w] >= Head(writer_in[w]).chunk.run /\ FileIsOpen(w, swrap[w])

\* What a writer gets to write goes to the file of the run the data are of.  The
\* code does not hold to it: a writer that comes to the s_start of a run after
\* start_files of the next takes the next one's file.
DataInOwnRunsFile ==
    \A w \in Writers :
        /\ pc_writer[w] = "loop" /\ ~canceled
        /\ writer_in[w] # <<>> /\ Head(writer_in[w]).command = "s_run"
        => swrap[w] = Head(writer_in[w]).chunk.run

\* The files of a run are opened, written to and closed as RunFiles has it: a
\* file is closed when no writer has a stream in it, and the next run begins
\* when all files of the last are closed.
OpenFiles == IF mw_ptrs = <<>> THEN {} ELSE {f \in Files : mw_ptrs[f] # NoFile}

Promise == INSTANCE RunFiles WITH open <- OpenFiles, attached <- streaming

ImplementsRunFiles == Promise!Spec

\* While finish_files waits for a writer some node can go on.
NodesGoOn ==
    pc_run = "finishing" /\ ~canceled /\ StillWriting # {} =>
        ENABLED (Source \/ Fft \/ Averager \/ Relay
                 \/ \E w \in Writers : Writer(w))

\* Again and again no file is waited for and all chunks sent so far have been
\* broadcast, unless the nodes are cancelled: whatever run they are of and
\* whenever it was ended, none is left behind in a stream or in the sum.
RunsComeOut ==
    []<>(\/ pc_run # "finishing" /\ pc_relay = "loop" /\ broadcast.chunk = sent
         \/ canceled)

=============================================================================
