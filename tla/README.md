# Specifications of fast_daq

TLA+ modules of fast_daq, the data acquisition program in `src/`, with the TLC
configurations that check them on small instances and the proofs that TLAPS
checks for every instance. The modules are translated from the code; where a
comment or a document says something else, the module follows the code and the
difference is noted below.

- [The system](#the-system): components, state, operations, what is hard
- [The modules](#the-modules): how each corresponds to the code
- [The runs](#the-runs): what each checks, its bounds, what it shows
- [Fairness and deadlock](#fairness-and-deadlock)
- [The proofs](#the-proofs)
- [What is not modelled](#what-is-not-modelled)
- [Plan](#plan)

To repeat a run: `tlc -config <run>.cfg <module>.tla`, with the modules named in
the tables; to repeat the proofs: `tlapm <module>Proofs.tla`.

## The system

fast_daq is a graph of *nodes*, each in a thread of its own, joined by streams
of slots (the midge library). A node takes a slot from its input stream, works
on it, and sets a slot of its output stream, waiting while the next one is still
in use. With each slot goes a command: `s_start` and `s_stop` around the data of
a run, `s_run` for one chunk of data, `s_exit` and `s_error` at the end. Beside
the nodes there is run control (sandfly), which takes requests from clients and
starts and ends runs, and the files, which are egg files of the Monarch library.
The usual graph is

    ATS9462 board -> ats9462_digitizer -> frequency_transform
                         frequency_transform -> power_averager -> spectrum_relay -> clients
                         frequency_transform -> (inverse_frequency_transform ->) writer -> egg file

### Components

| component | state it keeps | operations | what makes it correct |
|---|---|---|---|
| `monarch_wrapper` with its on-deck manager (`control/monarch3_wrap.*`) | the file being written, the one on deck, the one to be finished; headers and streams; the size estimate; the flags `f_do_switch_flag`, `f_ok_to_write`; three mutexes | `start_using`, `get_stream`, `write_record`, `record_file_contribution`, `trigger_switch`, `switch_to_new_file`, `finish_stream`, `stop_using`, `finish_file`; two threads of its own | every record goes to an open file, in order over the files; no file is lost, leaked or finished twice; files do not outgrow their limit; a requested switch and the end of a run come about |
| `ats9462_digitizer` (`daq/ATS9462_digitizer.*`) | the DMA buffers allocated, the ring of them posted to the board, the read position, buffers collected since an overrun, the chunk counter, the instruction cell | set-up: configure the board, allocate the buffers; the run loop: resume, read a buffer, copy it out, post it again or collect it, restart after an overrun, stop the run; tear-down from `finalize` and the destructor | it waits for the buffer the board fills next and never for one that cannot come; lost samples show as a gap in the numbers and only they do; no buffer is freed while it can be written to |
| `ats_streaming_writer` (`daq/ats_streaming_writer.*`) | its stream, the last chunk number of the acquisition | `s_start`, `s_stop`, data, cancellation | acquisitions in the file are the stretches without loss; a file has its own run's data; no data without a stream |
| `daq_control` (`control/daq_control.*`) | the run duration; through `butterfly_house` all settings of files | start-run requests; the hooks before and after a run | a run has no file name, description or duration older than its own request's |
| `butterfly_house` (`control/butterfly_house.*`) | file names and descriptions, duration, values; the wrappers; the writers of each file; one mutex over most of it | `prepare_files`, `register_writer`, `unregister_writer`, `set_*`, `get_*`, `start_files`, `finish_files` | as above, and `finish_files` ends; its members are shared by four threads |
| `frequency_transform` (`daq/frequency_transform.*`) | the bins of its output | passes commands; transforms chunks; cuts out a band | the band is inside the transform, has the whole bins of the bandwidth asked for and lies around the frequency asked for, to a bin; nothing is reordered |
| `power_averager` (`daq/power_averager.*`) | the sum of spectra and their number | start, add, send, flush at the stop | spectra tile the chunks of each run: nothing lost, repeated or mixed between runs; a spectrum cut short has the weight of a full one |
| `spectrum_relay` (`daq/spectrum_relay.*`) | none | broadcasts spectra with labels read from `butterfly_house` | a spectrum goes out with labels that are not older than its run's request |
| `streaming_frequency_writer` | as `ats_streaming_writer`, without numbering | as above | as above |
| `data_producer`, `dead_end` (`daq/data_producer.*`, `daq/dead_end.*`) | the sink's count | source and sink of a chain without a board: blocks sent until a stop condition; blocks counted and the total logged | the total logged is the number sent; the nodes end |
| `inverse_frequency_transform` (`daq/inverse_frequency_transform.*`) | none | passes commands; copies chunks (its transform is commented out) | nothing is lost or reordered, and an end at its input ends it |
| data classes, application, utility | see [What is not modelled](#what-is-not-modelled) | | |
| midge, sandfly, monarch, dripline, scarab, Alazar API | external | streams, run control, egg library, messages, board | modelled from how `src/source` uses them |

### Interactions

- **Run control and files.** `on_pre_run` calls `butterfly_house::start_files`,
  which makes a wrapper per file, hands it to its writers and starts its
  threads; `on_post_run` calls `finish_files`, which cancels each wrapper, joins
  its threads, and waits for the writers to finish their streams.
- **Writers and the wrapper.** The wrapper's streams are objects that each
  writer holds; a switch of files changes the file behind a stream while the
  writer is held back by `f_ok_to_write`.
- **The switch thread and the on-deck thread** exchange files through three
  pointers under `f_od_mutex`, and share the header under a mutex of its own.
- **Digitizer and board.** Buffers are posted and filled in the same order; when
  none is posted the board overruns, and the digitizer has to collect the rest
  of the ring before it can post all of them again.
- **Instructions.** Run control resumes and pauses the digitizer through one
  instruction cell; everything else follows from the commands in the streams.
- **Labels.** The relay reads description, duration and values from the
  butterfly house when it broadcasts, from another thread than requests and runs.
- **Ends.** A node that fails or is told to exit sends `s_stop` and `s_exit` on;
  everything else ends by a global cancellation, after which a stream may refuse
  what is set on it.

### What is hard

The hard behaviours are the interleavings of the wrapper's four kinds of thread,
the ring of DMA buffers across overruns and restarts, the ends of runs (data,
stop commands, file finishing and the next run's start pass each other in
different threads), labels that are read late, mutexes held while waiting, and
the ways out of every loop when streams are full or refused.
`PROJECT.json` lists each hazard at its line, with the properties that would
catch it going wrong, or the reason why none does.

## The modules

| module | role |
|---|---|
| `MonarchWrapper` | one `monarch_wrapper`: control, switch thread, on-deck thread, writers |
| `EggOutput` | abstract: what one output promises, without threads; `MonarchWrapper` implements it |
| `MCMonarchWrapper` | instances, symmetry |
| `MonarchWrapperProofs`, `MonarchRecordsProofs`, `MonarchLivenessProofs` | theorems on `MonarchWrapper`: files and threads; headers and records; what comes about, and where it can stop |
| `Acquisition` | board, digitizer from set-up to tear-down, slots, `ats_streaming_writer`, run control's resume and pause |
| `MCAcquisition` | instances |
| `AcquisitionProofs` | theorems on the DMA ring, its memory and the records |
| `DaqControl` | requests, `butterfly_house`, starting and finishing of files |
| `SpectrumPath` | extends `DaqControl` with the nodes from `frequency_transform` on: averager, relay, writers |
| `RunFiles` | abstract: files of runs and who is attached to them; `SpectrumPath` implements it |
| `MCSpectrumPath` | instances: the requests |
| `SpectrumPathProofs` | theorems on `SpectrumPath`: the refinement; spectra, data, files and labels of runs |
| `HouseAccess` | which call of the butterfly house touches which member, with or without the mutex |
| `MCHouseAccess` | the calls of each thread |
| `HouseAccessProofs` | theorems on `HouseAccess` |
| `NodeChain` | `data_producer`, a number of transforms, `dead_end`: passing on, refusal, cancellation, ends |
| `ChainOutput` | abstract: what the sink of a chain counts and reports; `NodeChain` implements it |
| `NodeChainProofs` | theorems on `NodeChain` |
| `FrequencyBins` | which bins `frequency_transform` puts out, the scale of their average, the frequencies broadcast |
| `FrequencyBinsProofs` | theorems on `FrequencyBins` |

`PROJECT.json` maps every definition to its lines. In every module an action is
one uninterrupted piece of one thread, named for the function or the command it
handles; a definition marked "Mutant" is a wrong variant of the one below it and
takes no part in the specification: it shows what a property would notice.

### MonarchWrapper

Variables have the names of the members. The threads' program counters
(`pc_control`, `pc_switch`, `pc_ondeck`, `pc_writer`) name the place before a
lock, a wait or an unprotected access to shared state; a critical section that
neither blocks nor shows a half-way state to others is one action whose guard is
that the mutex is free. In particular

- `write_record` is `WriteRecord` (entry), `OkayToWrite`, `WriteToStream`,
  `LoadEstimate` and `StoreEstimate` (the two halves of the unprotected
  read-modify-write of `f_file_size_est_mb`), `TestSwitchFlag`, `SetSwitchFlag`,
  `ClearOkToWrite` (the three steps of `trigger_switch`);
- `switch_to_new_file` is the actions `Switch...` from `lock_header` on, each
  taking `f_od_mutex` for itself;
- the on-deck thread is `OnDeckTop` to `OnDeckRest`, holding `f_od_mutex`;
- `finish_file` is `FinishFile`, `WriteHeader`, `WaitStreams` and `CloseFile`,
  with `f_monarch_mutex` free in between as in the code.

Abstractions: files are numbers; a record has one unit of size, so that
`MaxFileSize` is the least number of records that reaches the limit; header
contents are left out except for the note that a file continues another; the
cancel flags of wrapper and manager are one, being always set together; timed
waits that find nothing are stuttering; the wait in `finish_file` may time out
at any time; a writer may be cancelled at any time (`NeverStarted`,
`FinishStream`). Exceptions of the library (`Throws`) may come at every guarded
call. Branches that no state reaches are left out: a wrong stage in
`switch_to_new_file`, a stream that is invalid after a switch
(`monarch3_wrap.cc:619`-`622`: the new file has been given the streams of the old
one), an unknown stream number in `finish_stream`. The test of `f_monarch` in
`okay_to_write` (663-670) is made in one step with the write: no thread sets the
pointer to null while the writer has a stream. A write that throws ends the
writer before the estimate is counted. The wrapper is destroyed
only when no writer uses it.

### EggOutput

Four actions: append a record of a stream to the current file, take the next
file into use, close the one given up, close the last. `MonarchWrapper` maps to
it with `current` the file in use (on deck already while the switch has the old
one in its hands), `closing` the file to be finished.

### Acquisition

A block is what fills one DMA buffer; blocks are numbered as digitized, the lost
ones included, so that a loss can be seen in what the file holds. `Board` is
external: it fills the posted buffers in order and overruns when there is none
(the on-board memory is folded into "no buffer is posted"). The actions of
`Digitizer` are the turns of `execute` and the parts of `process_a_buffer`
between calls that can block, and around them set-up and tear-down:
`configure_board` is `Configure`, `allocate_buffers` is `AllocateBuffer` once per
buffer, `clear_buffers` is `ClearAbort`, `FreeBuffers` and its failure
`ClearThrows`, called by `finalize` when the loop has ended and by the destructor
when all nodes have. A call that fails (`...Throws`) ends the loop and cancels
the nodes: any call of the Alazar library may, among them the abort after
`stop_run` (`StopRunThrows`) and the one of a pause, which has sent its `s_stop`
by then (`PauseThrows`), and a resume that fails may have posted some of the
buffers (`ResumeThrows`). `out` stands for all the slots between digitizer
and writer: the nodes between pass commands and chunk counters on in order.
`RunControl` has the start of a run (`start_files` and the resume in one), its
end, `finish_files` waiting for the writer, and cancellation.

Left out: the record time (the number times a constant), the digitizer's test
of its own output for `s_stop`, which nothing sets, and `s_exit`/`s_error`,
which come only after cancellation. `LateStart` says whether a run may be ended
before the writer has seen its `s_start`.

### DaqControl and SpectrumPath

A request is a sequence of settings in the order the handler applies them;
`ApplySetting` applies one, and only those that lock the house wait for its
mutex. `StartRun`/`StartRunThrows` are the call of `start_run` at the end: what a
request has set stays set when it is refused. `StartFiles` is one action, since
nothing in it blocks and the mutex is held; `StartFilesFails` makes some of the
files, and the exception is caught as in `on_pre_run`, so that the run goes on
cancelled. `BeginFinishing` takes the house mutex, which stays taken
(`HouseFree`) until the last file is finished or something throws; `FinishFile`
waits for the streams of its writers; `CancelAll` and `FinishFileThrows` are the
two time-outs. `FinishNull` is the null pointer a failed start leaves.

`SpectrumPath` adds the streams and nodes. The digitizer is `Source`: off or on,
sending chunks while it is on and going off at any time after the run's end, as
`Acquisition` has it. Nobody waits for it: a run may be over before the digitizer has taken its
resume, and the next begun before it has taken the pause, when the two are one
to it. Nor do clients wait: `Client` sends its requests at any time, while a run
goes on (it is refused at `start_run` and what it has set stays set), between
`start_run` and `start_files`, or while spectra of the last run are still in the
streams. A chunk is known by its run and its number in the run; a spectrum by
the chunks summed in it. `FftPass` sets one output slot which averager and
writers read, so it waits for all of them. `AvgStart`, `AvgRun`, `AvgStop` and
`AvgStopped` are `handle_start`, `handle_run`, `handle_stop` and the command
after it. `RelayDescription`, `RelayDuration` and `RelayValues` are the three
questions `broadcast_spectrum` asks of the house, of which only the first needs
its mutex; a request or a `start_files` may come between them. Writers take
their stream at `s_start` and finish it at `s_stop` in the file `f_monarch_ptr`
is in by then.

Left out: use-monarch off; a file number equal to the number of files and an
empty list of values (undefined in the code); the handlers of get requests;
`inverse_frequency_transform`, which only passes things on here (its ends are in
`NodeChain`). When the averager's output refuses a spectrum, `send_output` throws
an `int`, which no handler of the node catches: the process ends. In the model
the node ends (`AvgExit`), after a cancellation like everything else there.

Two definitions of the module state what the code does not keep, and are in no
run. `LabelsOfOwnRun`: labels are those of the request of the spectrum's own run,
the "proper associated metadata" of `spectrum_relay.hh:33`; TLC finds it violated
by a request, refused or not, made while a spectrum is on its way.
`DataInOwnRunsFile`: data go to the file of the run they are of; TLC finds it
violated by a writer that comes to a run's `s_start` after `start_files` of the
next. `LabelsNotOlder` and `DataInOpenFile` state what does hold.

`RunFiles` has four actions for files and writers: the next run begins, its files
are opened (all or some), a writer attaches or detaches, a file nobody is
attached to is closed. `SpectrumPath` maps to it with the runs of wrappers that
are not null as the open files and `streaming` as the attached writers.

### HouseAccess

A call is the sequence of members it touches before it locks `f_house_mutex`,
with the mutex, and after it: the last for a getter that returns a reference,
through which its caller reads when the mutex is free again. `Thread` goes
through the calls of its script one access at a time. What is in the members is
in `DaqControl`; here two threads *race* when both are about to touch one member
and one of them writes. The handlers that set a filename, a description or the
mode are not registered (`daq_control.cc:264`-`267`) and are no part of a script,
so that `use_monarch` has no writer in any. `finish_files` waits with the mutex
held, for the wrapper's threads and for the writers' streams: `Waits` is the
place of that. The wait may never end (`wrapper_lock_cycle`), and so nothing is
claimed here of calls that return.

### NodeChain

Node 0 is `data_producer`, nodes 1 to `N` are transforms, which have the same
loop and the same ends in both classes, and the last is `dead_end`. A slot
leaves a stream when its reader is done with it, not when it looks at it. A set
waits for room and may be refused once the nodes are cancelled; what a refusal
leads to differs by command, as in the code: refused data go on to the `s_stop`
and `s_exit` of the exit path, a refused `s_start` or `s_stop` throws past them.
The producer may leave its loop by itself at any time (a stop condition of its
stream). `passed` counts what each node has sent on and is a history variable.

### FrequencyBins

The configuration is the initial state; `Initialize` allocates the arrays of
transform and averager. `HandleStart`, `HandleRun` and `HandleStop` are a command
on its way through both nodes, `Broadcast` is the relay, for which one spectrum
may wait. Frequencies are whole ticks, `Ticks` of them per bin, and power is
counted in chunks: every chunk adds one to each bin, so that the weight of a
spectrum says how many chunks it is worth. A spectrum is scaled by a fraction,
kept as `weight` over `per`. Float rounding is left out, truncation and unsigned
wrap-around are not. The transform of real input has `fft_size / 2 + 1` bins, the
array behind it `fft_size`. `spectrum-size` is the number of bins of the band or
more (it "needs to match", as the comments in `src/examples` say): a smaller one
is overrun by the copy.

Four comments of the code say something else than what it does, and the module
follows the code:

- `frequency_transform.hh:56`: an integer number of bins "covering at least this
  width". `num_output_bins` rounds down, so that a bandwidth that is no number of
  bins gets a band up to a bin short of it. `BandwidthRoundedDown` states that;
  `BandCoversBandwidth` is the comment, which TLC finds violated, in no run.
- `frequency_transform.cc:87`-`88`: the first bin is shifted when the frequency is
  in the "upper half" of its bin. The test measures from half a band above 0 and
  shifts nearly always. `BandAroundFrequency` allows the middle of the band to be
  a whole bin off the frequency and does not notice.
- `power_averager.hh:28`-`36`: an incoherent average. What is sent is the sum, with
  the weight of num-to-average chunks.
- `power_averager.cc:59`-`60`: with num-to-average 0 the output is "already a sum".
  `send_output` (187) divides it by the number of chunks, to the weight of one.

`SpectrumWeight` states what the code does in the last two: all spectra of one
configuration have one weight.

## The runs

"States" are distinct states, as TLC reports them; "stops" is a run that ends
at its counterexample.

| run | instance | states | what it shows |
|---|---|---|---|
| `wrapper_one_stream` | 1 writer, 6 records, files of 2: three to four files in a row; fair | 5,156 | `WriteInOpenFile`: no record meets a closed or replaced file. `FileSizeBound`: no record slips into a full file. `RecordsKept`: only empty files are deleted. `HeaderInCurrentFile`: whoever locks the header gets the current one's. `ImplementsEggOutput`: the threads together are the abstract chain of files. `SwitchServed`: a requested switch is taken up. `FinishFilesEnds`: `finish_files` comes to an end. `FilesGetFinished`: no replaced file stays open |
| `wrapper_failures` | 1 writer, up to 2 exceptions anywhere, both endings | 109 thousand | `FilesOwnedOnce`: every file number ever given out is in one pointer, finished, removed or given up, exactly once. `ContinuationChain`: the continuation notes form one chain. `HangsOnlyAsKnown`: the way out of a run comes to a stop at the lock cycle, at an `f_od_mutex` an exception left locked, or where the destructor joins the switch thread, and nowhere else |
| `wrapper_two_streams` | 2 writers, late start | 1.9 million | `RecordsInOrder`: each stream's records are in order over the files |
| `wrapper_lock_cycle` | expects a violation of `NoLockCycle` | stops | on-deck and switch thread take two mutexes in opposite orders |
| `wrapper_two_writers` | expects a violation of `WriteInOpenFile` | stops | with two streams one writer writes while the other's switch replaces the file |
| `acquisition_runs` | ring of 2 buffers, runs of 3, 2 runs, 1 overrun, 1 failure, cancellation; fair | 243 thousand | `DmaRingInOrder`, `NeverStarved`: the digitizer waits for the right buffer, and one that comes. `DmaMemoryLive`: no buffer is freed that is still written to. `AcquisitionsMarked`: records are marked as a new acquisition exactly where samples are lost. `DataInOwnFile`: data only come to a writer with a stream in the file of their own run. `RunIsWhole`: a run that is over has in its file all that was completed, once and in order. `RunCompletes`: a run delivers its buffers over an overrun. `RunsFinish`: its end goes through to the writer |
| `control_runs` | 2 requests that leave parts to each other, made at any time, 2 files, 3 chunks, averages of 2, 1 failure; fair | 667 thousand | `FilesAsRequested`, `LabelsNotOlder`: files and broadcasts carry what their run's request said, or a later one, and nothing older. `SpectraTile`: spectra are consecutive chunks of one run whenever the run ends. `RunAveraged`: they have come to its last chunk when the `s_stop` has passed the averager. `DataInOpenFile`: data meet an open file, of their own run or one begun since. `ImplementsRunFiles`: control, writers and wrappers together are the abstract files of runs. `RunsComeOut`: again and again no file is waited for and everything sent has been broadcast |
| `control_stuck` | one slot each, a spectrum per chunk; expects a violation of `NodesGoOn` | stops | `finish_files` waits for the writer with the mutex that the relay needs, and everything behind the relay waits |
| `node_chain` | 2 transforms, streams of 2 slots, up to 4 chunks; fair | 95 thousand | `NoDataAfterStop`: nothing of a run comes after its `s_stop`, refused or not. `ImplementsChainOutput`: the sink counts every chunk once and logs the producer's total. `CancelEndsNodes`: cancelled nodes end, whatever is full. `EndReachesAll`: an end at the producer takes the transforms with it once all is counted |
| `house_access` | a run and the next, every kind of request, a broadcast and the end of a node at once | 62 thousand | `RacesOnlyByReference`: wrappers, writers and mode are never raced for, names and descriptions only through a returned reference |
| `house_race` | the same; expects a violation of `HouseRaceFree` | stops | duration and values are touched without the mutex |
| `frequency_bins` | transforms of up to 9 bins, 4 ticks per bin, every frequency and bandwidth, averages of 0 to 3 | 2.3 million | `BandAroundFrequency`: the band is in the transform and around the frequency, to a bin. `BandwidthRoundedDown`: it has the whole bins of the bandwidth asked for, and is the whole of an even transform if nothing is asked for. `SpectrumWeight`: full and cut-short spectra have one weight |

`TypeOK` is an invariant of the run of `FrequencyBins`; those of the other
modules are proved and have no run.

TLC reaches each of the three hangs of `HangsOnlyAsKnown`: it finds the property
violated when any one of them is left out of it.

### Bounds, and why they are enough

- **Wrapper.** Two switches are the least at which a file comes back from the
  to-finish pointer; six records with files of two make three. One writer shows
  all interleavings of the four kinds of thread; the second adds the others'
  trigger between `okay_to_write` and the write. Two exceptions let a failed
  creation follow a failed finish. Failures and two writers are not combined:
  `WriteInOpenFile` and `FileSizeBound` do not hold after an exception in the
  switch thread, which leaves the writers to write on.
- **Acquisition.** With two buffers and three per run the ring wraps within a
  run and the second begins in its middle; an overrun, and a failure of any
  call, come at every position, in the first run or the second, in set-up and
  tear-down. One slot is the least room and makes the digitizer wait most.
  `CounterLimit` is UINT_MAX + 1 cut down, but above what the runs count to: with
  the counter at its end `AcquisitionsMarked` fails when a restart skips number
  UINT_MAX, because the writer's expectation wraps one earlier than the counter
  (`ats_streaming_writer.cc:175`). That takes 2^32 - 2 buffers in a run.
  `LateStart` is FALSE: a run is ended only when the writer has seen its
  `s_start`. With TRUE, a pause that overwrites the resume in the instruction
  cell leaves the writer without a run, and a file is finished before its
  `s_start` arrives: `DataInOwnFile` and `RunIsWhole` do not hold, nor, with
  three slots, `AcquisitionsMarked`, as the writer then starts twice in one file.
  What does hold then is proved: `GapsAlwaysMarked`, `RecordsInOrder` and
  `StreamBeforeData`.
- **Control.** Two requests show what the second run inherits from the first.
  Three chunks and averages of two end a run before, at and after a full
  average, and one failure anywhere includes each directory, file and closing.
  The time-outs of `finish_files` need no counting, as they may come at any
  time. Two runs are the least at which one meets what the other has left in
  the streams, and with one slot each there are places for a run's end, the next
  one's start and its data to be in at once.
- **Chain.** Two transforms are the least at which a node has one on either
  side; with two slots a stream can be full while its reader still holds one, and
  four chunks are more than two streams in a row take.
- **House.** Every call that a registered handler, run control, the relay or a
  node makes is in a script, and the second `StartFiles` lets the others meet
  both ends of a run.
- **Bins.** Nine bins have odd and even numbers on every boundary; four ticks
  tell the halves of a bin apart, and its edges. Four chunks pass every average
  of up to three, and one leaves the count of num-to-average 0 to run on.

### What the expected violations say

- **Lock order** (`monarch3_wrap.cc:88` against `586`-`603`): the header comment
  promises thread-safe access handled by the interface functions; the on-deck
  thread takes `f_od_mutex` and then the header's mutex, the switch the other
  way round.
- **Two writers in one file** (`monarch3_wrap.cc:757`): writing is listed as
  thread-safe, but the answer of `okay_to_write` is stale when another writer
  triggers a switch.
- **Stuck nodes** (`butterfly_house.cc:137`): the comment in `finish_file`
  expects the writers to cancel their streams; while it waits, the relay may
  hold up the nodes whose commands would let them. The wait ends in a global
  cancellation after five seconds, so that `RunsComeOut` still holds.
- **Unlocked members** (`butterfly_house.cc:223`-`254`): the class comment lists
  all its calls as thread-safe; `set_values`, `get_extra_info` and
  `get_run_duration` touch their members without the mutex, and two getters
  return references that are read without it.

Others seen on the way and not kept as runs are in the notes of the hazards in
`PROJECT.json`: `f_ok_to_write` that stays false for ever
(`monarch3_wrap.cc:472`), a mutex leaked by an exception (`:223`) and a destructor
that joins a thread which waits for the mutex it holds (`:305`), both named by
`HangsOnlyAsKnown`, a stream taken from
a file that is being closed (`:545`), a writer left in `okay_to_write` when the
switch thread is cancelled (`:440`), labels read when a spectrum is broadcast
(`spectrum_relay.cc:122`), a refused spectrum that throws an `int` past the
handler for exceptions (`power_averager.cc:212`).

## Fairness and deadlock

Every thread is scheduled: weak fairness of each thread's actions taken
together. That is enough, because every wait in the code is either timed and
repeated, or on a mutex held for a bounded time by a thread that is itself
scheduled, or for a slot that another node frees. The library calls return.
What follows from a mutex held for ever (`finish_files` in the lock cycle) is
excepted by name.
Nothing is assumed about exceptions, overruns, failures, requests or
cancellations: they may never come. One action of the environment has fairness:
runs are ended in `Acquisition` once `stop_run` was called (`EndRun`), and in
`SpectrumPath` the end is the run's thread's own, as sandfly's run control ends a
run by its duration or a stop. In `MonarchWrapper` a run may go on for ever: only
what `finish_files` does once it has begun is fair. In `NodeChain` each node
is fair by itself, and the producer's loop need not end. `HouseAccess` has no
fairness.

`FilesGetFinished`, `SwitchServed` and `FinishFilesEnds` except the lock cycle,
which `wrapper_lock_cycle` shows: with it none of them holds.

The liveness properties reach so far: `SwitchServed` excepts a cancelled run and
`FinishFilesEnds` speaks of control, so neither notices a writer that the
cancelled switch thread leaves in `okay_to_write`; nothing is thrown in the run of
`FilesGetFinished`, whose half after an exception is not checked.

All configurations but that of `frequency_bins` say `CHECK_DEADLOCK FALSE`: runs
end, cancelled nodes leave their loops, scripts are over, and a model in which
nothing more is asked for stops.

## The proofs

All constants are arbitrary within the assumptions of the modules, which state
what the configuration code accepts: positive numbers of buffers, slots and
files; `CounterLimit` above the buffers of a run.

**`MonarchWrapperProofs`**

- `TypeCorrect`: `TypeOK`, inductive as it stands.
- `FilesAccounted`: `FilesOwnedOnce` for any number of writers, exceptions and
  both endings. Alone it is not inductive: that the switch swaps and does not
  overwrite a pointer needs `PointersInv`, which says at which places of the
  switch which pointers are set, and that the three pointers are below
  `file_count`.
- `OneWriterWritesInOpenFile`: with one writer that starts before
  `finish_files`. `WriterInv` is the argument: who holds which mutex
  (`LocksInv`), that the switch thread works only while the flag is set and the
  writer not past its check (`SwitchInv`), how far control is in finishing
  (`PhaseInv`), and that the writer's stream is in the current file whenever it
  may write (`StreamInv`). The assumption of one writer is needed: see
  `wrapper_two_writers`.
- `WrapperImplementsEggOutput`: under the same assumption and without the
  destructor ending, the initial states and every step of the wrapper are ones
  of `EggOutput` or a stutter. Beyond `WriterInv` it needs `OrderInv`: a writer's
  records are numbered below what it has sent, and files on deck are newer than
  the current one.

**`MonarchRecordsProofs`**

- `HeaderOfCurrentFile`: `HeaderInCurrentFile` for any number of writers and
  failures, from `HeaderInv`: at which place of the switch the header's pointer
  is that of which file.
- `NotesFormChain`: `ContinuationChain` for any number of writers and failures
  and both endings, from `NotesInv`: the notes written, and the one being
  written, lead from each used file to the next.
- `AllInOrder`: `RecordsInOrder` with no assumption, for writers that race and
  write to files already replaced. From `UsedInv`: records are only in files that
  were in use, and a writer's stream is only ever moved to the file that is in
  use, which is newer than all before it.
- `AllRecordsKept`: `RecordsKept` for any number of writers and failures, without
  the destructor ending. `KeptInv`: no file that was in use is ever removed
  or given up, and by `UsedInv` no other holds records.
- `OneWriterSizeBound`: `FileSizeBound` with one writer and no failure, whichever
  way it ends. `FullInv` says how the unprotected estimate stands to the records
  of the current file at each place of writer and switch.

**`MonarchLivenessProofs`**

What comes about, under `FairSpec`. The prover does not look into ENABLED, and
each of the first three theorems has `[]ThreadsGoOn` as a hypothesis: a thread with
its mutexes free and its joins over can take a step. That is read off the guards of
the actions (TLC finds it so on the instances of the runs); it says what weak
fairness is about and nothing of the code. All else is proved, every theorem
excepting the lock cycle.

- `FinishFilesReachesEnd`: `FinishFilesEnds` for any number of writers, also
  late ones, without failures and without the destructor ending. After a
  cancellation the on-deck thread gets to its end, then the switch thread, which
  may have `f_od_mutex` taken from it, then control, which joins both. `EndingInv`
  says who can hold which mutex at each of these stages.
- `ReplacedFilesFinished`: `FilesGetFinished` under the same assumptions: the
  on-deck thread that was notified, or else the end of the run, gets to the file.
- `OneWriterSwitchServed`: `SwitchServed` with one writer, whatever fails. A
  single writer's request finds the switch thread at the top of its loop or at
  its wait, two steps from taking it (`SwitchInv`). With more writers it can come
  in the middle of a switch, which locks `f_od_mutex` four times, and the on-deck
  thread, which wakes by itself every 500 ms, could be there first each time: weak
  fairness does not rule that out.
- `EndingHangsKnown`: `HangsOnlyAsKnown` for any number of writers, files and
  exceptions, and both endings. This one is a safety property and has no
  hypothesis. `HoldersInv` says which thread can hold the header's mutex and
  `f_od_mutex` at each place, and that the switch thread keeps the latter only
  after an exception, control only once both threads are gone. With `LocksInv`
  for `f_monarch_mutex` and `PointersInv` for the joins, a case for each place of
  the on-deck thread, and one for each place of the switch thread when the first
  is out, leaves the three hangs named.
- `OnlyLockCycleHangs`: of the three, `finish_files` meets the lock cycle alone as
  long as nothing has been thrown.

**`AcquisitionProofs`**

- `AcquisitionTypeCorrect`, `DmaRing`, `DigitizerNotStarved`: `TypeOK`,
  `DmaRingInOrder` and `NeverStarved` for every number of buffers, slots, runs,
  overruns and failures. The inductive invariant adds to the ring's order where
  the held buffer is (`HeldInv`), the read position and collected count
  (`ReadInv`), and that an overflown board has nothing posted (`OverflowInv`).
  Reposting a buffer puts it one round ahead: the lemma `OnceRound`, that
  `(a + n) % n = a % n`, from the uniqueness of remainders.
- `DmaMemory`: `DmaMemoryLive` from `MemoryInv`, that the board is idle and
  has nothing posted wherever the buffers are not all there. A resume that fails
  half way leaves buffers posted with the board idle, and only its abort takes
  them back: `MemoryInv` has them posted while all are allocated.
- `DataInRunsFile`: `DataInOwnFile` under `OrderlyStart` (`LateStart = FALSE`).
  What is on its way to the writer is nothing, an `s_start` with data of the run
  behind it, such data alone, or data with an `s_stop` behind them (`LineInv`).
  That a pause is never taken before its resume, though one instruction cell
  holds both, needs `ControlInv` and `TurnInv`: where run control, the cell and
  the digitizer are with each other at each place of the run.
- `RunsAreWhole`: `RunIsWhole` under `OrderlyStart`. The numbers: what the
  digitizer has completed, with the buffer it has sent and not yet returned, is
  what the run has in records plus the data in the stream, which are all slots but
  the `s_start` at its head or the `s_stop` at its end (`WholeInv`, with `LineInv`
  for what is in the stream and `FreshInv` for a run's first record). It holds
  from where the resume is taken (`Begun`), before which the counter is still the
  last run's. The order: filled buffers, the one held, the data in the stream and
  the last record are blocks one after another (`OrderInv`). TLC checked both
  before they were proved.
- `RecordsInOrder`: the second half by itself, from `OrderInv`, with no assumption:
  however late the writer starts and whatever fails, no block is recorded twice or
  after a later one.
- `AcquisitionsMarkedRight`: `AcquisitionsMarked` under `OrderlyStart` and
  `CounterSuffices` (`CounterLimit` above twice the buffers of a run: a buffer
  takes at most two numbers). Numbers and blocks go together: from each block to
  the next either both go on by one or both leave something out (`Follows`). It
  is shown from the board to the file: of the filled buffers and the one held
  (`FilledInv`), of two data in the stream, of the last one sent and what the
  digitizer will send, of the last record and what follows it (`SequenceInv`);
  and a run's first record finds none of its file before it (`FreshInv`).
- `GapsAlwaysMarked`: the half of it that loses no data, under `CounterSuffices`
  alone: a record without the mark holds the samples that follow on those of the
  record before it. `SequenceInv` says nothing of runs and files, so it holds
  however late the writer starts; `OrderlyStart` is only needed for the other
  half, that there is no mark without a gap, as a writer that starts twice in one
  file marks its first record again.
- `StreamBeforeData`: data at the head of the stream find the writer with a
  stream (`DataHaveStream`), with late starts or without.
  `ats_streaming_writer.cc:179` uses the stream without a test. In the stream no
  data are right behind an `s_stop`, and a running digitizer has sent an
  `s_start` since its last one (`SessionInv`, checked by TLC with
  `LateStart = TRUE` and three slots before it was proved).

**`SpectrumPathProofs`**

All of them for every number of files, writers, chunks and slots, every
num-to-average and every sequence of requests, which come at any time.

- `RunFilesImplemented`: the initial states and every step of `SpectrumPath` are
  ones of `RunFiles` or a stutter. It needs `FilesInv`: a writer with a stream has
  it in a file that is open, of the run there is.
- `SpectraTiled`, `DataGoToOpenFile`, `RunAveragedWhole`, `PathTypeCorrect`:
  `SpectraTile`, `DataInOpenFile`, `RunAveraged` and `TypeOK`, from
  `RunsInv == TypesInv /\ SumInv /\ OrderInv`. What is behind a node, its input
  stream followed by that of the transform and the slot the digitizer would send
  next (`Line`, `Behind`), is one sequence, in which commands and chunks follow each
  other as the digitizer sends them (`Orderly`); it may hold the data of several
  runs, each later than the one before (`Later`), none later than the last that
  can have been sent (`Latest`). So the averager's sum goes on where the last
  spectrum ended (`SumInv`), a writer has a stream when data reach it, and once
  the `s_stop` is taken the spectra have come to the last chunk (`Ends`).
- `FilesOfTheRequest`, `LabelsNeverOlder`: `FilesAsRequested` and `LabelsNotOlder`,
  from `RequestsInv == AskedInv /\ SettingsInv /\ FilesAsRequested /\ LabelsInv`.
  What a request has set so far is in force, and every setting of a run's request
  has been made or replaced by a later one's (`SettingsInv`); the house has the
  duration of the last run that has begun, or a later one. `LabelsInv` says it of
  the labels the relay has asked for so far.

**`HouseAccessProofs`**

- `HouseTypeCorrect`, `ReferenceRaces`: `TypeOK` and `RacesOnlyByReference` for
  every set of threads and every sequence of calls of each. What a thread has
  still to touch is a rest of what the call declares for its section, and whoever
  is inside owns the mutex.

**`NodeChainProofs`**

- `ChainTypeCorrect`, `StopIsLast`, `ChainImplementsOutput`: `TypeOK`,
  `NoDataAfterStop` and `ImplementsChainOutput` for every number of transforms,
  slots and chunks. `IInv` says that the slots of each stream carry consecutive
  numbers up to what its sender has passed, which lets a stop come only last; so
  the sink's count is that of the slot it takes.
- `CanceledNodeEnds`: a cancelled node ends, for each node by itself, from its own
  fairness and the hypothesis that it is held up by its streams only
  (`GoesOn`, which is to `Node` what `ThreadsGoOn` is to the wrapper's threads). `Advance` is the
  argument: a cancelled node's steps lead through its places without a cycle.
  `CancelEndsNodes` is this for all nodes at once, with `FairSpec` giving each its
  fairness; the step from all to each is one the prover does not take, since it
  does not instantiate a temporal formula under a quantifier.

**`FrequencyBinsProofs`**

- `BinsTypeCorrect`, `BandAround`, `BandwidthRounded`, `WeightKept`: the four
  properties of the run for every transform, every resolution of frequencies and
  every average. The inductive invariant ties what was allocated, summed and sent
  to the configuration; the rest is arithmetic, of integer division (`Division`,
  `QuotientBelow`) and of the band (`BandArithmetic`).

Only model-checked:

- `RunCompletes`, `RunsFinish`, `RunsComeOut`, `EndReachesAll`: what
  comes about after as many steps as there are buffers, slots or nodes needs an
  induction whose hypothesis is a temporal formula with a parameter, which the
  prover does not do.

## What is not modelled

- use-monarch off: `start_files` is then not called.
- In `frequency_transform` and `inverse_frequency_transform` the complex input,
  the transform itself, the copy of part of an array in the inverse transform,
  FFTW plans and wisdom, and the values of samples and spectra.
- The handlers of set requests in `daq_control` that are not registered.
- The writers' headers (`prepare_to_write`), record times, and the ids of
  `streaming_frequency_writer`, which are always 0.
- `egg_writer`, an interface; the data containers; `main`, errors and version.
- The values the board is configured with and its rate tables.
- The submodules (midge, sandfly, monarch, dripline, scarab), whose directories
  are empty here: external, as far as they are used.
- The vendored Alazar headers: declarations of a library. They are half of the
  repository's lines of code, and nothing in them is the program's.
- Undefined behaviour at single values (file number equal to the number of
  files, empty list of values, one float past a copied band): hazards with notes.

## Plan

Done, in this order: `MonarchWrapper` with `EggOutput`; `Acquisition` with set-up
and tear-down; `DaqControl` with `SpectrumPath` and `RunFiles`; `FrequencyBins`
with the averager's scale; `NodeChain` with `ChainOutput`; `HouseAccess`; and
proofs for each.

What would come next:

1. A composition of `SpectrumPath` with `MonarchWrapper` in place of the
   one-step `FinishFile`, so that a stuck wrapper and a stuck relay are seen in
   one model.
2. use-monarch off, and the set requests, should they be registered.
