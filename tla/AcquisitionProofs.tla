--------------------------- MODULE AcquisitionProofs ---------------------------
(***************************************************************************)
(* The DMA ring of Acquisition, and the records it ends in, for every      *)
(* number of buffers, slots, runs, overruns and failures.                  *)
(***************************************************************************)
EXTENDS Acquisition, Integers, TLAPS

USE AcquisitionAssumption

-----------------------------------------------------------------------------
(* Arithmetic: the read position modulo the number of buffers.             *)

\* A remainder lies below the divisor.
LEMMA ModRange == ASSUME NEW a \in Nat, NEW n \in Nat \ {0}
                  PROVE  a % n \in 0 .. n - 1
  OBVIOUS

\* Below the divisor, a number is its own remainder.
LEMMA ModSmall == ASSUME NEW n \in Nat \ {0}, NEW a \in 0 .. n - 1
                  PROVE  a % n = a
  OBVIOUS

\* Quotient and remainder make up the number.
LEMMA DivMod == ASSUME NEW a \in Nat, NEW n \in Nat \ {0}
                PROVE  a \div n \in Int /\ a = n * (a \div n) + (a % n)
  <1>1. a \div n \in Int
    OBVIOUS
  <1>2. a = n * (a \div n) + (a % n)
    OBVIOUS
  <1> QED BY <1>1, <1>2

\* A remainder below n is determined by the number.
LEMMA RemainderUnique ==
    ASSUME NEW n \in Nat \ {0}, NEW q \in Int, NEW p \in Int,
           NEW r \in 0 .. n - 1, NEW s \in 0 .. n - 1,
           n * q + r = n * p + s
    PROVE  r = s
  <1> DEFINE d == q - p
  <1>1. d \in Int
    OBVIOUS
  <1>2. n * d = s - r
    BY SMT
  <1>3. CASE d >= 1
    <2>1. n * d >= n
      BY <1>1, <1>3, SMT
    <2> QED BY <2>1, <1>2, SMT
  <1>4. CASE d <= -1
    <2>1. n * d <= -n
      BY <1>1, <1>4, SMT
    <2> QED BY <2>1, <1>2, SMT
  <1>5. CASE d = 0
    BY <1>2, <1>5, SMT
  <1> HIDE DEF d
  <1> QED BY <1>1, <1>3, <1>4, <1>5, SMT

\* Once round the ring.
LEMMA OnceRound == ASSUME NEW a \in Nat, NEW n \in Nat \ {0}
                   PROVE  (a + n) % n = a % n
  <1> DEFINE q == (a + n) \div n   p == (a \div n) + 1
             r == (a + n) % n      s == a % n
  <1>1. q \in Int /\ a + n = n * q + r
    BY DivMod
  <1>2. p \in Int /\ a + n = n * p + s
    <2> DEFINE o == a \div n
    <2>1. o \in Int /\ a = n * o + s
      BY DivMod
    <2>2. s \in Int
      BY ModRange
    <2> HIDE DEF o, s
    <2>3. o + 1 \in Int /\ n * (o + 1) = n * o + n
      BY <2>1, SMT
    <2>4. o + 1 \in Int /\ a + n = n * (o + 1) + s
      BY <2>1, <2>2, <2>3, SMT
    <2> QED BY <2>4 DEF o, s
  <1>3. r \in 0 .. n - 1 /\ s \in 0 .. n - 1
    BY ModRange
  <1> HIDE DEF p, q, r, s
  <1>4. n * q + r = n * p + s
    BY <1>1, <1>2
  <1>5. r = s
    BY <1>1, <1>2, <1>3, <1>4, RemainderUnique
  <1> QED BY <1>5 DEF r, s

-----------------------------------------------------------------------------
(* The inductive invariant.                                                *)

\* The buffer in hand is the one before the read position, and there are
\* still buffers to come.
HeldInv ==
    pc_digitizer \in {"push", "return"} =>
        /\ board # "idle" /\ ~paused
        /\ buffers_completed < BuffersPerRun
        /\ next_read_buffer > 0
        /\ this_buffer.buffer = (next_read_buffer - 1) % DmaBuffers

\* While buffers are wanted the board is not idle.
ReadInv ==
    pc_digitizer \in {"check", "read"} /\ ~paused /\ ~AllCompleted =>
        board # "idle"

\* The board overflows only when it has no buffer.
OverflowInv == board = "overflown" /\ pc_digitizer \in InLoop => posted = <<>>

\* While the buffers are not all allocated the board is idle and has none.
MemoryInv ==
    /\ pc_digitizer \in InLoop \/ board # "idle" => allocated = DmaBuffers
    /\ posted # <<>> => allocated = DmaBuffers
    /\ board = "idle" => full = <<>>
    /\ pc_digitizer \in {"free", "free_last"} => board = "idle" /\ posted = <<>>
    /\ pc_digitizer \in {"configure", "allocate"} => board = "idle" /\ paused

Inv == TypeOK /\ HeldInv /\ ReadInv /\ OverflowInv /\ DmaRingInOrder /\ MemoryInv

\* The invariant holds initially.
LEMMA InvInit == Init => Inv
  <1> SUFFICES ASSUME Init PROVE Inv
    OBVIOUS
  <1>1. BoardTypeOK
    BY DEF Init, BoardTypeOK
  <1>2. DigitizerTypeOK
    <2>1. 0 \in Counter /\ 0 \in Buffer
      BY DEF Counter, Buffer
    <2>2. this_buffer \in Data
      BY <2>1 DEF Init, NoData, Data
    <2>3. paused \in BOOLEAN
      BY DEF Init
    <2> QED BY <2>1, <2>2, <2>3 DEF Init, DigitizerTypeOK
  <1>3. WriterTypeOK
    <2>1. 0 \in Counter
      BY DEF Counter
    <2>2. out \in Seq(Slot) /\ Len(out) <= OutLength
      BY DEF Init
    <2>3. records \in Seq(Record)
      BY DEF Init
    <2>4. start_file \in BOOLEAN
      BY DEF Init
    <2> QED BY <2>1, <2>2, <2>3, <2>4 DEF Init, WriterTypeOK
  <1>4. ControlTypeOK
    <2>1. stop_requested \in BOOLEAN /\ canceled \in BOOLEAN
      BY DEF Init
    <2> QED BY <2>1 DEF Init, ControlTypeOK
  <1>5. HeldInv /\ ReadInv /\ OverflowInv /\ DmaRingInOrder /\ MemoryInv
    BY DEF Init, HeldInv, ReadInv, OverflowInv, DmaRingInOrder, MemoryInv, InLoop
  <1> QED BY <1>1, <1>2, <1>3, <1>4, <1>5 DEF Inv, TypeOK

\* The chunk counter stays below CounterLimit.
LEMMA IncrementType == ASSUME NEW c \in Counter PROVE Increment(c) \in Counter
  <1>1. c + 1 \in Nat /\ CounterLimit \in Nat \ {0}
    BY DEF Counter
  <1> QED BY <1>1, ModRange DEF Increment, Counter

\* Posting all buffers fills the ring from position 0.
LEMMA CommenceStep ==
    ASSUME Commence
    PROVE  /\ board' = "capturing" /\ UNCHANGED <<allocated, block>>
           /\ posted' \in Seq(Buffer) /\ full' \in Seq(Data)
           /\ overrun_collected' = 0 /\ next_read_buffer' = 0
           /\ Len(full') = 0 /\ Len(posted') = DmaBuffers
           /\ \A i \in 1 .. Len(posted') :
                  posted'[i] = (next_read_buffer' + Len(full') + i - 1) % DmaBuffers
  <1>1. posted' \in Seq(Buffer) /\ Len(posted') = DmaBuffers
    BY DEF Commence, Buffer
  <1>2. ASSUME NEW i \in 1 .. DmaBuffers
        PROVE  posted'[i] = (0 + 0 + i - 1) % DmaBuffers
    <2>1. posted'[i] = i - 1 /\ i - 1 \in 0 .. DmaBuffers - 1
      BY DEF Commence
    <2>2. (i - 1) % DmaBuffers = i - 1
      BY <2>1, ModSmall
    <2>3. 0 + 0 + i - 1 = i - 1
      OBVIOUS
    <2> QED BY <2>1, <2>2, <2>3
  <1> QED BY <1>1, <1>2 DEF Commence

\* A failed start posts some of the buffers, or none.
LEMMA HalfPosted ==
    ASSUME ResumeThrows, posted \in Seq(Buffer) PROVE posted' \in Seq(Buffer)
  <1>1. CASE UNCHANGED posted
    BY <1>1
  <1>2. ASSUME NEW n \in 0 .. DmaBuffers, posted' = [i \in 1 .. n |-> i - 1]
        PROVE  posted' \in Seq(Buffer)
    <2>1. \A i \in 1 .. n : i - 1 \in Buffer
      BY DEF Buffer
    <2> QED BY <1>2, <2>1
  <1> QED BY <1>1, <1>2 DEF ResumeThrows

-----------------------------------------------------------------------------
(* Types.                                                                  *)

\* The board's part of the types.
LEMMA BoardType == Inv /\ [Next]_vars => BoardTypeOK'
  <1> SUFFICES ASSUME Inv, [Next]_vars PROVE BoardTypeOK'
    OBVIOUS
  <1>0. BoardTypeOK /\ this_buffer \in Data /\ run \in Nat
    BY DEF Inv, TypeOK, DigitizerTypeOK, ControlTypeOK
  <1>1. CASE Board
    <2>1. CASE FillBuffer
      <3>1. Head(posted) \in Buffer /\ Tail(posted) \in Seq(Buffer)
        BY <1>0, <2>1 DEF FillBuffer, BoardTypeOK
      <3>2. [buffer |-> Head(posted), block |-> block, run |-> run] \in Data
        BY <1>0, <3>1 DEF Data, BoardTypeOK
      <3>3. full' \in Seq(Data)
        BY <1>0, <2>1, <3>2 DEF FillBuffer, BoardTypeOK
      <3> QED BY <1>0, <1>1, <2>1, <3>1, <3>3 DEF Board, FillBuffer, BoardTypeOK
    <2>2. CASE Overflow
      BY <1>0, <1>1, <2>2 DEF Board, Overflow, BoardTypeOK
    <2> QED BY <1>1, <2>1, <2>2 DEF Board
  <1>2. CASE Digitizer
    <2>1. CASE Resume
      BY <1>0, <1>2, <2>1, CommenceStep DEF Digitizer, Resume, BoardTypeOK
    <2>2. CASE Restart
      BY <1>0, <1>2, <2>2, CommenceStep DEF Digitizer, Restart, BoardTypeOK
    <2>3. CASE Pause \/ StopRun \/ ClearAbort
      <3>1. AbortAsyncRead /\ UNCHANGED <<overruns, failures>>
        BY <1>2, <2>3 DEF Digitizer, Pause, StopRun, ClearAbort
      <3> QED BY <1>0, <3>1 DEF AbortAsyncRead, BoardTypeOK
    <2>4. CASE WaitBuffer
      <3>1. Tail(full) \in Seq(Data)
        BY <1>0, <2>4 DEF WaitBuffer, BoardTypeOK
      <3> QED BY <1>0, <1>2, <2>4, <3>1 DEF Digitizer, WaitBuffer, BoardTypeOK
    <2>5. CASE PostBuffer
      <3>1. this_buffer.buffer \in Buffer
        BY <1>0 DEF Data
      <3>2. Append(posted, this_buffer.buffer) \in Seq(Buffer)
        BY <1>0, <3>1 DEF BoardTypeOK
      <3> QED BY <1>0, <1>2, <2>5, <3>2 DEF Digitizer, PostBuffer, BoardTypeOK
    <2>6. CASE \/ LeaveLoop \/ TakeInstruction \/ NoInstruction \/ PauseThrows
               \/ PushFails \/ SkipRead \/ StopRunThrows \/ CallThrows \/ PushData \/ CollectBuffer
               \/ Configure \/ ConfigureThrows \/ Initialized \/ ClearThrows
      <3>1. UNCHANGED <<board_vars, overruns>> /\ failures' \in 0 .. MaxFailures
        BY <1>0, <1>2, <2>6 DEF Digitizer, LeaveLoop, TakeInstruction,
           NoInstruction, PauseThrows, PushFails, SkipRead, StopRunThrows, CallThrows,
           PushData, CollectBuffer, Configure, ConfigureThrows, Initialized,
           ClearThrows, BoardTypeOK
      <3> QED BY <1>0, <3>1 DEF board_vars, BoardTypeOK
    <2>7. CASE AllocateBuffer \/ AllocateThrows \/ FreeBuffers
      <3>1. /\ UNCHANGED <<board, posted, full, block, overruns>>
            /\ allocated' \in 0 .. DmaBuffers /\ failures' \in 0 .. MaxFailures
        BY <1>0, <1>2, <2>7 DEF Digitizer, AllocateBuffer, AllocateThrows,
           FreeBuffers, BoardTypeOK
      <3> QED BY <1>0, <3>1 DEF BoardTypeOK
    <2>8. CASE ResumeThrows
      <3>1. /\ UNCHANGED <<board, full, allocated, block, overruns>>
            /\ failures' \in 0 .. MaxFailures
        BY <1>0, <1>2, <2>8 DEF Digitizer, ResumeThrows, BoardTypeOK
      <3>2. posted' \in Seq(Buffer)
        BY <1>0, <2>8, HalfPosted DEF BoardTypeOK
      <3> QED BY <1>0, <3>1, <3>2 DEF BoardTypeOK
    <2> QED BY <1>2, <2>1, <2>2, <2>3, <2>4, <2>5, <2>6, <2>7, <2>8 DEF Digitizer
  <1>3. CASE Writer
    <2>1. UNCHANGED <<board_vars, overruns>> /\ failures' \in 0 .. MaxFailures
      BY <1>0, <1>3 DEF Writer, WriterStart, WriterRun, WriterRunThrows,
         WriterStop, WriterCanceled, BoardTypeOK
    <2> QED BY <1>0, <2>1 DEF board_vars, BoardTypeOK
  <1>4. CASE RunControl
    BY <1>0, <1>4 DEF RunControl, board_vars, BoardTypeOK
  <1>5. CASE UNCHANGED vars
    BY <1>0, <1>5 DEF vars, board_vars, BoardTypeOK
  <1> QED BY <1>1, <1>2, <1>3, <1>4, <1>5 DEF Next

\* The digitizer's part: no more buffers are read than the run asks for.
LEMMA DigitizerType == Inv /\ [Next]_vars => DigitizerTypeOK'
  <1> SUFFICES ASSUME Inv, [Next]_vars PROVE DigitizerTypeOK'
    OBVIOUS
  <1> USE DEF Inv, TypeOK, DigitizerTypeOK
  <1>1. CASE Board
    BY <1>1 DEF Board, digitizer_vars, read_vars
  <1>2. CASE Digitizer
    <2>1. CASE Resume \/ ResumeThrows
      <3>1. /\ UNCHANGED <<instruction, this_buffer>> /\ paused' = FALSE
            /\ buffers_completed' = 0 /\ chunk_counter' = 0
            /\ pc_digitizer' \in {"read", "done"}
        BY <2>1 DEF Resume, ResumeThrows, DigitizerGoes
      <3>2. overrun_collected' \in Buffer /\ next_read_buffer' \in Nat
        <4>1. 0 \in Buffer
          BY DEF Buffer
        <4>2. CASE Resume
          BY <4>1, <4>2 DEF Resume, Commence
        <4>3. CASE ResumeThrows
          BY <4>1, <4>3 DEF ResumeThrows
        <4> QED BY <2>1, <4>2, <4>3
      <3>3. 0 \in Counter
        BY DEF Counter
      <3>4. paused' \in BOOLEAN
        BY <3>1
      <3>5. UNCHANGED <<instruction, this_buffer>>
            /\ buffers_completed' \in 0 .. BuffersPerRun /\ chunk_counter' \in Counter
        BY <3>1, <3>3
      <3> QED BY <3>1, <3>2, <3>4, <3>5
    <2>2. CASE Pause \/ PauseThrows \/ StopRun \/ StopRunThrows
      BY <1>2, <2>2 DEF Digitizer, Pause, PauseThrows, StopRun, StopRunThrows,
         DigitizerGoes, read_vars, Untouched
    <2>3. CASE WaitBuffer
      BY <1>2, <2>3 DEF Digitizer, WaitBuffer, BoardTypeOK, DigitizerGoes
    <2>4. CASE PostBuffer
      BY <1>2, <2>4, IncrementType DEF Digitizer, PostBuffer, DigitizerGoes, HeldInv
    <2>5. CASE CollectBuffer
      BY <1>2, <2>5, IncrementType DEF Digitizer, CollectBuffer, DigitizerGoes,
         HeldInv, RingCollected, Buffer
    <2>6. CASE Restart
      <3>1. Increment(chunk_counter) \in Counter
        BY IncrementType
      <3>2. Increment(Increment(chunk_counter)) \in Counter
        BY <3>1, IncrementType
      <3>3. buffers_completed + 1 \in 0 .. BuffersPerRun
        BY <2>6 DEF HeldInv, Restart, DigitizerGoes
      <3>4. UNCHANGED <<instruction, paused, this_buffer>>
            /\ pc_digitizer' = "check"
            /\ overrun_collected' = 0 /\ next_read_buffer' = 0
        BY <2>6 DEF Restart, Commence, DigitizerGoes
      <3>5. chunk_counter' \in Counter /\ buffers_completed' \in 0 .. BuffersPerRun
        BY <2>6, <3>2, <3>3 DEF Restart
      <3> QED BY <3>4, <3>5 DEF Buffer
    <2>7. CASE TakeInstruction
      BY <1>2, <2>7 DEF Digitizer, TakeInstruction, DigitizerGoes, read_vars
    <2>8. CASE LeaveLoop \/ NoInstruction \/ PushFails \/ SkipRead
               \/ CallThrows \/ PushData
      BY <1>2, <2>8 DEF Digitizer, LeaveLoop, NoInstruction, PushFails,
         SkipRead, CallThrows, PushData, read_vars, Untouched, DigitizerGoes
    <2>9. CASE \/ Configure \/ ConfigureThrows \/ AllocateBuffer \/ AllocateThrows
               \/ Initialized \/ ClearAbort \/ FreeBuffers \/ ClearThrows
      <3>1. UNCHANGED <<read_vars, Untouched>>
            /\ pc_digitizer' \in {"allocate", "done", "check", "free", "finalized",
                                  "free_last", "destroyed", "terminated"}
        BY <2>9 DEF Configure, ConfigureThrows, AllocateBuffer, AllocateThrows,
           Initialized, ClearAbort, FreeBuffers, ClearThrows, DigitizerGoes
      <3> QED BY <3>1 DEF read_vars, Untouched
    <2> QED BY <1>2, <2>1, <2>2, <2>3, <2>4, <2>5, <2>6, <2>7, <2>8, <2>9 DEF Digitizer
  <1>3. CASE Writer
    BY <1>3 DEF Writer, digitizer_vars, read_vars
  <1>4. CASE RunControl
    BY <1>4 DEF RunControl, digitizer_vars, read_vars, StartRun, EndRun,
       FinishFiles, FinishFilesFails, Cancel
  <1>5. CASE UNCHANGED vars
    BY <1>5 DEF vars, digitizer_vars, read_vars
  <1> QED BY <1>1, <1>2, <1>3, <1>4, <1>5 DEF Next

\* What the writer takes from the stream makes a record.
LEMMA RecordType ==
    ASSUME TypeOK, Takes("s_run")
    PROVE  /\ Head(out).chunk \in Counter
           /\ \A new \in BOOLEAN :
                  [file |-> swrap, id |-> Head(out).chunk,
                   block |-> Head(out).block, run |-> Head(out).run,
                   new |-> new] \in Record
  <1>1. Head(out) \in Slot /\ Head(out).command = "s_run"
    BY DEF TypeOK, WriterTypeOK, Takes
  <1>2. Head(out) \in [command : {"s_run"}, chunk : Counter, block : Nat, run : Nat]
    BY <1>1 DEF Slot
  <1> QED BY <1>2 DEF Record, TypeOK, WriterTypeOK

\* The stream's and the writer's part.
LEMMA WriterType == Inv /\ [Next]_vars => WriterTypeOK'
  <1> SUFFICES ASSUME Inv, [Next]_vars PROVE WriterTypeOK'
    OBVIOUS
  <1>0. TypeOK /\ WriterTypeOK /\ run \in Nat
    BY DEF Inv, TypeOK, ControlTypeOK
  <1>1. CASE Board
    BY <1>0, <1>1 DEF Board, writer_vars, WriterTypeOK
  <1>2. CASE Digitizer
    <2>1. out' \in Seq(Slot) /\ Len(out') <= OutLength
      <3>1. CASE UNCHANGED out
        BY <1>0, <3>1 DEF WriterTypeOK
      <3>2. ASSUME NEW slot \in Slot, PushOut(slot)
            PROVE  out' \in Seq(Slot) /\ Len(out') <= OutLength
        BY <1>0, <3>2 DEF PushOut, WriterTypeOK
      <3>3. CASE Resume \/ ResumeThrows \/ Pause \/ PauseThrows
        <4>1. [command |-> "s_start"] \in Slot /\ [command |-> "s_stop"] \in Slot
          BY DEF Slot
        <4> QED BY <3>2, <3>3, <4>1 DEF Resume, ResumeThrows, Pause, PauseThrows
      <3>4. CASE PushData
        <4>1. [command |-> "s_run", chunk |-> chunk_counter,
               block |-> this_buffer.block, run |-> this_buffer.run] \in Slot
          BY <1>0 DEF TypeOK, DigitizerTypeOK, Data, Slot
        <4> QED BY <3>2, <3>4, <4>1 DEF PushData
      <3>5. CASE \/ LeaveLoop \/ TakeInstruction \/ NoInstruction \/ PushFails
                 \/ SkipRead \/ StopRun \/ WaitBuffer \/ StopRunThrows \/ CallThrows
                 \/ PostBuffer \/ CollectBuffer \/ Restart
                 \/ Configure \/ ConfigureThrows \/ AllocateBuffer
                 \/ AllocateThrows \/ Initialized \/ ClearAbort \/ FreeBuffers
                 \/ ClearThrows
        BY <3>1, <3>5 DEF LeaveLoop, TakeInstruction, NoInstruction, PushFails,
           SkipRead, StopRun, WaitBuffer, StopRunThrows, CallThrows, PostBuffer, CollectBuffer,
           Restart, Configure, ConfigureThrows, AllocateBuffer, AllocateThrows,
           Initialized, ClearAbort, FreeBuffers, ClearThrows
      <3> QED BY <1>2, <3>3, <3>4, <3>5 DEF Digitizer
    <2> QED BY <1>0, <1>2, <2>1 DEF Digitizer, writer_vars, WriterTypeOK
  <1>3. CASE Writer
    <2>1. ASSUME NEW command, Takes(command)
          PROVE  out' \in Seq(Slot) /\ Len(out') <= OutLength
      BY <1>0, <2>1 DEF Takes, WriterTypeOK
    <2>2. CASE WriterStart
      <3>1. start_file' \in BOOLEAN
        BY <1>0, <2>2 DEF WriterStart, WriterTypeOK
      <3> QED BY <1>0, <2>1, <2>2, <3>1 DEF WriterStart, WriterTypeOK
    <2>3. CASE WriterRun
      <3> DEFINE new == start_file \/ Head(out).chunk # ExpectedPacket
                 record == [file |-> swrap, id |-> Head(out).chunk,
                            block |-> Head(out).block, run |-> Head(out).run,
                            new |-> new]
      <3>1. Takes("s_run") /\ records' = Append(records, record)
            /\ last_pkt' = Head(out).chunk /\ start_file' = FALSE
            /\ UNCHANGED <<swrap, pc_writer>>
        BY <2>3 DEF WriterRun
      <3>2. new \in BOOLEAN
        BY <1>0, Zenon DEF WriterTypeOK
      <3>3. record \in Record /\ last_pkt' \in Counter
        BY <1>0, <3>1, <3>2, RecordType
      <3> HIDE DEF record
      <3>4. Append(records, record) \in Seq(Record)
        BY <1>0, <3>3 DEF WriterTypeOK
      <3> QED BY <1>0, <2>1, <3>1, <3>3, <3>4 DEF WriterTypeOK
    <2>4. CASE WriterRunThrows \/ WriterStop
      BY <1>0, <2>1, <2>4 DEF WriterRunThrows, WriterStop, WriterTypeOK
    <2>5. CASE WriterCanceled
      BY <1>0, <2>5 DEF WriterCanceled, WriterTypeOK
    <2> QED BY <1>3, <2>2, <2>3, <2>4, <2>5 DEF Writer
  <1>4. CASE RunControl
    BY <1>0, <1>4 DEF RunControl, writer_vars, WriterTypeOK
  <1>5. CASE UNCHANGED vars
    BY <1>0, <1>5 DEF vars, writer_vars, WriterTypeOK
  <1> QED BY <1>1, <1>2, <1>3, <1>4, <1>5 DEF Next

\* Run control's part.
LEMMA ControlType == Inv /\ [Next]_vars => ControlTypeOK'
  <1> SUFFICES ASSUME Inv, [Next]_vars PROVE ControlTypeOK'
    OBVIOUS
  <1>0. ControlTypeOK
    BY DEF Inv, TypeOK
  <1>1. run' \in 0 .. MaxRuns
        /\ pc_control' \in {"idle", "running", "finishing", "failed"}
    <2>1. CASE RunControl
      BY <1>0, <2>1 DEF RunControl, StartRun, EndRun, FinishFiles,
         FinishFilesFails, Cancel, ControlTypeOK
    <2>2. CASE ~RunControl
      BY <1>0, <2>2 DEF Next, Board, Digitizer, Writer, control_vars, vars, ControlTypeOK
    <2> QED BY <2>1, <2>2
  <1>2. stop_requested' \in BOOLEAN
    <2>1. CASE Digitizer
      BY <1>0, <2>1, Zenon DEF Digitizer, LeaveLoop, TakeInstruction,
         NoInstruction, Resume, ResumeThrows, Pause, PauseThrows, PushFails, SkipRead,
         StopRun, WaitBuffer, StopRunThrows, CallThrows, PushData, PostBuffer, CollectBuffer,
         Restart, Configure, ConfigureThrows, AllocateBuffer, AllocateThrows,
         Initialized, ClearAbort, FreeBuffers, ClearThrows, Untouched, ControlTypeOK
    <2>2. CASE ~Digitizer
      BY <1>0, <2>2, Zenon DEF Next, Board, Writer, RunControl, StartRun, EndRun,
         FinishFiles, FinishFilesFails, Cancel, control_vars, vars, ControlTypeOK
    <2> QED BY <2>1, <2>2
  <1>3. canceled' \in BOOLEAN
    BY <1>0, Zenon DEF Next, Board, Digitizer, Writer, WriterStart, WriterRun,
       WriterRunThrows, WriterStop, WriterCanceled, RunControl, StartRun, EndRun,
       FinishFiles, FinishFilesFails, Cancel, control_vars, vars, ControlTypeOK
  <1> QED BY <1>1, <1>2, <1>3 DEF ControlTypeOK

-----------------------------------------------------------------------------
(* The ring.                                                               *)

\* What Inv says besides the types.
RingInv == HeldInv /\ ReadInv /\ OverflowInv /\ DmaRingInOrder

USE DEF InLoop

\* The board takes the oldest posted buffer, which becomes the newest filled.
LEMMA RingFill == Inv /\ Board => RingInv'
  <1> SUFFICES ASSUME Inv, Board PROVE RingInv'
    OBVIOUS
  <1>0. /\ DmaRingInOrder /\ posted \in Seq(Buffer) /\ full \in Seq(Data)
        /\ next_read_buffer \in Nat
    BY DEF Inv, TypeOK, BoardTypeOK, DigitizerTypeOK
  <1>1. /\ UNCHANGED <<paused, buffers_completed, overrun_collected,
                       next_read_buffer, this_buffer, pc_digitizer>>
        /\ board # "idle"
    BY DEF Board, FillBuffer, Overflow, digitizer_vars, read_vars
  <1>2. HeldInv' /\ ReadInv'
    <2>1. board' # "idle"
      BY DEF Board, FillBuffer, Overflow
    <2> QED BY <1>1, <2>1 DEF Inv, HeldInv, ReadInv, AllCompleted
  <1>3. CASE FillBuffer
    <2>1. /\ posted # <<>> /\ posted' = Tail(posted) /\ board' = board
          /\ board = "capturing"
      BY <1>3 DEF FillBuffer
    <2> DEFINE r == [buffer |-> Head(posted), block |-> block, run |-> run]
    <2>2. full' = Append(full, r) /\ r.buffer = posted[1]
      BY <1>0, <1>3 DEF FillBuffer
    <2> HIDE DEF r
    <2>3. /\ Len(full') = Len(full) + 1
          /\ \A i \in 1 .. Len(full) : full'[i] = full[i]
          /\ full'[Len(full) + 1] = r
      BY <1>0, <2>2
    <2>4. /\ Len(posted') = Len(posted) - 1 /\ Len(posted) > 0
          /\ \A i \in 1 .. Len(posted') : posted'[i] = posted[i + 1]
      BY <1>0, <2>1
    <2>5. ASSUME pc_digitizer \in InLoop PROVE DmaRingInOrder'
      <3>1. /\ \A i \in 1 .. Len(full) :
                   full[i].buffer = (next_read_buffer + i - 1) % DmaBuffers
            /\ \A i \in 1 .. Len(posted) :
                   posted[i] = (next_read_buffer + Len(full) + i - 1) % DmaBuffers
            /\ Len(full) + Len(posted) + Held + overrun_collected = DmaBuffers
        BY <1>0, <1>1, <2>5 DEF DmaRingInOrder
      <3>2. Len(full) \in Nat /\ Len(posted) \in Nat
        BY <1>0
      <3>3. ASSUME NEW i \in 1 .. Len(full')
            PROVE  full'[i].buffer = (next_read_buffer + i - 1) % DmaBuffers
        <4>1. CASE i \in 1 .. Len(full)
          BY <4>1, <3>1, <2>3
        <4>2. CASE i = Len(full) + 1
          <5>1. posted[1] = (next_read_buffer + Len(full) + 1 - 1) % DmaBuffers
            BY <3>1, <3>2, <2>4
          <5>2. next_read_buffer + Len(full) + 1 - 1 = next_read_buffer + i - 1
            BY <4>2, <3>2, <1>0
          <5> QED BY <4>2, <5>1, <5>2, <2>2, <2>3
        <4> QED BY <4>1, <4>2, <2>3, <3>2
      <3>4. ASSUME NEW i \in 1 .. Len(posted')
            PROVE  posted'[i] = (next_read_buffer + Len(full') + i - 1) % DmaBuffers
        <4>1. i + 1 \in 1 .. Len(posted)
          BY <2>4, <3>2
        <4>2. posted'[i] = (next_read_buffer + Len(full) + (i + 1) - 1) % DmaBuffers
          BY <4>1, <2>4, <3>1
        <4>3. next_read_buffer + Len(full) + (i + 1) - 1
              = next_read_buffer + Len(full') + i - 1
          BY <1>0, <2>3, <3>2
        <4> QED BY <4>2, <4>3
      <3>5. Len(full') + Len(posted') + Held' + overrun_collected' = DmaBuffers
        <4>1. Held' = Held /\ Held \in Nat
          BY <1>1 DEF Held
        <4>2. overrun_collected' = overrun_collected /\ overrun_collected \in Nat
          BY <1>1 DEF Inv, TypeOK, DigitizerTypeOK, Buffer
        <4>3. Len(full') = Len(full) + 1 /\ Len(posted') = Len(posted) - 1
          BY <2>3, <2>4
        <4>4. Len(full) + Len(posted) + Held + overrun_collected = DmaBuffers
          BY <3>1
        <4> HIDE DEF Held
        <4> QED BY <4>1, <4>2, <4>3, <4>4, <3>2
      <3>6. next_read_buffer' = next_read_buffer
        BY <1>1
      <3> QED BY <3>3, <3>4, <3>5, <3>6 DEF DmaRingInOrder
    <2>6. DmaRingInOrder'
      <3>1. CASE pc_digitizer \notin InLoop
        <4>1. pc_digitizer' \notin InLoop
          BY <1>1, <3>1
        <4> QED BY <4>1 DEF DmaRingInOrder
      <3> QED BY <2>5, <3>1
    <2> QED BY <1>2, <2>1, <2>6 DEF RingInv, OverflowInv
  <1>4. CASE Overflow
    BY <1>0, <1>1, <1>2, <1>4 DEF Overflow, RingInv, OverflowInv, DmaRingInOrder, Held
  <1> QED BY <1>3, <1>4 DEF Board

\* The digitizer takes the oldest filled buffer.
LEMMA RingWait == Inv /\ WaitBuffer => RingInv'
  <1> SUFFICES ASSUME Inv, WaitBuffer PROVE RingInv'
    OBVIOUS
  <1>0. /\ posted \in Seq(Buffer) /\ full \in Seq(Data)
        /\ next_read_buffer \in Nat /\ overrun_collected \in Nat
        /\ buffers_completed \in Nat
    BY DEF Inv, TypeOK, BoardTypeOK, DigitizerTypeOK, Buffer
  <1>1. /\ ~paused /\ ~AllCompleted /\ full # <<>>
        /\ Head(full).buffer = next_read_buffer % DmaBuffers
        /\ pc_digitizer = "read" /\ pc_digitizer' = "push"
        /\ this_buffer' = Head(full) /\ full' = Tail(full)
        /\ next_read_buffer' = next_read_buffer + 1
        /\ UNCHANGED <<board, posted, paused, buffers_completed,
                       overrun_collected>>
    BY DEF WaitBuffer, DigitizerGoes
  <1>2. board # "idle"
    BY <1>1 DEF Inv, ReadInv
  <1>3. HeldInv'
    <2>1. next_read_buffer' > 0 /\ next_read_buffer' - 1 = next_read_buffer
      BY <1>0, <1>1
    <2>2. buffers_completed < BuffersPerRun
      BY <1>0, <1>1 DEF AllCompleted
    <2> QED BY <1>1, <1>2, <2>1, <2>2 DEF HeldInv
  <1>4. ReadInv' /\ OverflowInv'
    BY <1>1 DEF Inv, ReadInv, OverflowInv
  <1>5. /\ Len(full') = Len(full) - 1 /\ Len(full) > 0
        /\ \A i \in 1 .. Len(full') : full'[i] = full[i + 1]
        /\ Len(full) \in Nat /\ Len(posted) \in Nat
    BY <1>0, <1>1
  <1>6. /\ \A i \in 1 .. Len(full) :
               full[i].buffer = (next_read_buffer + i - 1) % DmaBuffers
        /\ \A i \in 1 .. Len(posted) :
               posted[i] = (next_read_buffer + Len(full) + i - 1) % DmaBuffers
        /\ Len(full) + Len(posted) + Held + overrun_collected = DmaBuffers
    BY <1>1, <1>2 DEF Inv, DmaRingInOrder
  <1>7. ASSUME NEW i \in 1 .. Len(full')
        PROVE  full'[i].buffer = (next_read_buffer' + i - 1) % DmaBuffers
    <2>1. i + 1 \in 1 .. Len(full)
      BY <1>5
    <2>2. full'[i].buffer = (next_read_buffer + (i + 1) - 1) % DmaBuffers
      BY <2>1, <1>5, <1>6
    <2>3. next_read_buffer + (i + 1) - 1 = next_read_buffer' + i - 1
      BY <1>0, <1>1, <1>5
    <2> QED BY <2>2, <2>3
  <1>8. ASSUME NEW i \in 1 .. Len(posted')
        PROVE  posted'[i] = (next_read_buffer' + Len(full') + i - 1) % DmaBuffers
    <2>1. next_read_buffer + Len(full) + i - 1
          = next_read_buffer' + Len(full') + i - 1
      BY <1>0, <1>1, <1>5
    <2> QED BY <2>1, <1>1, <1>6
  <1>9. Len(full') + Len(posted') + Held' + overrun_collected' = DmaBuffers
    <2>1. Held = 0 /\ Held' = 1
      BY <1>1 DEF Held
    <2> QED BY <2>1, <1>0, <1>1, <1>5, <1>6
  <1> QED BY <1>3, <1>4, <1>7, <1>8, <1>9 DEF RingInv, DmaRingInOrder

\* The buffer goes back behind the youngest posted one: once round the ring.
LEMMA RingPost == Inv /\ PostBuffer => RingInv'
  <1> SUFFICES ASSUME Inv, PostBuffer PROVE RingInv'
    OBVIOUS
  <1>0. /\ posted \in Seq(Buffer) /\ full \in Seq(Data)
        /\ next_read_buffer \in Nat /\ overrun_collected \in Nat
    BY DEF Inv, TypeOK, BoardTypeOK, DigitizerTypeOK, Buffer
  <1>1. /\ pc_digitizer = "return" /\ pc_digitizer' = "check"
        /\ overrun_collected = 0 /\ board = "capturing"
        /\ posted' = Append(posted, this_buffer.buffer)
        /\ UNCHANGED <<board, full, overrun_collected, next_read_buffer>>
    BY DEF PostBuffer, DigitizerGoes
  <1>2. next_read_buffer > 0
        /\ this_buffer.buffer = (next_read_buffer - 1) % DmaBuffers
    BY <1>1 DEF Inv, HeldInv
  <1>3. HeldInv' /\ ReadInv' /\ OverflowInv'
    BY <1>1 DEF HeldInv, ReadInv, OverflowInv
  <1>4. /\ Len(posted') = Len(posted) + 1
        /\ \A i \in 1 .. Len(posted) : posted'[i] = posted[i]
        /\ posted'[Len(posted) + 1] = this_buffer.buffer
        /\ Len(full) \in Nat /\ Len(posted) \in Nat
    BY <1>0, <1>1
  <1>5. /\ \A i \in 1 .. Len(full) :
               full[i].buffer = (next_read_buffer + i - 1) % DmaBuffers
        /\ \A i \in 1 .. Len(posted) :
               posted[i] = (next_read_buffer + Len(full) + i - 1) % DmaBuffers
        /\ Len(full) + Len(posted) + 1 = DmaBuffers
    <2>1. Held = 1
      BY <1>1 DEF Held
    <2>2. /\ \A i \in 1 .. Len(full) :
                 full[i].buffer = (next_read_buffer + i - 1) % DmaBuffers
          /\ \A i \in 1 .. Len(posted) :
                 posted[i] = (next_read_buffer + Len(full) + i - 1) % DmaBuffers
          /\ Len(full) + Len(posted) + Held + overrun_collected = DmaBuffers
      BY <1>1 DEF Inv, DmaRingInOrder
    <2> QED BY <2>1, <2>2, <1>1, <1>4
  <1>6. ASSUME NEW i \in 1 .. Len(posted')
        PROVE  posted'[i] = (next_read_buffer + Len(full) + i - 1) % DmaBuffers
    <2>1. CASE i \in 1 .. Len(posted)
      BY <2>1, <1>4, <1>5
    <2>2. CASE i = Len(posted) + 1
      <3>1. next_read_buffer - 1 \in Nat
        BY <1>0, <1>2
      <3>2. (next_read_buffer - 1 + DmaBuffers) % DmaBuffers
            = (next_read_buffer - 1) % DmaBuffers
        BY <3>1, OnceRound
      <3>3. next_read_buffer + Len(full) + i - 1 = next_read_buffer - 1 + DmaBuffers
        <4>1. Len(full) + Len(posted) + 1 = DmaBuffers
              /\ Len(full) \in Nat /\ Len(posted) \in Nat
          BY <1>4, <1>5
        <4> QED BY <4>1, <2>2, <1>0
      <3>4. posted'[i] = (next_read_buffer - 1) % DmaBuffers
        BY <2>2, <1>2, <1>4
      <3> QED BY <3>2, <3>3, <3>4
    <2> QED BY <2>1, <2>2, <1>4
  <1>7. Len(full') + Len(posted') + Held' + overrun_collected' = DmaBuffers
    <2>1. Held' = 0
      BY <1>1 DEF Held
    <2> QED BY <2>1, <1>1, <1>4, <1>5
  <1>8. DmaRingInOrder'
    BY <1>1, <1>5, <1>6, <1>7 DEF DmaRingInOrder
  <1> QED BY <1>3, <1>8 DEF RingInv

\* All buffers are posted again, from position 0.
LEMMA RingCommence == Inv /\ (Resume \/ Restart) => RingInv'
  <1> SUFFICES ASSUME Inv, Resume \/ Restart PROVE RingInv'
    OBVIOUS
  <1>1. Commence /\ pc_digitizer' \in {"read", "check"}
    BY DEF Resume, Restart, DigitizerGoes
  <1>2. HeldInv' /\ ReadInv' /\ OverflowInv'
    BY <1>1, CommenceStep DEF HeldInv, ReadInv, OverflowInv
  <1>3. Held' = 0
    BY <1>1 DEF Held
  <1>4. DmaRingInOrder'
    BY <1>1, <1>3, CommenceStep DEF DmaRingInOrder
  <1> QED BY <1>2, <1>4 DEF RingInv

\* The rest of the loop keeps the ring or gives it up.
LEMMA RingDigitizer == Inv /\ Digitizer => RingInv'
  <1> SUFFICES ASSUME Inv, Digitizer PROVE RingInv'
    OBVIOUS
  <1>0. RingInv /\ TypeOK
    BY DEF Inv, RingInv
  <1>1. CASE \/ LeaveLoop \/ StopRunThrows \/ CallThrows \/ ResumeThrows \/ PauseThrows
             \/ Configure
             \/ ConfigureThrows \/ AllocateBuffer \/ AllocateThrows
             \/ FreeBuffers \/ ClearThrows
    <2>1. pc_digitizer' \notin InLoop
      BY <1>1 DEF LeaveLoop, StopRunThrows, CallThrows, ResumeThrows, PauseThrows,
         Configure, ConfigureThrows,
         AllocateBuffer, AllocateThrows, FreeBuffers, ClearThrows,
         DigitizerGoes, board_vars
    <2> QED BY <1>0, <2>1 DEF RingInv, HeldInv, ReadInv, OverflowInv, DmaRingInOrder
  <1>2. CASE TakeInstruction \/ NoInstruction
    <2>1. /\ pc_digitizer = "check" /\ pc_digitizer' \in {"start", "stop", "read"}
          /\ UNCHANGED <<board_vars, read_vars, paused, buffers_completed>>
      BY <1>2 DEF TakeInstruction, NoInstruction, DigitizerGoes, Untouched
    <2> QED BY <1>0, <2>1 DEF RingInv, HeldInv, ReadInv, OverflowInv,
               DmaRingInOrder, Held, board_vars, read_vars, AllCompleted
  <1>3. CASE Pause \/ StopRun \/ ClearAbort
    <2>1. /\ board' = "idle"
          /\ pc_digitizer' \in {"read", "check", "free", "free_last"}
          /\ pc_digitizer' \in InLoop => paused' \/ AllCompleted'
      BY <1>3 DEF Pause, StopRun, ClearAbort, DigitizerGoes, AbortAsyncRead, AllCompleted
    <2> QED BY <2>1 DEF RingInv, HeldInv, ReadInv, OverflowInv, DmaRingInOrder
  <1>4. CASE PushFails \/ PushData
    <2>1. /\ \/ pc_digitizer = "push" /\ pc_digitizer' = "return"
             \/ pc_digitizer' = "done"
          /\ UNCHANGED <<board_vars, read_vars, paused, buffers_completed,
                         this_buffer>>
      BY <1>4 DEF PushFails, PushData, DigitizerGoes, Untouched
    <2> QED BY <1>0, <2>1 DEF RingInv, HeldInv, ReadInv, OverflowInv,
               DmaRingInOrder, Held, board_vars, read_vars
  <1>5. CASE SkipRead
    <2>1. /\ paused /\ pc_digitizer = "read" /\ pc_digitizer' = "check"
          /\ UNCHANGED <<board_vars, read_vars, paused>>
      BY <1>5 DEF SkipRead, DigitizerGoes, Untouched
    <2> QED BY <1>0, <2>1 DEF RingInv, HeldInv, ReadInv, OverflowInv,
               DmaRingInOrder, Held, board_vars, read_vars
  <1>6. CASE CollectBuffer
    <2>1. /\ pc_digitizer = "return" /\ pc_digitizer' = "check"
          /\ overrun_collected' = overrun_collected + 1
          /\ UNCHANGED <<board_vars, next_read_buffer, paused>>
      BY <1>6 DEF CollectBuffer, DigitizerGoes
    <2>2. board # "idle"
      BY <1>0, <2>1 DEF RingInv, HeldInv
    <2>3. Held = 1 /\ Held' = 0 /\ overrun_collected \in Nat
          /\ Len(full) \in Nat /\ Len(posted) \in Nat
      BY <1>0, <2>1 DEF Held, TypeOK, BoardTypeOK, DigitizerTypeOK, Buffer
    <2>4. Len(full) + Len(posted) + Held' + overrun_collected' = DmaBuffers
      <3>1. Len(full) + Len(posted) + Held + overrun_collected = DmaBuffers
        BY <1>0, <2>1, <2>2 DEF RingInv, DmaRingInOrder
      <3> QED BY <3>1, <2>1, <2>3
    <2>5. DmaRingInOrder'
      BY <1>0, <2>1, <2>2, <2>4 DEF RingInv, DmaRingInOrder, board_vars
    <2> QED BY <1>0, <2>1, <2>2, <2>5 DEF RingInv, HeldInv, ReadInv, OverflowInv,
               board_vars
  <1>7. CASE Initialized
    <2>1. /\ board = "idle" /\ paused /\ pc_digitizer' = "check"
          /\ UNCHANGED <<board, posted, paused>>
      BY <1>7 DEF Initialized, DigitizerGoes, Inv, MemoryInv, Untouched, board_vars
    <2> QED BY <1>0, <2>1 DEF RingInv, HeldInv, ReadInv, OverflowInv, DmaRingInOrder
  <1> QED BY <1>1, <1>2, <1>3, <1>4, <1>5, <1>6, <1>7, RingWait, RingPost,
             RingCommence
          DEF Digitizer

-----------------------------------------------------------------------------
(* The memory.                                                             *)

\* Buffers are freed only when the board is idle, and posted only when they
\* are all there.
LEMMA MemoryStep == Inv /\ [Next]_vars => MemoryInv'
  <1> SUFFICES ASSUME Inv, [Next]_vars PROVE MemoryInv'
    OBVIOUS
  <1>0. MemoryInv /\ TypeOK
    BY DEF Inv
  <1>1. CASE Board
    BY <1>0, <1>1 DEF Board, FillBuffer, Overflow, MemoryInv, digitizer_vars, read_vars
  <1>2. CASE Digitizer
    <2>1. CASE Configure \/ ConfigureThrows \/ Initialized
      <3>1. /\ pc_digitizer \in {"configure", "allocate"}
            /\ pc_digitizer' \in {"allocate", "done", "check"}
            /\ pc_digitizer' = "check" => allocated = DmaBuffers
            /\ UNCHANGED <<board, posted, full, allocated, paused>>
        BY <2>1 DEF Configure, ConfigureThrows, Initialized, DigitizerGoes,
           Untouched, board_vars
      <3> QED BY <1>0, <3>1 DEF MemoryInv
    <2>2. CASE AllocateBuffer \/ AllocateThrows
      <3>1. /\ pc_digitizer = "allocate" /\ pc_digitizer' \in {"allocate", "done"}
            /\ allocated < DmaBuffers
            /\ UNCHANGED <<board, posted, full, paused>>
        BY <2>2 DEF AllocateBuffer, AllocateThrows, DigitizerGoes, Untouched
      <3>2. posted = <<>>
        BY <1>0, <3>1 DEF MemoryInv
      <3> QED BY <1>0, <3>1, <3>2 DEF MemoryInv
    <2>3. CASE Resume \/ Restart
      <3>1. /\ Commence /\ pc_digitizer \in {"start", "return"}
            /\ pc_digitizer' \in {"read", "check"}
        BY <2>3 DEF Resume, Restart, DigitizerGoes
      <3> QED BY <1>0, <3>1, CommenceStep DEF MemoryInv
    <2>4. CASE Pause \/ StopRun
      <3>1. /\ AbortAsyncRead /\ pc_digitizer \in {"stop", "read"}
            /\ pc_digitizer' \in {"read", "check"}
        BY <2>4 DEF Pause, StopRun, DigitizerGoes
      <3> QED BY <1>0, <3>1 DEF MemoryInv, AbortAsyncRead
    <2>5. CASE \/ LeaveLoop \/ TakeInstruction \/ NoInstruction \/ PauseThrows
               \/ PushFails \/ SkipRead \/ StopRunThrows \/ CallThrows \/ PushData \/ CollectBuffer
      <3>1. /\ pc_digitizer \in InLoop /\ pc_digitizer' \in InLoop \cup {"done"}
            /\ UNCHANGED <<board, posted, full, allocated>>
        BY <2>5 DEF LeaveLoop, TakeInstruction, NoInstruction, PauseThrows,
           PushFails, SkipRead, StopRunThrows, CallThrows, PushData, CollectBuffer,
           DigitizerGoes, board_vars
      <3> QED BY <1>0, <3>1 DEF MemoryInv
    <2>6. CASE WaitBuffer \/ PostBuffer
      <3>1. /\ pc_digitizer \in {"read", "return"} /\ pc_digitizer' \in {"push", "check"}
            /\ board # "idle" /\ UNCHANGED <<board, allocated>>
        BY <1>0, <2>6 DEF WaitBuffer, PostBuffer, DigitizerGoes, MemoryInv
      <3> QED BY <1>0, <3>1 DEF MemoryInv
    <2>7. CASE ClearAbort
      BY <1>0, <2>7 DEF ClearAbort, DigitizerGoes, AbortAsyncRead, MemoryInv
    <2>8. CASE FreeBuffers
      BY <1>0, <2>8 DEF FreeBuffers, DigitizerGoes, MemoryInv
    <2>9. CASE ClearThrows
      BY <1>0, <2>9 DEF ClearThrows, DigitizerGoes, MemoryInv, board_vars
    <2>10. CASE ResumeThrows
      <3>1. /\ pc_digitizer = "start" /\ pc_digitizer' = "done"
            /\ UNCHANGED <<board, full, allocated>>
        BY <2>10 DEF ResumeThrows, DigitizerGoes
      <3> QED BY <1>0, <3>1 DEF MemoryInv
    <2> QED BY <1>2, <2>1, <2>2, <2>3, <2>4, <2>5, <2>6, <2>7, <2>8, <2>9, <2>10
            DEF Digitizer
  <1>3. CASE Writer \/ RunControl \/ UNCHANGED vars
    <2>1. UNCHANGED <<board_vars, digitizer_vars>>
      BY <1>3 DEF Writer, RunControl, vars
    <2> QED BY <1>0, <2>1 DEF MemoryInv, board_vars, digitizer_vars
  <1> QED BY <1>1, <1>2, <1>3 DEF Next

\* Every step keeps the invariant.
LEMMA InvStep == Inv /\ [Next]_vars => Inv'
  <1> SUFFICES ASSUME Inv, [Next]_vars PROVE Inv'
    OBVIOUS
  <1>1. TypeOK'
    BY BoardType, DigitizerType, WriterType, ControlType DEF TypeOK
  <1>2. RingInv'
    <2>1. CASE Writer \/ RunControl \/ UNCHANGED vars
      <3>1. UNCHANGED <<board_vars, digitizer_vars>>
        BY <2>1 DEF Writer, RunControl, vars
      <3> QED BY <3>1 DEF Inv, RingInv, HeldInv, ReadInv, OverflowInv,
                 DmaRingInOrder, Held, AllCompleted, board_vars,
                 digitizer_vars, read_vars
    <2> QED BY <2>1, RingFill, RingDigitizer DEF Next
  <1> QED BY <1>1, <1>2, MemoryStep DEF Inv, RingInv

-----------------------------------------------------------------------------
(* Theorems.                                                               *)

\* Inv holds in every reachable state.
LEMMA Invariance == Spec => []Inv
  BY InvInit, InvStep, PTL DEF Spec

\* Every variable keeps its type: the run reads no buffer more than asked for,
\* and the counters and streams keep their bounds.
THEOREM AcquisitionTypeCorrect == Spec => []TypeOK
  <1>1. Inv => TypeOK
    BY DEF Inv
  <1> QED BY <1>1, Invariance, PTL

\* For every number of DMA buffers the digitizer reads the buffers in the order
\* the board fills them and none is lost from the ring.
THEOREM DmaRing == Spec => []DmaRingInOrder
  <1>1. Inv => DmaRingInOrder
    BY DEF Inv
  <1> QED BY <1>1, Invariance, PTL

\* For every number of DMA buffers, and whatever fails: the board fills and the
\* digitizer copies only allocated memory.
THEOREM DmaMemory == Spec => []DmaMemoryLive
  <1>1. Inv => DmaMemoryLive
    <2> SUFFICES ASSUME Inv PROVE DmaMemoryLive
      OBVIOUS
    <2>1. /\ posted \in Seq(Buffer) /\ full \in Seq(Data)
          /\ this_buffer \in Data /\ MemoryInv
      BY DEF Inv, TypeOK, BoardTypeOK, DigitizerTypeOK
    <2>2. \A b \in Buffer : b < DmaBuffers
      BY DEF Buffer
    <2>3. Held = 1 => this_buffer.buffer < allocated
      <3>1. Held = 1 => pc_digitizer \in InLoop
        BY DEF Held
      <3>2. this_buffer.buffer \in Buffer
        BY <2>1 DEF Data
      <3> QED BY <2>1, <2>2, <3>1, <3>2 DEF MemoryInv
    <2>4. CASE posted = <<>> /\ full = <<>>
      <3>1. Len(posted) = 0 /\ Len(full) = 0
        BY <2>4
      <3> QED BY <2>3, <3>1 DEF DmaMemoryLive
    <2>5. CASE posted # <<>> \/ full # <<>>
      <3>1. allocated = DmaBuffers
        BY <2>1, <2>5 DEF MemoryInv
      <3>2. \A i \in 1 .. Len(posted) : posted[i] \in Buffer
        BY <2>1
      <3>3. ASSUME NEW i \in 1 .. Len(full) PROVE full[i].buffer \in Buffer
        <4>1. full[i] \in Data
          BY <2>1
        <4> QED BY <4>1 DEF Data
      <3> QED BY <2>2, <2>3, <3>1, <3>2, <3>3 DEF DmaMemoryLive
    <2> QED BY <2>4, <2>5
  <1> QED BY <1>1, Invariance, PTL

\* The digitizer never waits for a buffer that cannot come: with none filled
\* and none posted the ring would hold no more buffers than were collected
\* after an overrun, and those are fewer than all.
THEOREM DigitizerNotStarved == Spec => []NeverStarved
  <1>1. Inv => NeverStarved
    <2> SUFFICES ASSUME Inv, pc_digitizer = "read", ~paused, ~AllCompleted,
                        full = <<>>
                 PROVE  board = "capturing" /\ posted # <<>>
      BY DEF NeverStarved
    <2>1. board # "idle" /\ Held = 0
      BY DEF Inv, ReadInv, Held
    <2>2. Len(full) + Len(posted) + Held + overrun_collected = DmaBuffers
      BY <2>1 DEF Inv, DmaRingInOrder
    <2>3. overrun_collected \in 0 .. DmaBuffers - 1 /\ Len(full) = 0
      BY DEF Inv, TypeOK, DigitizerTypeOK, Buffer
    <2>4. posted # <<>>
      BY <2>1, <2>2, <2>3
    <2> QED BY <2>1, <2>4 DEF Inv, OverflowInv, TypeOK, BoardTypeOK
  <1> QED BY <1>1, Invariance, PTL

-----------------------------------------------------------------------------
(* What is on its way to the writer.                                       *)

\* A run is ended only when the writer has its stream.
OrderlyStart == LateStart = FALSE

OfRun(slot) == slot.command = "s_run" /\ slot.run = run

\* Nothing is on its way and the writer has no stream.
AtRest == paused /\ swrap = 0 /\ out = <<>>

\* The s_start is on its way, data of the run behind it.
Starting ==
    /\ ~paused /\ swrap = 0
    /\ out # <<>> /\ out[1].command = "s_start"
    /\ \A i \in 2 .. Len(out) : OfRun(out[i])

\* The writer has its stream, data of the run are on their way.
Streaming ==
    /\ ~paused /\ swrap = run
    /\ \A i \in 1 .. Len(out) : OfRun(out[i])

\* The s_stop is on its way, data of the run before it.
Stopping ==
    /\ paused /\ swrap = run /\ run > 0
    /\ out # <<>> /\ out[Len(out)].command = "s_stop"
    /\ \A i \in 1 .. Len(out) - 1 : OfRun(out[i])

LineInv == pc_writer = "loop" => AtRest \/ Starting \/ Streaming \/ Stopping

\* A node that has left its loop has cancelled the others.
EndsInv ==
    /\ pc_writer # "loop" => canceled
    /\ pc_digitizer \notin InLoop \cup {"configure", "allocate"} => canceled

\* What is digitized and not yet sent is of the run there is.
BlocksInv ==
    /\ paused /\ ~canceled => board = "idle"
    /\ \A i \in 1 .. Len(full) : full[i].run = run
    /\ Held = 1 => this_buffer.run = run

\* What the digitizer has begun it finishes, cancelled or not.
TurnInv ==
    /\ pc_digitizer = "start" => paused /\ (pc_writer = "loop" => swrap = 0)
    /\ pc_digitizer = "stop" => ~paused /\ (pc_writer = "loop" => swrap = run)
    /\ ~paused \/ pc_digitizer = "start" => run > 0

\* Where run control, the instruction and the digitizer are with each other.
ControlInv ==
    ~canceled =>
        /\ pc_control # "failed"
        /\ pc_control # "idle" => run > 0
        /\ pc_control = "idle" =>
               paused /\ swrap = 0 /\ instruction = "none" /\ pc_digitizer # "start"
        /\ pc_control = "running" =>
               /\ instruction # "pause" /\ pc_digitizer # "stop"
               /\ paused <=> (instruction = "resume" \/ pc_digitizer = "start")
        /\ pc_control = "finishing" =>
               /\ instruction # "resume" /\ pc_digitizer # "start"
               /\ ~paused <=> (instruction = "pause" \/ pc_digitizer = "stop")
        /\ instruction = "resume" => swrap = 0 /\ pc_digitizer # "start"
        /\ instruction = "pause" => swrap = run /\ pc_digitizer # "stop"

RunInv == LineInv /\ EndsInv /\ BlocksInv /\ TurnInv /\ ControlInv

-----------------------------------------------------------------------------
(* Numbers and blocks.                                                     *)

\* The chunk counter has room for two per buffer of a run.
CounterSuffices == CounterLimit > 2 * BuffersPerRun

\* Block b2 with chunk number c2 comes after b1 with c1: both go on, or both
\* leave something out.
Follows(c1, b1, c2, b2) ==
    /\ c1 < c2 /\ b1 < b2
    /\ c2 = c1 + 1 <=> b2 = b1 + 1

CountInv ==
    /\ chunk_counter <= 2 * buffers_completed
    /\ last_pkt + 2 <= 2 * BuffersPerRun
    /\ \A i \in 1 .. Len(out) :
           out[i].command = "s_run" => out[i].chunk + 2 <= 2 * BuffersPerRun

\* The block to come after the one the digitizer holds.
NextBlock == IF full = <<>> THEN block ELSE full[1].block

\* The filled buffers are of consecutive blocks, and the board loses a block
\* exactly when it overflows.
FilledInv ==
    /\ \A i \in 1 .. Len(full) - 1 : full[i + 1].block = full[i].block + 1
    /\ full # <<>> =>
           IF board = "overflown" THEN block > full[Len(full)].block + 1
           ELSE block = full[Len(full)].block + 1
    /\ Held = 1 =>
           IF full = <<>> /\ board = "overflown"
           THEN NextBlock > this_buffer.block + 1
           ELSE NextBlock = this_buffer.block + 1
    /\ overrun_collected > 0 => board # "capturing"

\* What comes after chunk c of block b, the last that was sent.
SourceFollows(c, b) ==
    /\ pc_digitizer \in {"check", "read"} /\ ~paused /\ ~AllCompleted =>
           Follows(c, b, chunk_counter, NextBlock)
    /\ pc_digitizer = "push" =>
           Follows(c, b, chunk_counter, this_buffer.block)
    /\ pc_digitizer = "return" => c = chunk_counter /\ b = this_buffer.block

\* What comes after the last record, in the stream or from the digitizer.
RecordFollows(record) ==
    /\ out = <<>> => SourceFollows(last_pkt, record.block)
    /\ out # <<>> /\ out[1].command = "s_run" =>
           Follows(last_pkt, record.block, out[1].chunk, out[1].block)

SequenceInv ==
    ~canceled =>
        /\ \A i \in 1 .. Len(out) - 1 :
               out[i].command = "s_run" /\ out[i + 1].command = "s_run" =>
                   Follows(out[i].chunk, out[i].block,
                           out[i + 1].chunk, out[i + 1].block)
        /\ out # <<>> /\ out[Len(out)].command = "s_run" =>
               SourceFollows(out[Len(out)].chunk, out[Len(out)].block)
        /\ swrap # 0 /\ ~start_file =>
               records # <<>> /\ RecordFollows(records[Len(records)])

\* The run has no record yet.
Fresh ==
    \/ instruction = "resume" \/ pc_digitizer = "start"
    \/ ~paused /\ swrap = 0
    \/ swrap # 0 /\ start_file

FreshInv ==
    ~canceled =>
        \A i \in 1 .. Len(records) :
            /\ records[i].file <= run
            /\ Fresh => records[i].file < run

MarkInv ==
    CountInv /\ FilledInv /\ SequenceInv /\ FreshInv /\ AcquisitionsMarked

-----------------------------------------------------------------------------
(* The nodes and run control.                                              *)

\* Who leaves his loop has cancelled.
LEMMA EndsStep == EndsInv /\ [Next]_vars => EndsInv'
  <1> SUFFICES ASSUME EndsInv, [Next]_vars PROVE EndsInv'
    OBVIOUS
  <1> USE DEF EndsInv
  <1>1. CASE Board
    BY <1>1 DEF Board, digitizer_vars, writer_vars, control_vars
  <1>2. CASE Digitizer
    <2>1. UNCHANGED pc_writer /\ (canceled' <=> canceled \/ pc_digitizer' = "done")
      BY <1>2 DEF Digitizer, writer_vars
    <2>2. pc_digitizer' \notin InLoop \cup {"configure", "allocate"} =>
              \/ pc_digitizer' = "done"
              \/ pc_digitizer \notin InLoop \cup {"configure", "allocate"}
      <3>1. CASE \/ Configure \/ ConfigureThrows \/ AllocateBuffer \/ AllocateThrows
                 \/ Initialized \/ LeaveLoop \/ TakeInstruction \/ NoInstruction
                 \/ Resume \/ ResumeThrows \/ Pause \/ PauseThrows \/ PushFails
        BY <3>1 DEF Configure, ConfigureThrows, AllocateBuffer, AllocateThrows,
           Initialized, LeaveLoop, TakeInstruction, NoInstruction, Resume,
           ResumeThrows, Pause, PauseThrows, PushFails, DigitizerGoes
      <3>2. CASE \/ SkipRead \/ StopRun \/ WaitBuffer \/ StopRunThrows \/ CallThrows \/ PushData
                 \/ PostBuffer \/ CollectBuffer \/ Restart
                 \/ ClearAbort \/ FreeBuffers \/ ClearThrows
        BY <3>2 DEF SkipRead, StopRun, WaitBuffer, StopRunThrows, CallThrows, PushData,
           PostBuffer, CollectBuffer, Restart, ClearAbort, FreeBuffers,
           ClearThrows, DigitizerGoes
      <3> QED BY <1>2, <3>1, <3>2 DEF Digitizer
    <2> QED BY <2>1, <2>2
  <1>3. CASE Writer
    BY <1>3 DEF Writer, WriterStart, WriterRun, WriterRunThrows, WriterStop,
       WriterCanceled, digitizer_vars
  <1>4. CASE RunControl
    BY <1>4 DEF RunControl, StartRun, EndRun, FinishFiles, FinishFilesFails,
       Cancel, digitizer_vars, writer_vars
  <1>5. CASE UNCHANGED vars
    BY <1>5 DEF vars, digitizer_vars, writer_vars, control_vars
  <1> QED BY <1>1, <1>2, <1>3, <1>4, <1>5 DEF Next

\* Where run control and digitizer meet in the instruction, and what of it is
\* under way.
MeetInv == TurnInv /\ ControlInv

\* The instructions of a run are taken one by one, and its end is asked for
\* only when it has begun.
LEMMA MeetDigitizer ==
    ASSUME OrderlyStart, Inv, RunInv, Digitizer PROVE MeetInv'
  <1>0. /\ UNCHANGED <<swrap, pc_writer, run, pc_control>>
        /\ canceled' <=> canceled \/ pc_digitizer' = "done"
        /\ MeetInv
    BY DEF Digitizer, writer_vars, RunInv, MeetInv
  <1>a. instruction \in {"none", "resume", "pause"} /\ paused \in BOOLEAN
    BY DEF Inv, TypeOK, DigitizerTypeOK
  <1>1. CASE TakeInstruction
    <2>1. /\ ~canceled /\ pc_digitizer = "check" /\ instruction # "none"
          /\ instruction' = "none" /\ UNCHANGED paused
          /\ pc_digitizer' = IF paused /\ instruction = "resume" THEN "start"
                             ELSE IF ~paused /\ instruction = "pause" THEN "stop"
                             ELSE "read"
      BY <1>1 DEF TakeInstruction, DigitizerGoes
    <2> QED BY <1>0, <1>a, <2>1 DEF MeetInv, TurnInv, ControlInv, OrderlyStart
  <1>2. CASE Resume
    <2>1. /\ pc_digitizer = "start" /\ pc_digitizer' = "read" /\ ~paused'
          /\ UNCHANGED instruction
      BY <1>2 DEF Resume, DigitizerGoes
    <2> QED BY <1>0, <1>a, <2>1 DEF MeetInv, TurnInv, ControlInv
  <1>3. CASE Pause
    <2>1. /\ pc_digitizer = "stop" /\ pc_digitizer' = "read" /\ paused'
          /\ UNCHANGED instruction
      BY <1>3 DEF Pause, DigitizerGoes
    <2> QED BY <1>0, <1>a, <2>1 DEF MeetInv, TurnInv, ControlInv
  <1>4. CASE ResumeThrows \/ PauseThrows
    <2>1. /\ pc_digitizer \in {"start", "stop"} /\ pc_digitizer' = "done"
          /\ pc_digitizer = "stop" => ~paused
      BY <1>0, <1>4 DEF ResumeThrows, PauseThrows, DigitizerGoes, MeetInv, TurnInv
    <2> QED BY <1>0, <2>1 DEF MeetInv, TurnInv, ControlInv
  <1>5. CASE \/ Configure \/ ConfigureThrows \/ AllocateBuffer \/ AllocateThrows
             \/ Initialized \/ LeaveLoop \/ NoInstruction \/ PushFails \/ SkipRead
             \/ StopRun \/ WaitBuffer
    <2>1. /\ UNCHANGED <<instruction, paused>>
          /\ pc_digitizer' \notin {"start", "stop"}
          /\ pc_digitizer \in {"start", "stop"} => pc_digitizer' = "done"
      BY <1>5 DEF Configure, ConfigureThrows, AllocateBuffer, AllocateThrows,
         Initialized, LeaveLoop, NoInstruction, PushFails, SkipRead, StopRun,
         WaitBuffer, DigitizerGoes, Untouched
    <2> QED BY <1>0, <1>a, <2>1 DEF MeetInv, TurnInv, ControlInv
  <1>6. CASE \/ StopRunThrows \/ CallThrows \/ PushData \/ PostBuffer \/ CollectBuffer \/ Restart
             \/ ClearAbort \/ FreeBuffers \/ ClearThrows
    <2>1. /\ UNCHANGED <<instruction, paused>>
          /\ pc_digitizer' \notin {"start", "stop"}
          /\ pc_digitizer \notin {"start", "stop"}
      BY <1>6 DEF StopRunThrows, CallThrows, PushData, PostBuffer, CollectBuffer, Restart,
         ClearAbort, FreeBuffers, ClearThrows, DigitizerGoes, Untouched
    <2> QED BY <1>0, <1>a, <2>1 DEF MeetInv, TurnInv, ControlInv
  <1> QED BY <1>1, <1>2, <1>3, <1>4, <1>5, <1>6 DEF Digitizer

\* Run control and digitizer stay with each other, whoever moves.
LEMMA MeetStep ==
    ASSUME OrderlyStart, Inv, RunInv, [Next]_vars PROVE MeetInv'
  <1>0. MeetInv /\ LineInv /\ EndsInv
    BY DEF RunInv, MeetInv
  <1>a. /\ instruction \in {"none", "resume", "pause"} /\ paused \in BOOLEAN
        /\ canceled \in BOOLEAN /\ run \in Nat /\ pc_writer \in {"loop", "dead", "done"}
        /\ pc_control \in {"idle", "running", "finishing", "failed"} /\ swrap \in Nat
    BY DEF Inv, TypeOK, DigitizerTypeOK, ControlTypeOK, WriterTypeOK
  <1>1. CASE Board \/ UNCHANGED vars
    <2>1. UNCHANGED <<swrap, pc_writer, run, pc_control, canceled, instruction,
                      paused, pc_digitizer>>
      BY <1>1 DEF Board, vars, digitizer_vars, writer_vars, control_vars
    <2> QED BY <1>0, <2>1 DEF MeetInv, TurnInv, ControlInv
  <1>2. CASE Writer
    <2>0. UNCHANGED <<run, pc_control, instruction, paused, pc_digitizer>>
      BY <1>2 DEF Writer, digitizer_vars
    <2>1. CASE WriterStart
      <3>1. ~canceled /\ pc_writer = "loop" /\ out # <<>> /\ out[1].command = "s_start"
        BY <2>1 DEF WriterStart, Takes
      <3>2. Starting
        <4>1. out \in Seq(Slot) /\ Len(out) \in Nat /\ 1 \in 1 .. Len(out)
          BY <3>1 DEF Inv, TypeOK, WriterTypeOK
        <4>2. ~AtRest /\ ~Streaming
          BY <3>1, <4>1 DEF AtRest, Streaming, OfRun
        <4>3. ~Stopping
          <5>1. CASE Len(out) = 1
            BY <3>1, <5>1 DEF Stopping
          <5>2. CASE Len(out) # 1
            <6>1. 1 \in 1 .. Len(out) - 1
              <7>1. \A n \in Nat : 1 \in 1 .. n /\ n # 1 => 1 \in 1 .. n - 1
                OBVIOUS
              <7> QED BY <4>1, <5>2, <7>1
            <6> QED BY <3>1, <6>1 DEF Stopping, OfRun
          <5> QED BY <5>1, <5>2
        <4> QED BY <1>0, <3>1, <4>2, <4>3 DEF LineInv
      <3>3. \/ swrap' = run /\ pc_control # "idle" /\ UNCHANGED <<pc_writer, canceled>>
            \/ canceled' /\ pc_writer' = "dead"
        BY <2>1 DEF WriterStart
      <3> QED BY <1>0, <1>a, <2>0, <3>1, <3>2, <3>3
              DEF MeetInv, TurnInv, ControlInv, Starting
    <2>2. CASE WriterRun
      BY <1>0, <2>0, <2>2 DEF WriterRun, MeetInv, TurnInv, ControlInv
    <2>3. CASE WriterRunThrows
      BY <1>0, <2>0, <2>3 DEF WriterRunThrows, MeetInv, TurnInv, ControlInv
    <2>4. CASE WriterStop
      <3>1. ~canceled /\ pc_writer = "loop" /\ out # <<>> /\ out[1].command = "s_stop"
        BY <2>4 DEF WriterStop, Takes
      <3>2. Stopping
        <4>1. out \in Seq(Slot) /\ 1 \in 1 .. Len(out)
          BY <3>1 DEF Inv, TypeOK, WriterTypeOK
        <4> QED BY <1>0, <3>1, <4>1 DEF LineInv, AtRest, Starting, Streaming, OfRun
      <3>3. swrap' = 0 /\ UNCHANGED <<pc_writer, canceled>>
        BY <2>4 DEF WriterStop
      <3> QED BY <1>0, <1>a, <2>0, <3>1, <3>2, <3>3
              DEF MeetInv, TurnInv, ControlInv, Stopping
    <2>5. CASE WriterCanceled
      BY <1>0, <2>0, <2>5 DEF WriterCanceled, MeetInv, TurnInv, ControlInv
    <2> QED BY <1>2, <2>1, <2>2, <2>3, <2>4, <2>5 DEF Writer
  <1>3. CASE RunControl
    <2>0. UNCHANGED <<swrap, pc_writer, paused, pc_digitizer>>
      BY <1>3 DEF RunControl, digitizer_vars, writer_vars
    <2>1. CASE StartRun
      <3>1. /\ pc_control = "idle" /\ pc_control' = "running" /\ run' = run + 1
            /\ ~canceled /\ ~canceled' /\ instruction' = "resume"
        BY <2>1 DEF StartRun
      <3>2. pc_digitizer # "stop"
        BY <1>0, <3>1, <1>a DEF MeetInv, TurnInv, ControlInv
      <3> QED BY <1>0, <1>a, <2>0, <3>1, <3>2 DEF MeetInv, TurnInv, ControlInv
    <2>2. CASE EndRun
      <3>1. /\ pc_control = "running" /\ pc_control' = "finishing"
            /\ swrap = run \/ canceled
            /\ instruction' = "pause" /\ UNCHANGED <<run, canceled>>
        BY <2>2 DEF EndRun, OrderlyStart
      <3> QED BY <1>0, <1>a, <2>0, <3>1 DEF MeetInv, TurnInv, ControlInv, EndsInv
    <2>3. CASE FinishFiles
      <3>1. /\ pc_control = "finishing" /\ pc_control' = "idle" /\ swrap = 0
            /\ UNCHANGED <<instruction, run, canceled>>
        BY <2>3 DEF FinishFiles
      <3> QED BY <1>0, <1>a, <2>0, <3>1 DEF MeetInv, TurnInv, ControlInv, EndsInv
    <2>4. CASE FinishFilesFails \/ Cancel
      <3>1. canceled' /\ UNCHANGED <<instruction, run>>
        BY <2>4 DEF FinishFilesFails, Cancel
      <3> QED BY <1>0, <2>0, <3>1 DEF MeetInv, TurnInv, ControlInv
    <2> QED BY <1>3, <2>1, <2>2, <2>3, <2>4 DEF RunControl
  <1> QED BY <1>1, <1>2, <1>3, MeetDigitizer DEF Next

\* The board digitizes for the run there is.
LEMMA BlocksStep == ASSUME Inv, RunInv, [Next]_vars PROVE BlocksInv'
  <1>0. BlocksInv /\ TurnInv /\ ControlInv /\ full \in Seq(Data)
    BY DEF RunInv, Inv, TypeOK, BoardTypeOK
  <1>1. CASE Board
    <2>1. /\ UNCHANGED <<paused, this_buffer, pc_digitizer, run, canceled>>
          /\ paused => canceled
      BY <1>0, <1>1 DEF Board, FillBuffer, Overflow, digitizer_vars,
         control_vars, BlocksInv
    <2>2. \A i \in 1 .. Len(full') : full'[i].run = run
      <3>1. CASE FillBuffer
        <4>1. full' = Append(full, [buffer |-> Head(posted), block |-> block,
                                    run |-> run])
          BY <3>1 DEF FillBuffer
        <4> QED BY <1>0, <4>1 DEF BlocksInv
      <3>2. CASE Overflow
        BY <1>0, <3>2 DEF Overflow, BlocksInv
      <3> QED BY <1>1, <3>1, <3>2 DEF Board
    <2> QED BY <1>0, <2>1, <2>2 DEF BlocksInv, Held
  <1>2. CASE Digitizer
    <2>0. UNCHANGED run /\ (canceled => canceled')
      BY <1>2 DEF Digitizer
    <2>1. CASE Resume \/ Restart
      <3>1. ~paused' /\ Commence /\ pc_digitizer' \in {"read", "check"}
        BY <1>0, <2>1 DEF Resume, Restart, DigitizerGoes, Inv, HeldInv
      <3>2. Len(full') = 0
        BY <3>1, CommenceStep
      <3> QED BY <3>1, <3>2 DEF BlocksInv, Held
    <2>2. CASE Pause \/ StopRun \/ ClearAbort
      <3>1. board' = "idle" /\ full' = <<>> /\ pc_digitizer' \notin {"push", "return"}
        BY <2>2 DEF Pause, StopRun, ClearAbort, AbortAsyncRead, DigitizerGoes
      <3> QED BY <3>1 DEF BlocksInv, Held
    <2>3. CASE WaitBuffer
      <3>1. /\ ~paused' /\ full # <<>>
            /\ this_buffer' = Head(full) /\ full' = Tail(full)
        BY <2>3 DEF WaitBuffer
      <3>2. this_buffer'.run = run
        BY <1>0, <3>1 DEF BlocksInv
      <3>3. \A i \in 1 .. Len(full') : full'[i].run = run
        BY <1>0, <3>1 DEF BlocksInv
      <3> QED BY <2>0, <3>1, <3>2, <3>3 DEF BlocksInv
    <2>4. CASE \/ Configure \/ ConfigureThrows \/ AllocateBuffer \/ AllocateThrows
               \/ Initialized \/ LeaveLoop \/ TakeInstruction \/ NoInstruction
               \/ SkipRead \/ StopRunThrows \/ CallThrows \/ FreeBuffers \/ ClearThrows
      <3>1. /\ UNCHANGED <<board, full, paused>>
            /\ pc_digitizer' \notin {"push", "return"}
        BY <2>4 DEF Configure, ConfigureThrows, AllocateBuffer, AllocateThrows,
           Initialized, LeaveLoop, TakeInstruction, NoInstruction, SkipRead,
           StopRunThrows, CallThrows, FreeBuffers, ClearThrows, DigitizerGoes, Untouched, board_vars
      <3> QED BY <1>0, <2>0, <3>1 DEF BlocksInv, Held
    <2>5. CASE ResumeThrows \/ PauseThrows
      <3>1. (paused' => canceled') /\ pc_digitizer' = "done" /\ UNCHANGED full
        BY <1>2, <2>5 DEF Digitizer, ResumeThrows, PauseThrows, DigitizerGoes, board_vars
      <3> QED BY <1>0, <2>0, <3>1 DEF BlocksInv, Held
    <2>6. CASE PushFails \/ PushData \/ PostBuffer \/ CollectBuffer
      <3>1. /\ UNCHANGED <<board, full, paused, this_buffer>>
            /\ pc_digitizer' = "return" => pc_digitizer = "push"
            /\ pc_digitizer' # "push"
        BY <2>6 DEF PushFails, PushData, PostBuffer, CollectBuffer,
           DigitizerGoes, Untouched, board_vars
      <3> QED BY <1>0, <2>0, <3>1 DEF BlocksInv, Held
    <2> QED BY <1>2, <2>1, <2>2, <2>3, <2>4, <2>5, <2>6 DEF Digitizer
  <1>3. CASE StartRun /\ RunControl
    <2>1. /\ paused /\ ~canceled
          /\ UNCHANGED <<board, full, paused, this_buffer, pc_digitizer, canceled>>
      BY <1>0, <1>3 DEF RunControl, StartRun, ControlInv, board_vars, digitizer_vars
    <2>2. full = <<>> /\ Held = 0
      BY <1>0, <2>1 DEF BlocksInv, Inv, MemoryInv, HeldInv, Held
    <2> QED BY <1>0, <2>1, <2>2 DEF BlocksInv, Held
  <1>4. CASE \/ Writer
             \/ RunControl /\ (EndRun \/ FinishFiles \/ FinishFilesFails \/ Cancel)
             \/ UNCHANGED vars
    <2>1. /\ UNCHANGED <<board, full, paused, this_buffer, pc_digitizer, run>>
          /\ canceled => canceled'
      BY <1>4 DEF Writer, WriterStart, WriterRun, WriterRunThrows, WriterStop,
         WriterCanceled, RunControl, EndRun, FinishFiles, FinishFilesFails,
         Cancel, vars, board_vars, digitizer_vars, control_vars
    <2> QED BY <1>0, <2>1 DEF BlocksInv, Held
  <1> QED BY <1>1, <1>2, <1>3, <1>4 DEF Next, RunControl

\* A command or data go into the stream behind what is there.
LEMMA PushedOut ==
    ASSUME out \in Seq(Slot), NEW slot, PushOut(slot)
    PROVE  /\ Len(out') = Len(out) + 1 /\ out' # <<>>
           /\ out'[Len(out')] = slot
           /\ \A i \in 1 .. Len(out) : out'[i] = out[i]
  BY DEF PushOut

\* What is taken is the first, and the others move up.
LEMMA TakenOut ==
    ASSUME out \in Seq(Slot), NEW command, Takes(command)
    PROVE  /\ pc_writer = "loop" /\ ~canceled
           /\ out # <<>> /\ out[1].command = command /\ Head(out) = out[1]
           /\ Len(out) \in Nat \ {0} /\ Len(out') = Len(out) - 1
           /\ \A i \in 1 .. Len(out') : out'[i] = out[i + 1]
  BY DEF Takes

\* The digitizer sends the commands of a run around its data.
LEMMA LineDigitizer == ASSUME Inv, RunInv, Digitizer PROVE LineInv'
  <1>0. /\ LineInv /\ TurnInv /\ BlocksInv /\ out \in Seq(Slot) /\ Len(out) \in Nat
        /\ UNCHANGED <<pc_writer, swrap, run>> /\ run \in Nat
    BY DEF RunInv, Inv, TypeOK, WriterTypeOK, ControlTypeOK, Digitizer, writer_vars
  <1> SUFFICES ASSUME pc_writer = "loop"
               PROVE  (AtRest \/ Starting \/ Streaming \/ Stopping)'
    BY <1>0 DEF LineInv
  <1>a. AtRest \/ Starting \/ Streaming \/ Stopping
    BY <1>0 DEF LineInv
  <1>1. CASE Resume \/ ResumeThrows
    <2>1. pc_digitizer = "start" /\ PushOut([command |-> "s_start"]) /\ ~paused'
      BY <1>1 DEF Resume, ResumeThrows, DigitizerGoes
    <2>2. AtRest
      BY <1>0, <1>a, <2>1 DEF TurnInv, Starting, Streaming, Stopping
    <2>3. out' = <<[command |-> "s_start"]>>
      BY <2>1, <2>2 DEF AtRest, PushOut
    <2>4. Starting'
      BY <1>0, <2>1, <2>2, <2>3 DEF Starting, AtRest
    <2> QED BY <2>4
  <1>2. CASE Pause \/ PauseThrows
    <2>1. pc_digitizer = "stop" /\ PushOut([command |-> "s_stop"]) /\ paused'
      BY <1>2 DEF Pause, PauseThrows, DigitizerGoes
    <2>2. Streaming
      BY <1>0, <1>a, <2>1 DEF TurnInv, AtRest, Starting, Stopping
    <2>3. /\ Len(out') = Len(out) + 1 /\ out' # <<>>
          /\ out'[Len(out')].command = "s_stop"
          /\ \A i \in 1 .. Len(out) : out'[i] = out[i]
      BY <1>0, <2>1, PushedOut
    <2>4. \A i \in 1 .. Len(out') - 1 :
              out'[i].command = "s_run" /\ out'[i].run = run
      BY <1>0, <2>2, <2>3 DEF Streaming, OfRun
    <2>5. Stopping'
      BY <1>0, <2>1, <2>2, <2>3, <2>4 DEF TurnInv, Streaming, Stopping, OfRun
    <2> QED BY <2>5
  <1>3. CASE PushData
    <2> DEFINE slot == [command |-> "s_run", chunk |-> chunk_counter,
                        block |-> this_buffer.block, run |-> this_buffer.run]
    <2>1. PushOut(slot) /\ pc_digitizer = "push" /\ UNCHANGED paused
      BY <1>3 DEF PushData, DigitizerGoes, Untouched
    <2>2. slot.command = "s_run" /\ slot.run = run
      BY <1>0, <2>1 DEF BlocksInv, Held
    <2>3. ~paused
      BY <2>1 DEF Inv, HeldInv
    <2> HIDE DEF slot
    <2>4. /\ Len(out') = Len(out) + 1 /\ out' # <<>>
          /\ out'[Len(out')] = slot
          /\ \A i \in 1 .. Len(out) : out'[i] = out[i]
      BY <1>0, <2>1, PushedOut
    <2>5. CASE Starting
      <3>1. \A i \in 2 .. Len(out') : OfRun(out[i])'
        <4> SUFFICES ASSUME NEW i \in 2 .. Len(out')
                     PROVE  out'[i].command = "s_run" /\ out'[i].run = run'
          BY DEF OfRun
        <4>1. CASE i = Len(out')
          BY <1>0, <2>2, <2>4, <4>1
        <4>2. CASE i # Len(out')
          <5>1. i \in 2 .. Len(out) /\ out'[i] = out[i]
            BY <1>0, <2>4, <4>2
          <5> QED BY <1>0, <2>5, <5>1 DEF Starting, OfRun
        <4> QED BY <4>1, <4>2
      <3>2. out'[1] = out[1]
        BY <1>0, <2>4, <2>5 DEF Starting
      <3>3. Starting'
        BY <1>0, <2>1, <2>4, <2>5, <3>1, <3>2 DEF Starting, OfRun
      <3> QED BY <3>3
    <2>6. CASE Streaming
      <3>1. ASSUME NEW i \in 1 .. Len(out')
            PROVE  out'[i].command = "s_run" /\ out'[i].run = run'
        <4>1. CASE i = Len(out')
          BY <1>0, <2>2, <2>4, <4>1
        <4>2. CASE i # Len(out')
          <5>1. i \in 1 .. Len(out) /\ out'[i] = out[i]
            BY <1>0, <2>4, <4>2
          <5> QED BY <1>0, <2>6, <5>1 DEF Streaming, OfRun
        <4> QED BY <4>1, <4>2
      <3>2. Streaming'
        BY <1>0, <2>1, <2>6, <3>1 DEF Streaming, OfRun
      <3> QED BY <3>2
    <2> QED BY <1>a, <2>3, <2>5, <2>6 DEF AtRest, Stopping
  <1>4. CASE \/ Configure \/ ConfigureThrows \/ AllocateBuffer \/ AllocateThrows
             \/ Initialized \/ LeaveLoop \/ TakeInstruction \/ NoInstruction
             \/ PushFails \/ SkipRead \/ StopRun \/ WaitBuffer \/ StopRunThrows \/ CallThrows
             \/ PostBuffer \/ CollectBuffer \/ Restart
             \/ ClearAbort \/ FreeBuffers \/ ClearThrows
    <2>1. UNCHANGED <<out, paused>>
      BY <1>4 DEF Configure, ConfigureThrows, AllocateBuffer, AllocateThrows,
         Initialized, LeaveLoop, TakeInstruction, NoInstruction, PushFails,
         SkipRead, StopRun, WaitBuffer, StopRunThrows, CallThrows, PostBuffer, CollectBuffer,
         Restart, ClearAbort, FreeBuffers, ClearThrows, Untouched
    <2> QED BY <1>0, <1>a, <2>1 DEF AtRest, Starting, Streaming, Stopping, OfRun
  <1> QED BY <1>1, <1>2, <1>3, <1>4 DEF Digitizer

\* The writer takes the commands of a run around its data.
LEMMA LineWriter == ASSUME Inv, RunInv, Writer PROVE LineInv'
  <1>0. /\ LineInv /\ EndsInv /\ TurnInv /\ out \in Seq(Slot)
        /\ UNCHANGED <<paused, run>> /\ run \in Nat
    BY DEF RunInv, Inv, TypeOK, WriterTypeOK, ControlTypeOK, Writer, digitizer_vars
  <1>1. CASE WriterStart
    <2>1. Takes("s_start") /\ (pc_writer' = "loop" => swrap' = run)
      BY <1>1 DEF WriterStart, Takes
    <2>2. /\ pc_writer = "loop" /\ ~canceled
          /\ out # <<>> /\ out[1].command = "s_start"
          /\ Len(out) \in Nat \ {0} /\ Len(out') = Len(out) - 1
          /\ \A i \in 1 .. Len(out') : out'[i] = out[i + 1]
      BY <1>0, <2>1, TakenOut
    <2>3. Starting
      <3>1. ~AtRest /\ ~Streaming
        BY <2>2 DEF AtRest, Streaming, OfRun
      <3>2. ~Stopping
        <4>1. CASE Len(out) = 1
          BY <2>2, <4>1 DEF Stopping
        <4>2. CASE Len(out) # 1
          <5>1. 1 \in 1 .. Len(out) - 1
            BY <2>2, <4>2
          <5> QED BY <2>2, <5>1 DEF Stopping, OfRun
        <4> QED BY <4>1, <4>2
      <3> QED BY <1>0, <2>2, <3>1, <3>2 DEF LineInv
    <2>4. ASSUME NEW i \in 1 .. Len(out')
          PROVE  out'[i].command = "s_run" /\ out'[i].run = run
      <3>1. i + 1 \in 2 .. Len(out) /\ out'[i] = out[i + 1]
        BY <2>2
      <3> QED BY <2>3, <3>1 DEF Starting, OfRun
    <2>5. pc_writer' = "loop" => Streaming'
      BY <1>0, <2>1, <2>3, <2>4 DEF Starting, Streaming, OfRun
    <2> QED BY <2>5 DEF LineInv
  <1>2. CASE WriterRun
    <2>1. Takes("s_run") /\ UNCHANGED <<swrap, pc_writer>>
      BY <1>2 DEF WriterRun
    <2>2. /\ pc_writer = "loop" /\ out # <<>> /\ out[1].command = "s_run"
          /\ Len(out) \in Nat \ {0} /\ Len(out') = Len(out) - 1
          /\ \A i \in 1 .. Len(out') : out'[i] = out[i + 1]
      BY <1>0, <2>1, TakenOut
    <2>3. CASE Streaming
      <3>1. ASSUME NEW i \in 1 .. Len(out')
            PROVE  out'[i].command = "s_run" /\ out'[i].run = run
        <4>1. i + 1 \in 1 .. Len(out) /\ out'[i] = out[i + 1]
          BY <2>2
        <4> QED BY <2>3, <4>1 DEF Streaming, OfRun
      <3>2. Streaming'
        BY <1>0, <2>1, <2>3, <3>1 DEF Streaming, OfRun
      <3> QED BY <3>2 DEF LineInv
    <2>4. CASE Stopping
      <3>1. Len(out) # 1
        BY <2>2, <2>4 DEF Stopping
      <3>2. Len(out') \in 1 .. Len(out) /\ out'[Len(out')] = out[Len(out)]
        BY <2>2, <3>1
      <3>3. ASSUME NEW i \in 1 .. Len(out') - 1
            PROVE  out'[i].command = "s_run" /\ out'[i].run = run
        <4>1. i + 1 \in 1 .. Len(out) - 1 /\ out'[i] = out[i + 1]
          BY <2>2
        <4> QED BY <2>4, <4>1 DEF Stopping, OfRun
      <3>4. out' # <<>>
        BY <3>2
      <3>5. Stopping'
        BY <1>0, <2>1, <2>4, <3>2, <3>3, <3>4 DEF Stopping, OfRun
      <3> QED BY <3>5 DEF LineInv
    <2> QED BY <1>0, <2>2, <2>3, <2>4 DEF LineInv, AtRest, Starting
  <1>3. CASE WriterStop
    <2>1. Takes("s_stop") /\ swrap' = 0
      BY <1>3 DEF WriterStop
    <2>2. /\ pc_writer = "loop" /\ out # <<>> /\ out[1].command = "s_stop"
          /\ Len(out) \in Nat \ {0} /\ out' = Tail(out)
      BY <1>0, <2>1, TakenOut DEF Takes
    <2>3. Stopping
      BY <1>0, <2>2 DEF LineInv, AtRest, Starting, Streaming, OfRun
    <2>4. Len(out) = 1
      <3>1. Len(out) # 1 => 1 \in 1 .. Len(out) - 1
        BY <2>2
      <3> QED BY <2>2, <2>3, <3>1 DEF Stopping, OfRun
    <2>5. out' = <<>>
      BY <1>0, <2>2, <2>4
    <2>6. AtRest'
      BY <1>0, <2>1, <2>3, <2>5 DEF AtRest, Stopping
    <2> QED BY <2>6 DEF LineInv
  <1>4. CASE WriterRunThrows \/ WriterCanceled
    BY <1>4 DEF WriterRunThrows, WriterCanceled, LineInv
  <1> QED BY <1>1, <1>2, <1>3, <1>4 DEF Writer

\* Between digitizer and writer there is at most one run, with an s_start
\* before and an s_stop behind.
LEMMA LineStep == ASSUME Inv, RunInv, [Next]_vars PROVE LineInv'
  <1>0. LineInv /\ ControlInv /\ EndsInv
    BY DEF RunInv
  <1>1. CASE StartRun /\ RunControl
    <2>1. paused /\ swrap = 0 /\ ~canceled /\ run \in Nat /\ pc_writer = "loop"
      BY <1>0, <1>1 DEF StartRun, ControlInv, EndsInv, Inv, TypeOK, ControlTypeOK
    <2>2. AtRest
      BY <1>0, <2>1 DEF LineInv, Starting, Streaming, Stopping
    <2>3. UNCHANGED <<out, paused, swrap>>
      BY <1>1 DEF RunControl, digitizer_vars, writer_vars
    <2> QED BY <2>1, <2>2, <2>3 DEF LineInv, AtRest, Stopping
  <1>2. CASE \/ Board
             \/ RunControl /\ (EndRun \/ FinishFiles \/ FinishFilesFails \/ Cancel)
             \/ UNCHANGED vars
    <2>1. UNCHANGED <<out, paused, swrap, pc_writer, run>>
      BY <1>2 DEF Board, RunControl, EndRun, FinishFiles, FinishFilesFails,
         Cancel, vars, digitizer_vars, writer_vars, control_vars
    <2> QED BY <1>0, <2>1 DEF LineInv, AtRest, Starting, Streaming, Stopping, OfRun
  <1> QED BY <1>1, <1>2, LineDigitizer, LineWriter DEF Next, RunControl

\* Every step of an orderly start keeps what is said of the run.
LEMMA RunInvStep ==
    ASSUME OrderlyStart, Inv, RunInv, [Next]_vars PROVE RunInv'
  BY MeetStep, BlocksStep, LineStep, EndsStep DEF RunInv, MeetInv

\* Before the first run nothing is on its way.
LEMMA RunInvInit == Init => RunInv
  BY DEF Init, RunInv, LineInv, AtRest, EndsInv, BlocksInv, Held, TurnInv,
     ControlInv

\* Data that reach a writer are of the run his stream is in.
LEMMA DataOfRun ==
    ASSUME Inv, RunInv, pc_writer = "loop", out # <<>>, out[1].command = "s_run"
    PROVE  swrap = run /\ out[1].run = run
  <1>0. LineInv /\ out \in Seq(Slot) /\ Len(out) \in Nat \ {0}
    BY DEF RunInv, Inv, TypeOK, WriterTypeOK
  <1>1. CASE Streaming
    BY <1>0, <1>1 DEF Streaming, OfRun
  <1>2. CASE Stopping
    <2>1. Len(out) # 1
      BY <1>2 DEF Stopping
    <2>2. 1 \in 1 .. Len(out) - 1
      <3>1. \A n \in Nat \ {0} : n # 1 => 1 \in 1 .. n - 1
        OBVIOUS
      <3> QED BY <1>0, <2>1, <3>1
    <2> QED BY <1>2, <2>2 DEF Stopping, OfRun
  <1> QED BY <1>0, <1>1, <1>2 DEF LineInv, AtRest, Starting

-----------------------------------------------------------------------------
(* Numbers and blocks: the steps.                                          *)

\* The counter does not wrap within a run.
LEMMA NoWrap ==
    ASSUME CounterSuffices, NEW c \in Nat, c + 1 < CounterLimit
    PROVE  Increment(c) = c + 1
  <1>1. CounterLimit \in Nat \ {0} /\ c + 1 \in 0 .. CounterLimit - 1
    OBVIOUS
  <1> QED BY <1>1, ModSmall DEF Increment

\* The numbers of a run stay below twice its buffers.
LEMMA CountStep ==
    ASSUME CounterSuffices, Inv, CountInv, [Next]_vars PROVE CountInv'
  <1>0. /\ out \in Seq(Slot) /\ Len(out) \in Nat /\ chunk_counter \in Nat
        /\ buffers_completed \in Nat /\ HeldInv /\ last_pkt \in Nat
    BY DEF Inv, TypeOK, WriterTypeOK, DigitizerTypeOK, Counter
  <1> DEFINE Small(slots) == \A i \in 1 .. Len(slots) :
                 slots[i].command = "s_run" => slots[i].chunk + 2 <= 2 * BuffersPerRun
  <1>a. Small(out)
    BY DEF CountInv
  <1>1. CASE Digitizer
    <2>0. UNCHANGED last_pkt
      BY <1>1 DEF Digitizer, writer_vars
    <2>1. CASE Resume \/ ResumeThrows \/ Pause \/ PauseThrows
      <3>1. /\ \/ chunk_counter' = 0 /\ buffers_completed' = 0
               \/ UNCHANGED <<chunk_counter, buffers_completed>>
            /\ PushOut([command |-> "s_start"]) \/ PushOut([command |-> "s_stop"])
        BY <2>1 DEF Resume, ResumeThrows, Pause, PauseThrows, read_vars
      <3>2. /\ Len(out') = Len(out) + 1 /\ out'[Len(out')].command # "s_run"
            /\ \A i \in 1 .. Len(out) : out'[i] = out[i]
        BY <1>0, <3>1, PushedOut
      <3>3. Small(out')
        BY <1>0, <1>a, <3>2
      <3> QED BY <2>0, <3>1, <3>3 DEF CountInv
    <2>2. CASE PushData
      <3> DEFINE slot == [command |-> "s_run", chunk |-> chunk_counter,
                          block |-> this_buffer.block, run |-> this_buffer.run]
      <3>1. /\ PushOut(slot) /\ pc_digitizer = "push"
            /\ UNCHANGED <<chunk_counter, buffers_completed>>
        BY <2>2 DEF PushData, DigitizerGoes, read_vars, Untouched
      <3>2. slot.chunk + 2 <= 2 * BuffersPerRun
        BY <1>0, <3>1 DEF HeldInv, CountInv
      <3> HIDE DEF slot
      <3>3. Small(out')
        BY <1>0, <1>a, <3>1, <3>2 DEF PushOut
      <3> QED BY <2>0, <3>1, <3>3 DEF CountInv
    <2>3. CASE PostBuffer \/ CollectBuffer
      <3>1. /\ pc_digitizer = "return" /\ UNCHANGED out
            /\ buffers_completed' = buffers_completed + 1
            /\ chunk_counter' = Increment(chunk_counter)
        BY <2>3 DEF PostBuffer, CollectBuffer, DigitizerGoes
      <3>2. chunk_counter + 1 < CounterLimit
        BY <1>0, <3>1 DEF HeldInv, CountInv, CounterSuffices
      <3>3. chunk_counter' = chunk_counter + 1
        BY <1>0, <3>1, <3>2, NoWrap
      <3> QED BY <1>0, <2>0, <3>1, <3>3 DEF CountInv
    <2>4. CASE Restart
      <3>1. /\ pc_digitizer = "return" /\ UNCHANGED out
            /\ buffers_completed' = buffers_completed + 1
            /\ chunk_counter' = Increment(Increment(chunk_counter))
        BY <2>4 DEF Restart, DigitizerGoes
      <3>2. chunk_counter + 2 < CounterLimit
        BY <1>0, <3>1 DEF HeldInv, CountInv, CounterSuffices
      <3>3. Increment(chunk_counter) = chunk_counter + 1
        BY <1>0, <3>2, NoWrap
      <3>4. Increment(chunk_counter + 1) = chunk_counter + 1 + 1
        BY <1>0, <3>2, NoWrap
      <3>5. chunk_counter' = chunk_counter + 2
        BY <1>0, <3>1, <3>3, <3>4
      <3> QED BY <1>0, <2>0, <3>1, <3>5 DEF CountInv
    <2>5. CASE \/ Configure \/ ConfigureThrows \/ AllocateBuffer \/ AllocateThrows
               \/ Initialized \/ LeaveLoop \/ TakeInstruction \/ NoInstruction
               \/ PushFails \/ SkipRead \/ StopRun \/ WaitBuffer \/ StopRunThrows \/ CallThrows
               \/ ClearAbort \/ FreeBuffers \/ ClearThrows
      <3>1. UNCHANGED <<chunk_counter, buffers_completed, out>>
        BY <2>5 DEF Configure, ConfigureThrows, AllocateBuffer, AllocateThrows,
           Initialized, LeaveLoop, TakeInstruction, NoInstruction, PushFails,
           SkipRead, StopRun, WaitBuffer, StopRunThrows, CallThrows, ClearAbort, FreeBuffers,
           ClearThrows, read_vars, Untouched
      <3> QED BY <2>0, <3>1 DEF CountInv
    <2> QED BY <1>1, <2>1, <2>2, <2>3, <2>4, <2>5 DEF Digitizer
  <1>2. CASE Writer
    <2>0. UNCHANGED <<chunk_counter, buffers_completed>>
      BY <1>2 DEF Writer, digitizer_vars, read_vars
    <2>1. CASE WriterCanceled
      BY <2>0, <2>1 DEF WriterCanceled, CountInv
    <2>2. CASE WriterStart \/ WriterRun \/ WriterRunThrows \/ WriterStop
      <3>1. PICK command : Takes(command)
        BY <2>2 DEF WriterStart, WriterRun, WriterRunThrows, WriterStop
      <3>2. /\ Len(out) \in Nat \ {0} /\ Len(out') = Len(out) - 1
            /\ \A i \in 1 .. Len(out') : out'[i] = out[i + 1]
            /\ Head(out) = out[1]
        BY <1>0, <3>1, TakenOut
      <3>3. Small(out')
        BY <1>a, <3>2
      <3>4. last_pkt' + 2 <= 2 * BuffersPerRun
        <4>1. CASE WriterRun
          <5>1. last_pkt' = Head(out).chunk /\ Takes("s_run")
            BY <4>1 DEF WriterRun
          <5>2. out[1].command = "s_run"
            BY <1>0, <5>1, TakenOut
          <5> QED BY <1>a, <3>2, <5>1, <5>2
        <4>2. CASE WriterStart \/ WriterRunThrows \/ WriterStop
          BY <4>2 DEF WriterStart, WriterRunThrows, WriterStop, CountInv
        <4> QED BY <2>2, <4>1, <4>2
      <3> QED BY <2>0, <3>3, <3>4 DEF CountInv
    <2> QED BY <1>2, <2>1, <2>2 DEF Writer
  <1>3. CASE Board \/ RunControl \/ UNCHANGED vars
    <2>1. UNCHANGED <<chunk_counter, buffers_completed, out, last_pkt>>
      BY <1>3 DEF Board, RunControl, vars, digitizer_vars, read_vars, writer_vars
    <2> QED BY <2>1 DEF CountInv
  <1> QED BY <1>1, <1>2, <1>3 DEF Next

\* The blocks of the filled buffers go on from the one that is held.
LEMMA FilledStep == ASSUME Inv, FilledInv, [Next]_vars PROVE FilledInv'
  <1>0. /\ full \in Seq(Data) /\ Len(full) \in Nat /\ block \in Nat
        /\ this_buffer \in Data /\ HeldInv /\ MemoryInv
        /\ overrun_collected \in Nat /\ board \in {"idle", "capturing", "overflown"}
    BY DEF Inv, TypeOK, BoardTypeOK, DigitizerTypeOK, Buffer
  <1>a. \A i \in 1 .. Len(full) : full[i].block \in Nat
    <2>1. \A i \in 1 .. Len(full) : full[i] \in Data
      BY <1>0
    <2> QED BY <2>1 DEF Data
  <1>1. CASE Board
    <2>0. UNCHANGED <<this_buffer, pc_digitizer, overrun_collected>>
      BY <1>1 DEF Board, digitizer_vars, read_vars
    <2>1. CASE FillBuffer
      <3> DEFINE new == [buffer |-> Head(posted), block |-> block, run |-> run]
      <3>1. /\ board = "capturing" /\ board' = "capturing"
            /\ full' = Append(full, new) /\ block' = block + 1
        BY <2>1 DEF FillBuffer
      <3>2. new.block = block
        OBVIOUS
      <3> HIDE DEF new
      <3>3. /\ Len(full') = Len(full) + 1 /\ full' # <<>>
            /\ full'[Len(full')] = new
            /\ \A i \in 1 .. Len(full) : full'[i] = full[i]
        BY <1>0, <3>1
      <3>4. ASSUME NEW i \in 1 .. Len(full') - 1
            PROVE  full'[i + 1].block = full'[i].block + 1
        <4>1. CASE i = Len(full)
          BY <1>0, <1>a, <3>1, <3>2, <3>3, <4>1 DEF FilledInv
        <4>2. CASE i # Len(full)
          <5>1. i \in 1 .. Len(full) - 1 /\ i + 1 \in 1 .. Len(full)
            BY <1>0, <3>3, <4>2
          <5> QED BY <1>0, <3>3, <5>1 DEF FilledInv
        <4> QED BY <4>1, <4>2
      <3>5. NextBlock' = NextBlock
        <4>1. CASE full = <<>>
          <5>1. full'[1].block = block
            BY <3>2, <3>3, <4>1
          <5> QED BY <3>3, <4>1, <5>1 DEF NextBlock
        <4>2. CASE full # <<>>
          <5>1. full'[1] = full[1]
            BY <1>0, <3>3, <4>2
          <5> QED BY <3>3, <4>2, <5>1 DEF NextBlock
        <4> QED BY <4>1, <4>2
      <3> QED BY <1>0, <2>0, <3>1, <3>2, <3>3, <3>4, <3>5 DEF FilledInv, Held
    <2>2. CASE Overflow
      <3>1. /\ board = "capturing" /\ board' = "overflown"
            /\ block' = block + 1 /\ UNCHANGED full
        BY <2>2 DEF Overflow
      <3>2. full # <<>> => block' > full[Len(full)].block + 1
        <4>1. full # <<>> => block = full[Len(full)].block + 1
                             /\ full[Len(full)].block \in Nat
          BY <1>0, <1>a, <3>1 DEF FilledInv
        <4> QED BY <3>1, <4>1
      <3>3. Held = 1 => IF full = <<>> THEN block' > this_buffer.block + 1
                        ELSE full[1].block = this_buffer.block + 1
        <4>1. this_buffer.block \in Nat
          BY <1>0 DEF Data
        <4> QED BY <1>0, <3>1, <4>1 DEF FilledInv, NextBlock
      <3> QED BY <2>0, <3>1, <3>2, <3>3 DEF FilledInv, NextBlock, Held
    <2> QED BY <1>1, <2>1, <2>2 DEF Board
  <1>2. CASE Digitizer
    <2>1. CASE Resume \/ Restart
      <3>1. Commence /\ pc_digitizer' \in {"read", "check"}
        BY <2>1 DEF Resume, Restart, DigitizerGoes
      <3> QED BY <3>1 DEF Commence, FilledInv, Held
    <2>2. CASE Pause \/ StopRun \/ ClearAbort
      <3>1. /\ AbortAsyncRead /\ UNCHANGED overrun_collected
            /\ pc_digitizer' \notin {"push", "return"}
        BY <2>2 DEF Pause, StopRun, ClearAbort, DigitizerGoes, read_vars
      <3> QED BY <3>1 DEF AbortAsyncRead, FilledInv, Held
    <2>3. CASE WaitBuffer
      <3>1. /\ full # <<>> /\ this_buffer' = full[1] /\ full' = Tail(full)
            /\ UNCHANGED <<board, block, overrun_collected>>
        BY <1>0, <2>3 DEF WaitBuffer
      <3>2. /\ Len(full') = Len(full) - 1 /\ Len(full) \in Nat \ {0}
            /\ \A i \in 1 .. Len(full') : full'[i] = full[i + 1]
        BY <1>0, <3>1
      <3>3. board # "idle"
        BY <1>0, <3>1 DEF MemoryInv
      <3>4. ASSUME NEW i \in 1 .. Len(full') - 1
            PROVE  full'[i + 1].block = full'[i].block + 1
        <4>1. i + 1 \in 1 .. Len(full) - 1 /\ i \in 1 .. Len(full')
              /\ i + 1 \in 1 .. Len(full')
          BY <3>2
        <4> QED BY <3>2, <4>1 DEF FilledInv
      <3>5. CASE full' = <<>>
        <4>1. Len(full) = 1
          BY <3>2, <3>5
        <4> QED BY <3>1, <3>3, <3>4, <3>5, <4>1 DEF FilledInv, NextBlock
      <3>6. CASE full' # <<>>
        <4>1. Len(full') \in 1 .. Len(full') /\ 1 \in 1 .. Len(full')
              /\ 1 \in 1 .. Len(full) - 1
          BY <3>2, <3>6
        <4>2. full'[Len(full')] = full[Len(full)] /\ full'[1] = full[1 + 1]
          BY <3>2, <4>1
        <4>3. full[1 + 1].block = full[1].block + 1
          BY <4>1 DEF FilledInv
        <4> QED BY <3>1, <3>4, <3>6, <4>2, <4>3 DEF FilledInv, NextBlock
      <3> QED BY <3>5, <3>6
    <2>4. CASE CollectBuffer
      <3>1. /\ pc_digitizer = "return" /\ pc_digitizer' = "check"
            /\ overrun_collected > 0 \/ board = "overflown"
            /\ UNCHANGED <<board, full, block>>
        BY <2>4 DEF CollectBuffer, DigitizerGoes, board_vars
      <3> QED BY <1>0, <3>1 DEF FilledInv, Held
    <2>5. CASE \/ Configure \/ ConfigureThrows \/ AllocateBuffer \/ AllocateThrows
               \/ Initialized \/ LeaveLoop \/ TakeInstruction \/ NoInstruction
               \/ SkipRead \/ StopRunThrows \/ CallThrows \/ FreeBuffers \/ ClearThrows
               \/ ResumeThrows \/ PauseThrows
      <3>1. /\ UNCHANGED <<board, full, block>>
            /\ overrun_collected' \in {0, overrun_collected}
            /\ pc_digitizer' \notin {"push", "return"}
        BY <2>5 DEF Configure, ConfigureThrows, AllocateBuffer, AllocateThrows,
           Initialized, LeaveLoop, TakeInstruction, NoInstruction, SkipRead,
           StopRunThrows, CallThrows, FreeBuffers, ClearThrows, ResumeThrows,
           PauseThrows, DigitizerGoes, Untouched, board_vars, read_vars
      <3> QED BY <3>1 DEF FilledInv, Held
    <2>6. CASE PushFails \/ PushData \/ PostBuffer
      <3>1. /\ UNCHANGED <<board, full, block, this_buffer, overrun_collected>>
            /\ pc_digitizer' = "return" => pc_digitizer = "push"
            /\ pc_digitizer' # "push"
        BY <2>6 DEF PushFails, PushData, PostBuffer, DigitizerGoes, Untouched,
           board_vars, read_vars
      <3> QED BY <3>1 DEF FilledInv, NextBlock, Held
    <2> QED BY <1>2, <2>1, <2>2, <2>3, <2>4, <2>5, <2>6 DEF Digitizer
  <1>3. CASE Writer \/ RunControl \/ UNCHANGED vars
    <2>1. UNCHANGED <<board, full, block, this_buffer, pc_digitizer, overrun_collected>>
      BY <1>3 DEF Writer, RunControl, vars, board_vars, digitizer_vars, read_vars
    <2> QED BY <2>1 DEF FilledInv, NextBlock, Held
  <1> QED BY <1>1, <1>2, <1>3 DEF Next

\* What is said of the next data to be sent stays true until they are sent.
LEMMA SourceStep ==
    ASSUME Inv, FilledInv, CounterSuffices, CountInv, NEW c \in Nat, NEW b \in Nat,
           SourceFollows(c, b), Board \/ Digitizer, ~canceled',
           ~Resume, ~Pause, ~PushData
    PROVE  SourceFollows(c, b)'
  <1>0. /\ full \in Seq(Data) /\ Len(full) \in Nat /\ block \in Nat
        /\ posted \in Seq(Buffer) /\ Len(posted) \in Nat
        /\ this_buffer.block \in Nat /\ HeldInv /\ ReadInv /\ OverflowInv
        /\ DmaRingInOrder /\ overrun_collected \in 0 .. DmaBuffers - 1
        /\ board \in {"idle", "capturing", "overflown"}
        /\ chunk_counter \in Nat /\ buffers_completed \in Nat
    BY DEF Inv, TypeOK, BoardTypeOK, DigitizerTypeOK, Buffer, Data, Counter
  <1>1. CASE Board
    <2>0. UNCHANGED <<this_buffer, pc_digitizer, paused, buffers_completed, chunk_counter>>
      BY <1>1 DEF Board, digitizer_vars, read_vars
    <2>1. pc_digitizer \in {"check", "read"} /\ ~paused /\ ~AllCompleted =>
              NextBlock' = NextBlock
      <3> SUFFICES ASSUME pc_digitizer \in {"check", "read"}, ~paused, ~AllCompleted
                   PROVE  NextBlock' = NextBlock
        OBVIOUS
      <3>1. CASE FillBuffer
        <4>1. full' = Append(full, [buffer |-> Head(posted), block |-> block,
                                    run |-> run])
          BY <3>1 DEF FillBuffer
        <4>2. CASE full = <<>>
          BY <4>1, <4>2 DEF NextBlock
        <4>3. CASE full # <<>>
          <5>1. full'[1] = full[1] /\ full' # <<>>
            BY <1>0, <4>1, <4>3
          <5> QED BY <4>3, <5>1 DEF NextBlock
        <4> QED BY <4>2, <4>3
      <3>2. CASE Overflow
        <4>1. board = "capturing" /\ posted = <<>> /\ UNCHANGED full
          BY <3>2 DEF Overflow
        <4>2. Len(full) + overrun_collected = DmaBuffers
          BY <1>0, <4>1 DEF DmaRingInOrder, Held
        <4>3. full # <<>>
          BY <1>0, <4>2
        <4> QED BY <4>1, <4>3 DEF NextBlock
      <3> QED BY <1>1, <3>1, <3>2 DEF Board
    <2> QED BY <2>0, <2>1 DEF SourceFollows, AllCompleted
  <1>2. CASE Digitizer
    <2>0. ~canceled /\ pc_digitizer' # "done"
      BY <1>2 DEF Digitizer
    <2>1. CASE WaitBuffer
      <3>1. /\ pc_digitizer = "read" /\ pc_digitizer' = "push" /\ full # <<>>
            /\ this_buffer' = full[1] /\ UNCHANGED chunk_counter
            /\ ~paused /\ ~AllCompleted
        BY <1>0, <2>1 DEF WaitBuffer, DigitizerGoes
      <3> QED BY <3>1 DEF SourceFollows, NextBlock
    <2>2. CASE PostBuffer \/ CollectBuffer
      <3>1. /\ pc_digitizer = "return" /\ pc_digitizer' = "check"
            /\ chunk_counter' = Increment(chunk_counter)
            /\ UNCHANGED <<full, block>>
            /\ board # "capturing" => overrun_collected + 1 # DmaBuffers
        BY <2>2 DEF PostBuffer, CollectBuffer, DigitizerGoes, RingCollected, board_vars
      <3>2. c = chunk_counter /\ b = this_buffer.block
        BY <3>1 DEF SourceFollows
      <3>3. chunk_counter + 1 < CounterLimit
        BY <1>0, <3>1 DEF HeldInv, CountInv, CounterSuffices
      <3>4. chunk_counter' = chunk_counter + 1
        BY <1>0, <3>1, <3>3, NoWrap
      <3>5. full # <<>> \/ board = "capturing"
        <4> SUFFICES ASSUME board # "capturing" PROVE full # <<>>
          OBVIOUS
        <4>1. board = "overflown" /\ posted = <<>> /\ overrun_collected + 1 # DmaBuffers
          BY <1>0, <3>1 DEF HeldInv, OverflowInv
        <4>2. Len(full) + 1 + overrun_collected = DmaBuffers
          BY <1>0, <3>1, <4>1 DEF DmaRingInOrder, Held
        <4> QED BY <1>0, <4>1, <4>2
      <3>6. NextBlock' = b + 1
        <4>1. Held = 1
          BY <3>1 DEF Held
        <4> QED BY <3>1, <3>2, <3>5, <4>1 DEF FilledInv, NextBlock
      <3> QED BY <1>0, <3>1, <3>2, <3>4, <3>6 DEF SourceFollows, Follows
    <2>3. CASE Restart
      <3>1. /\ pc_digitizer = "return" /\ pc_digitizer' = "check"
            /\ chunk_counter' = Increment(Increment(chunk_counter))
            /\ overrun_collected > 0 \/ board = "overflown"
            /\ overrun_collected + 1 = DmaBuffers
            /\ full' = <<>> /\ UNCHANGED block
        BY <2>3 DEF Restart, DigitizerGoes, RingCollected, Commence
      <3>2. c = chunk_counter /\ b = this_buffer.block
        BY <3>1 DEF SourceFollows
      <3>3. chunk_counter + 2 < CounterLimit
        BY <1>0, <3>1 DEF HeldInv, CountInv, CounterSuffices
      <3>4. Increment(chunk_counter) = chunk_counter + 1
        BY <1>0, <3>3, NoWrap
      <3>5. Increment(chunk_counter + 1) = chunk_counter + 1 + 1
        BY <1>0, <3>3, NoWrap
      <3>6. board = "overflown" /\ Held = 1
        BY <1>0, <3>1 DEF HeldInv, FilledInv, Held
      <3>7. Len(full) + Len(posted) + 1 + overrun_collected = DmaBuffers
        BY <1>0, <3>6 , <3>1 DEF DmaRingInOrder
      <3>8. full = <<>>
        BY <1>0, <3>1, <3>7
      <3>9. block > b + 1
        BY <3>2, <3>6, <3>8 DEF FilledInv, NextBlock
      <3> QED BY <1>0, <3>1, <3>2, <3>4, <3>5, <3>8, <3>9
              DEF SourceFollows, Follows, NextBlock
    <2>4. CASE TakeInstruction \/ NoInstruction \/ SkipRead
      <3>1. /\ UNCHANGED <<full, block, paused, buffers_completed, chunk_counter>>
            /\ pc_digitizer \in {"check", "read"}
            /\ pc_digitizer' \notin {"push", "return"}
        BY <2>4 DEF TakeInstruction, NoInstruction, SkipRead, DigitizerGoes,
           Untouched, board_vars, read_vars
      <3> QED BY <3>1 DEF SourceFollows, NextBlock, AllCompleted
    <2>5. CASE StopRun
      <3>1. /\ UNCHANGED buffers_completed /\ AllCompleted
            /\ pc_digitizer' \notin {"push", "return"}
        BY <2>5 DEF StopRun, DigitizerGoes
      <3> QED BY <3>1 DEF SourceFollows, AllCompleted
    <2>6. CASE Configure \/ AllocateBuffer \/ ClearAbort \/ FreeBuffers
      <3>1. pc_digitizer' \notin {"check", "read", "push", "return"}
        BY <2>6 DEF Configure, AllocateBuffer, ClearAbort, FreeBuffers, DigitizerGoes
      <3> QED BY <3>1 DEF SourceFollows
    <2>7. CASE Initialized
      <3>1. /\ pc_digitizer = "allocate" /\ UNCHANGED paused
            /\ pc_digitizer' \notin {"push", "return"}
        BY <2>7 DEF Initialized, DigitizerGoes, Untouched
      <3>2. paused'
        BY <3>1 DEF Inv, MemoryInv
      <3> QED BY <3>1, <3>2 DEF SourceFollows
    <2>8. CASE ConfigureThrows \/ AllocateThrows \/ LeaveLoop \/ ResumeThrows
               \/ PauseThrows \/ PushFails \/ StopRunThrows \/ CallThrows
      BY <2>0, <2>8 DEF ConfigureThrows, AllocateThrows, LeaveLoop, ResumeThrows,
         PauseThrows, PushFails, StopRunThrows, CallThrows, DigitizerGoes
    <2>9. CASE ClearThrows
      <3>1. pc_digitizer' \notin {"check", "read", "push", "return"}
        BY <2>9 DEF ClearThrows, DigitizerGoes
      <3> QED BY <3>1 DEF SourceFollows
    <2> QED BY <1>2, <2>1, <2>2, <2>3, <2>4, <2>5, <2>6, <2>7, <2>8, <2>9 DEF Digitizer
  <1> QED BY <1>1, <1>2

\* The data in the stream and their numbers.
Pairs ==
    \A i \in 1 .. Len(out) - 1 :
        out[i].command = "s_run" /\ out[i + 1].command = "s_run" =>
            Follows(out[i].chunk, out[i].block, out[i + 1].chunk, out[i + 1].block)

Newest ==
    out # <<>> /\ out[Len(out)].command = "s_run" =>
        SourceFollows(out[Len(out)].chunk, out[Len(out)].block)

Written ==
    swrap # 0 /\ ~start_file =>
        records # <<>> /\ RecordFollows(records[Len(records)])

\* SequenceInv, part by part.
LEMMA SequenceParts == SequenceInv <=> (~canceled => Pairs /\ Newest /\ Written)
  BY DEF SequenceInv, Pairs, Newest, Written

\* Numbers and blocks in the stream and in the records.
LEMMA DataTypes ==
    ASSUME TypeOK
    PROVE  /\ out \in Seq(Slot) /\ Len(out) \in Nat /\ last_pkt \in Nat
           /\ \A i \in 1 .. Len(out) :
                  out[i].command = "s_run" => out[i].chunk \in Nat /\ out[i].block \in Nat
           /\ records \in Seq(Record) /\ Len(records) \in Nat
           /\ \A i \in 1 .. Len(records) :
                  records[i].block \in Nat /\ records[i].file \in Nat
  <1>1. out \in Seq(Slot) /\ last_pkt \in Counter /\ records \in Seq(Record)
    BY DEF TypeOK, WriterTypeOK
  <1>2. ASSUME NEW i \in 1 .. Len(out), out[i].command = "s_run"
        PROVE  out[i].chunk \in Nat /\ out[i].block \in Nat
    <2>1. out[i] \in Slot
      BY <1>1
    <2>2. out[i] \in [command : {"s_run"}, chunk : Counter, block : Nat, run : Nat]
      BY <1>2, <2>1 DEF Slot
    <2> QED BY <2>2 DEF Counter
  <1>3. ASSUME NEW i \in 1 .. Len(records)
        PROVE  records[i].block \in Nat /\ records[i].file \in Nat
    <2>1. records[i] \in Record
      BY <1>1
    <2> QED BY <2>1 DEF Record
  <1> QED BY <1>1, <1>2, <1>3 DEF Counter

\* The digitizer numbers what it sends so that it follows on what it has sent.
LEMMA SequenceDigitizer ==
    ASSUME CounterSuffices, Inv, FilledInv, CountInv, SequenceInv,
           Board \/ Digitizer
    PROVE  SequenceInv'
  <1> SUFFICES ASSUME ~canceled' PROVE Pairs' /\ Newest' /\ Written'
    BY DEF SequenceInv, Pairs, Newest, Written
  <1>0. /\ UNCHANGED <<swrap, start_file, last_pkt, records, run, pc_writer>>
        /\ ~canceled
    <2>1. CASE Board
      BY <2>1 DEF Board, writer_vars, control_vars
    <2>2. CASE Digitizer
      BY <2>2 DEF Digitizer, writer_vars
    <2> QED BY <2>1, <2>2
  <1>a. Pairs /\ Newest /\ Written
    BY <1>0, SequenceParts
  <1>b. /\ out \in Seq(Slot) /\ Len(out) \in Nat /\ last_pkt \in Nat
        /\ \A i \in 1 .. Len(out) :
               out[i].command = "s_run" => out[i].chunk \in Nat /\ out[i].block \in Nat
        /\ Len(records) \in Nat
        /\ \A i \in 1 .. Len(records) : records[i].block \in Nat
    BY DataTypes DEF Inv
  <1>c. records # <<>> => records[Len(records)].block \in Nat
    <2>1. records \in Seq(Record)
      BY DataTypes DEF Inv
    <2> QED BY <1>b, <2>1
  <1>2. CASE Resume \/ Pause
    <2>1. PushOut([command |-> "s_start"]) \/ PushOut([command |-> "s_stop"])
      BY <1>2 DEF Resume, Pause
    <2>2. /\ Len(out') = Len(out) + 1 /\ out' # <<>>
          /\ out'[Len(out')].command # "s_run"
          /\ \A i \in 1 .. Len(out) : out'[i] = out[i]
      BY <1>b, <2>1, PushedOut
    <2>3. Pairs'
      <3> SUFFICES ASSUME NEW i \in 1 .. Len(out') - 1, out'[i + 1].command = "s_run"
                   PROVE  i \in 1 .. Len(out) - 1 /\ i + 1 \in 1 .. Len(out)
        BY <1>a, <1>b, <2>2 DEF Pairs
      <3> QED BY <1>b, <2>2
    <2>4. Newest'
      BY <2>2 DEF Newest
    <2>5. Written'
      <3>1. out'[1].command = "s_run" => out # <<>> /\ out'[1] = out[1]
        BY <1>b, <2>2
      <3> QED BY <1>0, <1>a, <2>2, <3>1 DEF Written, RecordFollows
    <2> QED BY <2>3, <2>4, <2>5
  <1>3. CASE PushData
    <2> DEFINE slot == [command |-> "s_run", chunk |-> chunk_counter,
                        block |-> this_buffer.block, run |-> this_buffer.run]
    <2>1. /\ PushOut(slot) /\ pc_digitizer = "push" /\ pc_digitizer' = "return"
          /\ UNCHANGED <<chunk_counter, this_buffer>>
      BY <1>3 DEF PushData, DigitizerGoes, read_vars, Untouched
    <2>2. /\ slot.command = "s_run" /\ slot.chunk = chunk_counter
          /\ slot.block = this_buffer.block
      OBVIOUS
    <2> HIDE DEF slot
    <2>3. /\ Len(out') = Len(out) + 1 /\ out' # <<>>
          /\ out'[Len(out')] = slot
          /\ \A i \in 1 .. Len(out) : out'[i] = out[i]
      BY <1>b, <2>1, PushedOut
    <2>4. Pairs'
      <3> SUFFICES ASSUME NEW i \in 1 .. Len(out') - 1,
                          out'[i].command = "s_run", out'[i + 1].command = "s_run"
                   PROVE  Follows(out'[i].chunk, out'[i].block,
                                  out'[i + 1].chunk, out'[i + 1].block)
        BY DEF Pairs
      <3>1. CASE i = Len(out)
        <4>1. out'[i] = out[Len(out)] /\ out'[i + 1] = slot /\ out # <<>>
          BY <1>b, <2>3, <3>1
        <4>2. Follows(out[Len(out)].chunk, out[Len(out)].block,
                      chunk_counter, this_buffer.block)
          BY <1>a, <2>1, <4>1 DEF Newest, SourceFollows
        <4> QED BY <2>2, <4>1, <4>2
      <3>2. CASE i # Len(out)
        <4>1. i \in 1 .. Len(out) - 1 /\ i \in 1 .. Len(out) /\ i + 1 \in 1 .. Len(out)
          BY <1>b, <2>3, <3>2
        <4> QED BY <1>a, <2>3, <4>1 DEF Pairs
      <3> QED BY <3>1, <3>2
    <2>5. Newest'
      BY <2>1, <2>2, <2>3 DEF Newest, SourceFollows
    <2>6. Written'
      <3>1. CASE out = <<>>
        <4>1. Len(out') = 1 /\ out'[1] = slot
          BY <1>b, <2>3, <3>1
        <4> QED BY <1>0, <1>a, <2>1, <2>2, <2>3, <3>1, <4>1
                DEF Written, RecordFollows, SourceFollows
      <3>2. CASE out # <<>>
        <4>1. out'[1] = out[1]
          BY <1>b, <2>3, <3>2
        <4> QED BY <1>0, <1>a, <2>3, <3>2, <4>1 DEF Written, RecordFollows
      <3> QED BY <3>1, <3>2
    <2> QED BY <2>4, <2>5, <2>6
  <1>4. CASE ~Resume /\ ~Pause /\ ~PushData
    <2>1. UNCHANGED out
      <3>1. CASE Board
        BY <3>1 DEF Board
      <3>2. CASE Digitizer
        BY <1>0, <1>4, <3>2 DEF Digitizer, Configure, ConfigureThrows,
           AllocateBuffer, AllocateThrows, Initialized, LeaveLoop,
           TakeInstruction, NoInstruction, ResumeThrows, PauseThrows, DigitizerGoes, PushFails,
           SkipRead, StopRun, WaitBuffer, StopRunThrows, CallThrows, PostBuffer, CollectBuffer,
           Restart, ClearAbort, FreeBuffers, ClearThrows, Untouched
      <3> QED BY <3>1, <3>2
    <2>2. \A c, b \in Nat : SourceFollows(c, b) => SourceFollows(c, b)'
      BY <1>4, SourceStep
    <2>3. Newest'
      <3> SUFFICES ASSUME out # <<>>, out[Len(out)].command = "s_run",
                          NEW c, c = out[Len(out)].chunk,
                          NEW b, b = out[Len(out)].block
                   PROVE  SourceFollows(c, b)'
        BY <2>1 DEF Newest, SourceFollows, Follows
      <3>1. Len(out) \in 1 .. Len(out)
        BY <1>b
      <3>2. c \in Nat /\ b \in Nat
        BY <1>b, <3>1
      <3>3. SourceFollows(c, b)
        BY <1>a DEF Newest
      <3> QED BY <2>2, <3>2, <3>3
    <2>4. Written'
      <3> SUFFICES ASSUME swrap # 0, ~start_file, out = <<>>,
                          NEW c, c = last_pkt,
                          NEW b, b = records[Len(records)].block
                   PROVE  SourceFollows(c, b)'
        <4>1. last_pkt' = last_pkt
              /\ records'[Len(records')].block = records[Len(records)].block
          BY <1>0
        <4> QED BY <1>0, <1>a, <2>1, <4>1
                DEF Written, RecordFollows, SourceFollows, Follows
      <3>1. SourceFollows(c, b) /\ c \in Nat /\ b \in Nat
        BY <1>a, <1>b, <1>c DEF Written, RecordFollows
      <3> QED BY <2>2, <3>1
    <2> QED BY <1>a, <2>1, <2>3, <2>4 DEF Pairs
  <1> QED BY <1>2, <1>3, <1>4

\* The writer takes what is next, and its last record is what was sent last.
LEMMA SequenceWriter ==
    ASSUME Inv, SequenceInv, Writer PROVE SequenceInv'
  <1> SUFFICES ASSUME ~canceled' PROVE Pairs' /\ Newest' /\ Written'
    BY DEF SequenceInv, Pairs, Newest, Written
  <1>0. /\ UNCHANGED <<digitizer_vars, board_vars, run>>
        /\ ~canceled
    BY DEF Writer, WriterStart, WriterRun, WriterRunThrows, WriterStop, WriterCanceled
  <1>a. /\ Pairs /\ Newest /\ Written
        /\ out \in Seq(Slot) /\ Len(out) \in Nat /\ records \in Seq(Record)
        /\ Len(records) \in Nat
    BY <1>0, SequenceParts, DataTypes DEF Inv
  <1>b. \A c, b : SourceFollows(c, b)' <=> SourceFollows(c, b)
    BY <1>0 DEF SourceFollows, AllCompleted, NextBlock, digitizer_vars, read_vars,
       board_vars
  <1>c. /\ UNCHANGED <<pc_digitizer, paused, chunk_counter, this_buffer>>
        /\ NextBlock' = NextBlock
        /\ AllCompleted' <=> AllCompleted
    BY <1>0 DEF AllCompleted, NextBlock, digitizer_vars, read_vars, board_vars
  <1>1. ASSUME NEW command, Takes(command) PROVE Pairs' /\ Newest'
    <2>1. /\ Len(out) \in Nat \ {0} /\ Len(out') = Len(out) - 1
          /\ \A i \in 1 .. Len(out') : out'[i] = out[i + 1]
      BY <1>a, <1>1, TakenOut
    <2>2. Pairs'
      <3> SUFFICES ASSUME NEW i \in 1 .. Len(out') - 1,
                          out'[i].command = "s_run", out'[i + 1].command = "s_run"
                   PROVE  Follows(out'[i].chunk, out'[i].block,
                                  out'[i + 1].chunk, out'[i + 1].block)
        BY DEF Pairs
      <3>1. /\ i \in 1 .. Len(out') /\ i + 1 \in 1 .. Len(out')
            /\ i + 1 \in 1 .. Len(out) - 1
        BY <2>1
      <3>2. out'[i] = out[i + 1] /\ out'[i + 1] = out[i + 1 + 1]
        BY <2>1, <3>1
      <3> QED BY <1>a, <3>1, <3>2 DEF Pairs
    <2>3. Newest'
      <3>1. CASE out' = <<>>
        BY <3>1 DEF Newest
      <3>2. CASE out' # <<>>
        <4>1. out' \in Seq(Slot)
          BY <1>a, <1>1 DEF Takes
        <4>2. Len(out') \in 1 .. Len(out')
          BY <2>1, <3>2, <4>1
        <4>3. out'[Len(out')] = out[Len(out)] /\ out # <<>>
          BY <2>1, <4>2
        <4>4. out[Len(out)].command = "s_run" =>
                  SourceFollows(out[Len(out)].chunk, out[Len(out)].block)
          BY <1>a, <4>3 DEF Newest
        <4> QED BY <1>b, <4>3, <4>4 DEF Newest
      <3> QED BY <3>1, <3>2
    <2> QED BY <2>2, <2>3
  <1>2. CASE WriterStart
    <2>1. Takes("s_start") /\ start_file'
      BY <1>2 DEF WriterStart
    <2> QED BY <1>1, <2>1 DEF Written
  <1>3. CASE WriterRun
    <2> DEFINE record == [file |-> swrap, id |-> Head(out).chunk,
                          block |-> Head(out).block, run |-> Head(out).run,
                          new |-> start_file \/ Head(out).chunk # ExpectedPacket]
    <2>1. /\ Takes("s_run") /\ records' = Append(records, record)
          /\ last_pkt' = Head(out).chunk /\ UNCHANGED swrap
      BY <1>3 DEF WriterRun
    <2>2. record.file = swrap /\ record.block = Head(out).block
      OBVIOUS
    <2> HIDE DEF record
    <2>3. /\ Len(out) \in Nat \ {0} /\ Len(out') = Len(out) - 1 /\ out # <<>>
          /\ Head(out) = out[1] /\ out[1].command = "s_run"
          /\ \A i \in 1 .. Len(out') : out'[i] = out[i + 1]
      BY <1>a, <2>1, TakenOut
    <2>5. records' # <<>> /\ records'[Len(records')] = record
      BY <1>a, <2>1
    <2>6. Written'
      <3>1. out' = <<>> => SourceFollows(out[1].chunk, out[1].block)
        <4>1. out' = <<>> => Len(out) = 1
          BY <2>3
        <4> QED BY <1>a, <2>3, <4>1 DEF Newest
      <3>2. out' # <<>> /\ out'[1].command = "s_run" =>
                Follows(out[1].chunk, out[1].block, out'[1].chunk, out'[1].block)
        <4> SUFFICES ASSUME out' # <<>>, out'[1].command = "s_run"
                     PROVE  Follows(out[1].chunk, out[1].block,
                                    out'[1].chunk, out'[1].block)
          OBVIOUS
        <4>1. out' \in Seq(Slot)
          BY <1>a, <2>1 DEF Takes
        <4>2. Len(out') # 0
          BY <4>1
        <4>3. 1 \in 1 .. Len(out') /\ 1 \in 1 .. Len(out) - 1
          BY <2>3, <4>2
        <4>4. out'[1] = out[1 + 1]
          BY <2>3, <4>3
        <4> QED BY <1>a, <2>3, <4>3, <4>4 DEF Pairs
      <3>3. records'[Len(records')].block = out[1].block /\ last_pkt' = out[1].chunk
        BY <2>1, <2>2, <2>3, <2>5
      <3>4. (out = <<>> => SourceFollows(last_pkt, records[Len(records)].block))'
        BY <1>c, <3>1, <3>3 DEF SourceFollows
      <3>5. RecordFollows(records[Len(records)])'
        BY <3>2, <3>3, <3>4 DEF RecordFollows, Follows
      <3> QED BY <2>5, <3>5 DEF Written
    <2> QED BY <1>1, <2>1, <2>6
  <1>4. CASE WriterStop
    <2>1. Takes("s_stop") /\ swrap' = 0
      BY <1>4 DEF WriterStop
    <2> QED BY <1>1, <2>1 DEF Written
  <1>5. CASE WriterRunThrows \/ WriterCanceled
    BY <1>0, <1>5 DEF WriterRunThrows, WriterCanceled
  <1> QED BY <1>2, <1>3, <1>4, <1>5 DEF Writer

\* What follows on each other in the stream, and in the records, does so still.
LEMMA SequenceStep ==
    ASSUME CounterSuffices, Inv, FilledInv, CountInv, SequenceInv,
           [Next]_vars
    PROVE  SequenceInv'
  <1>1. CASE RunControl \/ UNCHANGED vars
    <2>1. /\ UNCHANGED <<board_vars, digitizer_vars, writer_vars, out>>
          /\ canceled => canceled'
      BY <1>1 DEF RunControl, StartRun, EndRun, FinishFiles, FinishFilesFails,
         Cancel, vars, control_vars
    <2> QED BY <2>1 DEF SequenceInv, SourceFollows, RecordFollows, AllCompleted,
               NextBlock, board_vars, digitizer_vars, read_vars, writer_vars
  <1> QED BY <1>1, SequenceDigitizer, SequenceWriter DEF Next

-----------------------------------------------------------------------------
(* Runs and files.                                                         *)

\* A run's first record is written after its s_start has been taken.
LEMMA FreshStep ==
    ASSUME Inv, RunInv, FreshInv, [Next]_vars PROVE FreshInv'
  <1> SUFFICES ASSUME ~canceled' PROVE FreshInv'
    BY DEF FreshInv
  <1>0. /\ records \in Seq(Record) /\ Len(records) \in Nat
        /\ \A i \in 1 .. Len(records) : records[i].file \in Nat
        /\ run \in Nat
        /\ instruction \in {"none", "resume", "pause"} /\ paused \in BOOLEAN
        /\ out \in Seq(Slot)
    BY DataTypes DEF Inv, TypeOK, DigitizerTypeOK, ControlTypeOK
  <1>1. CASE Digitizer
    <2>0. /\ UNCHANGED <<swrap, start_file, records, run, pc_writer, pc_control>>
          /\ ~canceled /\ pc_writer = "loop"
      BY <1>1 DEF Digitizer, writer_vars, RunInv, EndsInv
    <2>1. Fresh' => Fresh
      <3>1. CASE TakeInstruction
        <4>1. /\ instruction' = "none" /\ UNCHANGED paused
              /\ pc_digitizer' = "start" => instruction = "resume"
          BY <3>1 DEF TakeInstruction, DigitizerGoes
        <4> QED BY <2>0, <4>1 DEF Fresh
      <3>2. CASE Resume
        <4>1. pc_digitizer = "start"
          BY <3>2 DEF Resume, DigitizerGoes
        <4> QED BY <4>1 DEF Fresh
      <3>3. CASE Pause
        <4>1. paused' /\ UNCHANGED instruction /\ pc_digitizer' = "read"
          BY <3>3 DEF Pause, DigitizerGoes
        <4> QED BY <2>0, <4>1 DEF Fresh
      <3>4. CASE ResumeThrows \/ PauseThrows
        <4>1. pc_digitizer = "start" \/ (paused' /\ UNCHANGED instruction /\ pc_digitizer' = "done")
          BY <3>4 DEF ResumeThrows, PauseThrows, DigitizerGoes
        <4> QED BY <2>0, <4>1 DEF Fresh
      <3>5. CASE \/ Configure \/ ConfigureThrows \/ AllocateBuffer \/ AllocateThrows
                 \/ Initialized \/ LeaveLoop \/ NoInstruction \/ PushFails \/ SkipRead
                 \/ StopRun \/ WaitBuffer
        <4>1. UNCHANGED <<instruction, paused>> /\ pc_digitizer' # "start"
          BY <3>5 DEF Configure, ConfigureThrows, AllocateBuffer, AllocateThrows,
             Initialized, LeaveLoop, NoInstruction, PushFails, SkipRead,
             StopRun, WaitBuffer, DigitizerGoes, Untouched
        <4> QED BY <2>0, <4>1 DEF Fresh
      <3>6. CASE \/ StopRunThrows \/ CallThrows \/ PushData \/ PostBuffer \/ CollectBuffer \/ Restart
                 \/ ClearAbort \/ FreeBuffers \/ ClearThrows
        <4>1. UNCHANGED <<instruction, paused>> /\ pc_digitizer' # "start"
          BY <3>6 DEF StopRunThrows, CallThrows, PushData, PostBuffer, CollectBuffer, Restart,
             ClearAbort, FreeBuffers, ClearThrows, DigitizerGoes, Untouched
        <4> QED BY <2>0, <4>1 DEF Fresh
      <3> QED BY <1>1, <3>1, <3>2, <3>3, <3>4, <3>5, <3>6 DEF Digitizer
    <2> QED BY <2>0, <2>1 DEF FreshInv
  <1>2. CASE Writer
    <2>0. /\ UNCHANGED <<instruction, paused, pc_digitizer, run>> /\ ~canceled
      BY <1>2 DEF Writer, WriterStart, WriterRun, WriterRunThrows, WriterStop,
         WriterCanceled, digitizer_vars
    <2>1. CASE WriterStart
      <3>1. /\ pc_writer = "loop" /\ out # <<>> /\ out[1].command = "s_start"
            /\ UNCHANGED records /\ Len(out) \in Nat \ {0}
        BY <1>0, <2>1 DEF WriterStart, Takes
      <3>2. Starting
        <4>1. ~AtRest /\ ~Streaming
          BY <3>1 DEF AtRest, Streaming, OfRun
        <4>2. ~Stopping
          <5>1. CASE Len(out) = 1
            BY <3>1, <5>1 DEF Stopping
          <5>2. CASE Len(out) # 1
            <6>1. 1 \in 1 .. Len(out) - 1
              <7>1. \A n \in Nat \ {0} : n # 1 => 1 \in 1 .. n - 1
                OBVIOUS
              <7> QED BY <3>1, <5>2, <7>1
            <6> QED BY <3>1, <6>1 DEF Stopping, OfRun
          <5> QED BY <5>1, <5>2
        <4> QED BY <3>1, <4>1, <4>2 DEF RunInv, LineInv
      <3>3. Fresh
        BY <3>2 DEF Starting, Fresh
      <3> QED BY <2>0, <3>1, <3>3 DEF FreshInv
    <2>2. CASE WriterRun
      <3> DEFINE record == [file |-> swrap, id |-> Head(out).chunk,
                            block |-> Head(out).block, run |-> Head(out).run,
                            new |-> start_file \/ Head(out).chunk # ExpectedPacket]
      <3>1. /\ records' = Append(records, record) /\ start_file' = FALSE
            /\ Takes("s_run") /\ UNCHANGED swrap
        BY <2>2 DEF WriterRun
      <3>2. pc_writer = "loop" /\ out # <<>> /\ out[1].command = "s_run"
        BY <1>0, <3>1, TakenOut
      <3>3. swrap = run /\ record.file = run
        BY <3>2, DataOfRun
      <3> HIDE DEF record
      <3>4. LineInv /\ ControlInv /\ TurnInv
        BY DEF RunInv
      <3>5. Streaming \/ Stopping
        BY <1>0, <3>2, <3>4 DEF LineInv, AtRest, Starting
      <3>6. run > 0 /\ swrap # 0
        BY <1>0, <3>3, <3>4, <3>5 DEF Streaming, Stopping, TurnInv
      <3>7. instruction # "resume" /\ pc_digitizer # "start"
        BY <1>0, <2>0, <3>2, <3>4, <3>6 DEF ControlInv, TurnInv
      <3>8. ~Fresh'
        BY <2>0, <3>1, <3>6, <3>7 DEF Fresh
      <3>9. ASSUME NEW i \in 1 .. Len(records') PROVE records'[i].file <= run
        <4>1. CASE i = Len(records) + 1
          BY <1>0, <3>1, <3>3, <4>1
        <4>2. CASE i # Len(records) + 1
          <5>1. i \in 1 .. Len(records) /\ records'[i] = records[i]
            BY <1>0, <3>1, <4>2
          <5> QED BY <2>0, <5>1 DEF FreshInv
        <4> QED BY <4>1, <4>2
      <3> QED BY <2>0, <3>8, <3>9 DEF FreshInv
    <2>3. CASE WriterStop
      <3>1. /\ pc_writer = "loop" /\ out # <<>> /\ out[1].command = "s_stop"
            /\ UNCHANGED <<records, start_file>> /\ swrap' = 0
            /\ Len(out) \in Nat \ {0}
        BY <1>0, <2>3 DEF WriterStop, Takes
      <3>2. paused
        BY <1>0, <3>1 DEF RunInv, LineInv, AtRest, Starting, Streaming, Stopping, OfRun
      <3>3. Fresh' => Fresh
        BY <2>0, <3>1, <3>2 DEF Fresh
      <3> QED BY <2>0, <3>1, <3>3 DEF FreshInv
    <2>4. CASE WriterRunThrows \/ WriterCanceled
      BY <2>0, <2>4 DEF WriterRunThrows, WriterCanceled
    <2> QED BY <1>2, <2>1, <2>2, <2>3, <2>4 DEF Writer
  <1>3. CASE RunControl /\ StartRun
    <2>1. ~canceled /\ run' = run + 1 /\ UNCHANGED records
      BY <1>3 DEF RunControl, StartRun, writer_vars
    <2> QED BY <1>0, <2>1 DEF FreshInv
  <1>4. CASE RunControl /\ EndRun
    <2>1. /\ ~canceled /\ instruction' = "pause" /\ pc_control = "running"
          /\ UNCHANGED <<records, run, swrap, start_file, paused, pc_digitizer>>
      BY <1>4 DEF RunControl, EndRun, writer_vars, digitizer_vars
    <2> QED BY <2>1 DEF FreshInv, Fresh
  <1>5. CASE \/ RunControl /\ (FinishFiles \/ FinishFilesFails \/ Cancel)
             \/ UNCHANGED vars \/ Board
    <2>1. /\ ~canceled
          /\ UNCHANGED <<records, run, swrap, start_file, paused, pc_digitizer,
                         instruction>>
      BY <1>5 DEF RunControl, FinishFiles, FinishFilesFails, Cancel, writer_vars,
         digitizer_vars, control_vars, vars, Board
    <2> QED BY <2>1 DEF FreshInv, Fresh
  <1> QED BY <1>1, <1>2, <1>3, <1>4, <1>5 DEF Next, RunControl

\* A new record is marked as what follows on the last one requires.
LEMMA MarkedStep ==
    ASSUME CounterSuffices, Inv, RunInv, MarkInv, [Next]_vars
    PROVE  AcquisitionsMarked'
  <1>0. /\ AcquisitionsMarked /\ CountInv /\ SequenceInv /\ FreshInv
        /\ out \in Seq(Slot) /\ records \in Seq(Record) /\ Len(records) \in Nat
        /\ last_pkt \in Nat /\ run \in Nat
        /\ \A i \in 1 .. Len(out) :
               out[i].command = "s_run" => out[i].chunk \in Nat /\ out[i].block \in Nat
        /\ \A i \in 1 .. Len(records) : records[i].block \in Nat
    BY DataTypes DEF MarkInv, Inv, TypeOK, ControlTypeOK
  <1>1. CASE Writer /\ WriterRun
    <2> DEFINE record == [file |-> swrap, id |-> Head(out).chunk,
                          block |-> Head(out).block, run |-> Head(out).run,
                          new |-> start_file \/ Head(out).chunk # ExpectedPacket]
    <2>1. /\ Takes("s_run") /\ records' = Append(records, record) /\ swrap # 0
      BY <1>1 DEF WriterRun
    <2>2. /\ ~canceled /\ pc_writer = "loop" /\ out # <<>> /\ Head(out) = out[1]
          /\ out[1].command = "s_run" /\ Len(out) \in Nat \ {0}
      BY <1>0, <2>1, TakenOut
    <2>3. /\ record.file = swrap /\ record.block = out[1].block
          /\ record.new <=> (start_file \/ out[1].chunk # ExpectedPacket)
      BY <2>2
    <2> HIDE DEF record
    <2>4. swrap = run /\ out[1].chunk \in Nat /\ out[1].block \in Nat
      BY <1>0, <2>2, DataOfRun
    <2>5. ExpectedPacket = last_pkt + 1
      <3>1. last_pkt + 2 < CounterLimit
        BY <1>0 DEF CountInv, CounterSuffices
      <3>2. Increment(last_pkt) = last_pkt + 1
        BY <1>0, <3>1, NoWrap
      <3>3. ~(last_pkt + 1 >= CounterLimit - 1)
        BY <1>0, <3>1
      <3> QED BY <3>2, <3>3 DEF ExpectedPacket
    <2>6. ASSUME records # <<>>, records[Len(records)].file = swrap
          PROVE  record.new <=> record.block # records[Len(records)].block + 1
      <3>1. Len(records) \in 1 .. Len(records)
        BY <1>0, <2>6
      <3>2. ~start_file
        BY <1>0, <2>1, <2>2, <2>4, <2>6, <3>1 DEF FreshInv, Fresh
      <3>3. Follows(last_pkt, records[Len(records)].block, out[1].chunk, out[1].block)
        BY <1>0, <2>1, <2>2, <3>2 DEF SequenceInv, RecordFollows
      <3> QED BY <2>3, <2>5, <3>2, <3>3 DEF Follows
    <2>7. ASSUME NEW i \in 2 .. Len(records'),
                 records'[i - 1].file = records'[i].file
          PROVE  records'[i].new <=> records'[i].block # records'[i - 1].block + 1
      <3>1. CASE i = Len(records) + 1
        <4>1. /\ records # <<>> /\ records'[i] = record
              /\ records'[i - 1] = records[Len(records)]
          BY <1>0, <2>1, <3>1
        <4> QED BY <2>3, <2>6, <2>7, <4>1
      <3>2. CASE i # Len(records) + 1
        <4>1. /\ i \in 2 .. Len(records) /\ records'[i] = records[i]
              /\ records'[i - 1] = records[i - 1]
          BY <1>0, <2>1, <3>2
        <4> QED BY <1>0, <2>7, <4>1 DEF AcquisitionsMarked
      <3> QED BY <3>1, <3>2
    <2> QED BY <2>7 DEF AcquisitionsMarked
  <1>2. CASE \/ Board \/ Digitizer \/ RunControl \/ UNCHANGED vars
             \/ Writer /\ ~WriterRun
    <2>1. UNCHANGED records
      BY <1>2 DEF Board, Digitizer, RunControl, vars, Writer, WriterStart,
         WriterRunThrows, WriterStop, WriterCanceled, writer_vars
    <2> QED BY <1>0, <2>1 DEF AcquisitionsMarked
  <1> QED BY <1>1, <1>2 DEF Next

\* Before the first run there is nothing to mark.
LEMMA MarkInvInit == Init => MarkInv
  BY DEF Init, MarkInv, CountInv, FilledInv, Held, SequenceInv, FreshInv,
     AcquisitionsMarked

\* Every step keeps numbers, blocks and marks together.
LEMMA MarkInvStep ==
    ASSUME CounterSuffices, Inv, RunInv, MarkInv, [Next]_vars PROVE MarkInv'
  BY CountStep, FilledStep, SequenceStep, FreshStep, MarkedStep DEF MarkInv

\* No gap goes unmarked: a record that does not begin a new acquisition holds
\* the samples that follow on those of the record before it.
GapsMarked ==
    \A i \in 1 .. Len(records) :
        ~records[i].new => i > 1 /\ records[i].block = records[i - 1].block + 1

\* A record is written without the mark only if its number is the next one.
LEMMA GapsStep ==
    ASSUME CounterSuffices, Inv, CountInv, SequenceInv, GapsMarked, [Next]_vars
    PROVE  GapsMarked'
  <1>0. /\ out \in Seq(Slot) /\ records \in Seq(Record) /\ Len(records) \in Nat
        /\ last_pkt \in Nat
        /\ \A i \in 1 .. Len(out) :
               out[i].command = "s_run" => out[i].chunk \in Nat /\ out[i].block \in Nat
    BY DataTypes DEF Inv
  <1>1. CASE Writer /\ WriterRun
    <2> DEFINE record == [file |-> swrap, id |-> Head(out).chunk,
                          block |-> Head(out).block, run |-> Head(out).run,
                          new |-> start_file \/ Head(out).chunk # ExpectedPacket]
    <2>1. /\ Takes("s_run") /\ records' = Append(records, record) /\ swrap # 0
      BY <1>1 DEF WriterRun
    <2>2. /\ ~canceled /\ out # <<>> /\ Head(out) = out[1]
          /\ out[1].command = "s_run"
      BY <1>0, <2>1, TakenOut
    <2>3. /\ record.block = out[1].block
          /\ record.new <=> (start_file \/ out[1].chunk # ExpectedPacket)
      BY <2>2
    <2> HIDE DEF record
    <2>4. ExpectedPacket = last_pkt + 1
      <3>1. last_pkt + 2 < CounterLimit
        BY <1>0 DEF CountInv, CounterSuffices
      <3>2. Increment(last_pkt) = last_pkt + 1
        BY <1>0, <3>1, NoWrap
      <3>3. ~(last_pkt + 1 >= CounterLimit - 1)
        BY <1>0, <3>1
      <3> QED BY <3>2, <3>3 DEF ExpectedPacket
    <2>5. ~record.new =>
              records # <<>> /\ record.block = records[Len(records)].block + 1
      BY <2>1, <2>2, <2>3, <2>4 DEF SequenceInv, RecordFollows, Follows
    <2>6. ASSUME NEW i \in 1 .. Len(records'), ~records'[i].new
          PROVE  i > 1 /\ records'[i].block = records'[i - 1].block + 1
      <3>1. CASE i = Len(records) + 1
        <4>1. records # <<>>
          BY <1>0, <2>1, <2>5, <2>6, <3>1
        <4>2. i > 1 /\ records'[i] = record /\ records'[i - 1] = records[Len(records)]
          BY <1>0, <2>1, <3>1, <4>1
        <4> QED BY <2>5, <2>6, <4>2
      <3>2. CASE i # Len(records) + 1
        <4>1. i \in 1 .. Len(records) /\ records'[i] = records[i]
          BY <1>0, <2>1, <3>2
        <4>2. i > 1 /\ records[i].block = records[i - 1].block + 1
          BY <2>6, <4>1 DEF GapsMarked
        <4>3. records'[i - 1] = records[i - 1]
          BY <1>0, <2>1, <4>1, <4>2
        <4> QED BY <4>1, <4>2, <4>3
      <3> QED BY <3>1, <3>2
    <2> QED BY <2>6 DEF GapsMarked
  <1>2. CASE \/ Board \/ Digitizer \/ RunControl \/ UNCHANGED vars
             \/ Writer /\ ~WriterRun
    <2>1. UNCHANGED records
      BY <1>2 DEF Board, Digitizer, RunControl, vars, Writer, WriterStart,
         WriterRunThrows, WriterStop, WriterCanceled, writer_vars
    <2> QED BY <2>1 DEF GapsMarked
  <1> QED BY <1>1, <1>2 DEF Next

-----------------------------------------------------------------------------
(* However late the writer starts.                                         *)

\* Data that the writer is about to take find it with a stream
\* (ats_streaming_writer.cc:179 calls it without a test).
DataHaveStream ==
    ~canceled /\ out # <<>> /\ Head(out).command = "s_run" => swrap # 0

\* In the stream no data are right behind an s_stop; data at its head find the
\* writer with a stream; while the digitizer runs, its last command was no
\* s_stop.
SessionInv ==
    ~canceled =>
        /\ pc_control # "idle" => run > 0
        /\ \A i \in 1 .. Len(out) - 1 :
               out[i + 1].command = "s_run" => out[i].command # "s_stop"
        /\ out # <<>> /\ out[1].command = "s_run" => swrap # 0
        /\ out # <<>> /\ out[Len(out)].command = "s_stop" => paused
        /\ out = <<>> /\ swrap = 0 => paused

\* What is sent goes behind the last command.
LEMMA SessionSent ==
    ASSUME Inv, SessionInv, ~canceled, NEW slot, PushOut(slot), run' = run,
           UNCHANGED <<swrap, pc_control>>,
           slot.command = "s_run" => ~paused, slot.command = "s_stop" => paused'
    PROVE  SessionInv'
  <1>0. out \in Seq(Slot) /\ Len(out) \in Nat
    BY DEF Inv, TypeOK, WriterTypeOK
  <1>1. /\ Len(out') = Len(out) + 1 /\ out' # <<>>
        /\ out'[Len(out')] = slot
        /\ \A i \in 1 .. Len(out) : out'[i] = out[i]
    BY <1>0, PushedOut
  <1>2. ASSUME NEW i \in 1 .. Len(out') - 1, out'[i + 1].command = "s_run"
        PROVE  out'[i].command # "s_stop"
    <2>1. CASE i = Len(out)
      <3>1. slot.command = "s_run" /\ out'[i] = out[Len(out)] /\ out # <<>>
        BY <1>0, <1>1, <1>2, <2>1
      <3> QED BY <3>1 DEF SessionInv
    <2>2. CASE i # Len(out)
      <3>1. /\ i \in 1 .. Len(out) - 1 /\ i \in 1 .. Len(out)
            /\ i + 1 \in 1 .. Len(out)
        BY <1>0, <1>1, <2>2
      <3> QED BY <1>1, <1>2, <3>1 DEF SessionInv
    <2> QED BY <2>1, <2>2
  <1>3. out'[1].command = "s_run" => swrap # 0
    <2>1. CASE out = <<>>
      <3>1. out'[1] = slot
        BY <1>0, <1>1, <2>1
      <3> QED BY <2>1, <3>1 DEF SessionInv
    <2>2. CASE out # <<>>
      <3>1. out'[1] = out[1]
        BY <1>0, <1>1, <2>2
      <3> QED BY <2>2, <3>1 DEF SessionInv
    <2> QED BY <2>1, <2>2
  <1> QED BY <1>1, <1>2, <1>3 DEF SessionInv

\* What is taken leaves the next command at the head.
LEMMA SessionTaken ==
    ASSUME Inv, SessionInv, NEW command, Takes(command),
           UNCHANGED <<run, pc_control, paused>>,
           IF command = "s_stop" THEN swrap' = 0
           ELSE swrap' # 0 \/ (UNCHANGED swrap /\ command = "s_run")
    PROVE  SessionInv'
  <1>0. out \in Seq(Slot) /\ Len(out) \in Nat
    BY DEF Inv, TypeOK, WriterTypeOK
  <1>1. /\ ~canceled /\ out # <<>> /\ out[1].command = command
        /\ Len(out) \in Nat \ {0} /\ Len(out') = Len(out) - 1
        /\ \A i \in 1 .. Len(out') : out'[i] = out[i + 1]
        /\ out' \in Seq(Slot)
    BY <1>0, TakenOut DEF Takes
  <1>2. ASSUME NEW i \in 1 .. Len(out') - 1, out'[i + 1].command = "s_run"
        PROVE  out'[i].command # "s_stop"
    <2>1. /\ i \in 1 .. Len(out') /\ i + 1 \in 1 .. Len(out')
          /\ i + 1 \in 1 .. Len(out) - 1
      BY <1>1
    <2>2. out'[i] = out[i + 1] /\ out'[i + 1] = out[(i + 1) + 1]
      <3>1. \A j \in 1 .. Len(out') : out'[j] = out[j + 1]
        BY <1>1
      <3> QED BY <2>1, <3>1
    <2> QED BY <1>1, <1>2, <2>1, <2>2 DEF SessionInv
  <1>3. CASE out' = <<>>
    <2>1. Len(out) = 1
      BY <1>1, <1>3
    <2>2. swrap' = 0 => paused
      BY <1>1, <2>1 DEF SessionInv
    <2> QED BY <1>1, <1>2, <1>3, <2>2 DEF SessionInv
  <1>4. CASE out' # <<>>
    <2>1. Len(out') \in Nat \ {0} /\ 1 \in 1 .. Len(out) - 1
      BY <1>1, <1>4
    <2>2. out'[1] = out[1 + 1] /\ out'[Len(out')] = out[Len(out)]
      BY <1>1, <2>1
    <2>3. out'[1].command = "s_run" => swrap' # 0
      BY <1>1, <2>1, <2>2 DEF SessionInv
    <2> QED BY <1>1, <1>2, <1>4, <2>2, <2>3 DEF SessionInv
  <1> QED BY <1>3, <1>4

LEMMA SessionStep == ASSUME Inv, SessionInv, [Next]_vars PROVE SessionInv'
  <1> SUFFICES ASSUME ~canceled' PROVE SessionInv'
    BY DEF SessionInv
  <1>0. run \in Nat
    BY DEF Inv, TypeOK, ControlTypeOK
  <1>1. CASE Digitizer
    <2>0. ~canceled /\ UNCHANGED <<swrap, run, pc_control>>
      BY <1>1 DEF Digitizer, writer_vars
    <2>1. CASE Resume \/ ResumeThrows \/ Pause \/ PauseThrows
      <3>1. \/ PushOut([command |-> "s_start"])
            \/ PushOut([command |-> "s_stop"]) /\ paused'
        BY <2>1 DEF Resume, ResumeThrows, Pause, PauseThrows
      <3> QED BY <2>0, <3>1, SessionSent
    <2>2. CASE PushData
      <3> DEFINE slot == [command |-> "s_run", chunk |-> chunk_counter,
                          block |-> this_buffer.block, run |-> this_buffer.run]
      <3>1. PushOut(slot) /\ pc_digitizer = "push" /\ slot.command = "s_run"
        BY <2>2 DEF PushData, DigitizerGoes
      <3>2. ~paused
        BY <3>1 DEF Inv, HeldInv
      <3> HIDE DEF slot
      <3> QED BY <2>0, <3>1, <3>2, SessionSent
    <2>3. CASE \/ Configure \/ ConfigureThrows \/ AllocateBuffer \/ AllocateThrows
               \/ Initialized \/ LeaveLoop \/ TakeInstruction \/ NoInstruction
               \/ PushFails \/ SkipRead \/ StopRun \/ WaitBuffer \/ StopRunThrows \/ CallThrows
               \/ PostBuffer \/ CollectBuffer \/ Restart
               \/ ClearAbort \/ FreeBuffers \/ ClearThrows
      <3>1. UNCHANGED <<out, paused>>
        BY <2>3 DEF Configure, ConfigureThrows, AllocateBuffer, AllocateThrows,
           Initialized, LeaveLoop, TakeInstruction, NoInstruction, PushFails,
           SkipRead, StopRun, WaitBuffer, StopRunThrows, CallThrows, PostBuffer, CollectBuffer,
           Restart, ClearAbort, FreeBuffers, ClearThrows, Untouched
      <3> QED BY <2>0, <3>1 DEF SessionInv
    <2> QED BY <1>1, <2>1, <2>2, <2>3 DEF Digitizer
  <1>2. CASE Writer
    <2>0. ~canceled /\ UNCHANGED <<paused, run, pc_control>>
      BY <1>2 DEF Writer, WriterStart, WriterRun, WriterRunThrows, WriterStop,
         WriterCanceled, digitizer_vars
    <2>1. CASE WriterStart
      <3>1. Takes("s_start") /\ pc_control # "idle" /\ swrap' = run
        BY <2>1 DEF WriterStart
      <3>2. swrap' # 0
        BY <1>0, <2>0, <3>1 DEF SessionInv
      <3> QED BY <2>0, <3>1, <3>2, SessionTaken
    <2>2. CASE WriterRun
      <3>1. Takes("s_run") /\ UNCHANGED swrap
        BY <2>2 DEF WriterRun
      <3> QED BY <2>0, <3>1, SessionTaken
    <2>3. CASE WriterStop
      <3>1. Takes("s_stop") /\ swrap' = 0
        BY <2>3 DEF WriterStop
      <3> QED BY <2>0, <3>1, SessionTaken
    <2>4. CASE WriterRunThrows \/ WriterCanceled
      BY <2>0, <2>4 DEF WriterRunThrows, WriterCanceled
    <2> QED BY <1>2, <2>1, <2>2, <2>3, <2>4 DEF Writer
  <1>3. CASE RunControl
    <2>1. ~canceled /\ UNCHANGED <<out, swrap, paused>>
      BY <1>3 DEF RunControl, StartRun, EndRun, FinishFiles, FinishFilesFails,
         Cancel, writer_vars, digitizer_vars
    <2>2. pc_control' # "idle" => run' > 0
      BY <1>0, <1>3, <2>1 DEF RunControl, StartRun, EndRun, FinishFiles,
         FinishFilesFails, Cancel, SessionInv
    <2> QED BY <2>1, <2>2 DEF SessionInv
  <1>4. CASE Board \/ UNCHANGED vars
    <2>1. UNCHANGED <<canceled, out, swrap, paused, run, pc_control>>
      BY <1>4 DEF Board, vars, writer_vars, digitizer_vars, control_vars
    <2> QED BY <2>1 DEF SessionInv
  <1> QED BY <1>1, <1>2, <1>3, <1>4 DEF Next

-----------------------------------------------------------------------------
(* All of a run.                                                           *)

\* The digitizer has taken the resume of the run.
Begun == run > 0 /\ instruction # "resume" /\ pc_digitizer # "start"

Sent == buffers_completed + (IF pc_digitizer = "return" THEN 1 ELSE 0)

\* There is a command in the stream.
Framed ==
    out # <<>> /\ (out[1].command = "s_start" \/ out[Len(out)].command = "s_stop")

\* The data in the stream.
OnTheWay == Len(out) - (IF Framed THEN 1 ELSE 0)

\* The last n records, and no others, are in the file of the run.
LastOfRun(n) ==
    /\ n \in 0 .. Len(records)
    /\ \A i \in 1 .. Len(records) : records[i].file = run <=> i + n > Len(records)

\* What has been sent is recorded or on its way.
WholeInv ==
    ~canceled =>
        /\ Begun => LastOfRun(Sent - OnTheWay)
        /\ stop_requested => Begun /\ buffers_completed = BuffersPerRun

\* Block b is before all that is not sent.
BeforeSource(b) ==
    /\ pc_digitizer = "push" => b < this_buffer.block
    /\ \A i \in 1 .. Len(full) : b < full[i].block
    /\ b < block

\* Blocks are taken from the board, sent and recorded in their order.
OrderInv ==
    /\ \A i \in 1 .. Len(full) :
           full[i].block < block /\ \A j \in 1 .. i - 1 : full[j].block < full[i].block
    /\ pc_digitizer = "push" =>
           /\ this_buffer.block < block
           /\ \A i \in 1 .. Len(full) : this_buffer.block < full[i].block
    /\ \A i \in 1 .. Len(out) : out[i].command = "s_run" =>
           /\ BeforeSource(out[i].block)
           /\ \A j \in 1 .. i - 1 :
                  out[j].command = "s_run" => out[j].block < out[i].block
           /\ records # <<>> => records[Len(records)].block < out[i].block
    /\ records # <<>> => BeforeSource(records[Len(records)].block)
    /\ \A i \in 2 .. Len(records) : records[i - 1].block < records[i].block

\* The parts of the state that the steps below need the types of.
LEMMA WholeTypes ==
    ASSUME TypeOK
    PROVE  /\ out \in Seq(Slot) /\ Len(out) \in Nat
           /\ records \in Seq(Record) /\ Len(records) \in Nat
           /\ buffers_completed \in 0 .. BuffersPerRun /\ run \in Nat
           /\ stop_requested \in BOOLEAN /\ paused \in BOOLEAN
           /\ BuffersPerRun \in Nat
  BY AcquisitionAssumption, DataTypes DEF TypeOK, DigitizerTypeOK, ControlTypeOK

\* The first and the last place of what is not empty.
LEMMA OneOrMore ==
    \A n \in Nat \ {0} : /\ 1 \in 1 .. n /\ (n = 1 \/ 1 \in 1 .. n - 1)
                         /\ n \in 1 .. n /\ (n = 1 \/ n \in 2 .. n)
  OBVIOUS

\* A digitizer that is not paused has taken the resume of the run.
LEMMA BegunRuns ==
    ASSUME RunInv, Inv, ~canceled, ~paused PROVE Begun
  BY DEF RunInv, TurnInv, ControlInv, Begun, Inv, TypeOK, ControlTypeOK

\* The digitizer counts what it sends.
LEMMA WholeDigitizer ==
    ASSUME Inv, RunInv, FreshInv, WholeInv, Digitizer PROVE WholeInv'
  <1> SUFFICES ASSUME ~canceled' PROVE WholeInv'
    BY DEF WholeInv
  <1>0. /\ ~canceled /\ pc_digitizer' # "done" /\ pc_writer = "loop"
        /\ UNCHANGED <<run, records, swrap, pc_control>>
        /\ out \in Seq(Slot) /\ Len(out) \in Nat /\ Len(records) \in Nat
        /\ buffers_completed \in 0 .. BuffersPerRun
        /\ AtRest \/ Starting \/ Streaming \/ Stopping
    BY WholeTypes DEF Digitizer, writer_vars, RunInv, EndsInv, LineInv, Inv
  <1>a. /\ Begun => LastOfRun(Sent - OnTheWay)
        /\ stop_requested => Begun /\ buffers_completed = BuffersPerRun
    BY <1>0 DEF WholeInv
  <1>b. ASSUME NEW n PROVE LastOfRun(n)' <=> LastOfRun(n)
    BY <1>0 DEF LastOfRun
  <1>1. CASE Resume
    <2>1. /\ pc_digitizer = "start" /\ PushOut([command |-> "s_start"])
          /\ buffers_completed' = 0 /\ pc_digitizer' = "read"
          /\ UNCHANGED <<instruction, stop_requested>>
      BY <1>1 DEF Resume, DigitizerGoes
    <2>2. out = <<>> /\ ~stop_requested
      BY <1>0, <1>a, <2>1 DEF RunInv, TurnInv, AtRest, Starting, Streaming, Stopping, Begun
    <2>3. out' = <<[command |-> "s_start"]>>
      BY <2>1, <2>2 DEF PushOut
    <2>4. Sent' - OnTheWay' = 0
      <3>1. out' # <<>> /\ Len(out') = 1 /\ out'[1].command = "s_start"
        BY <2>3
      <3>2. Framed' /\ Sent' = 0
        BY <2>1, <3>1 DEF Framed, Sent
      <3>3. OnTheWay' = Len(out') - 1
        BY <3>2 DEF OnTheWay
      <3>4. OnTheWay' = 0
        BY <3>1, <3>3
      <3> QED BY <3>2, <3>4
    <2>5. ASSUME NEW i \in 1 .. Len(records) PROVE records[i].file # run
      <3>1. records[i].file < run
        BY <1>0, <2>1 DEF FreshInv, Fresh
      <3>2. records[i].file \in Nat /\ run \in Nat
        BY DataTypes, WholeTypes DEF Inv
      <3> QED BY <3>1, <3>2
    <2>6. LastOfRun(0)
      BY <1>0, <2>5 DEF LastOfRun
    <2> QED BY <1>b, <2>1, <2>2, <2>4, <2>6 DEF WholeInv
  <1>2. CASE Pause
    <2>1. /\ pc_digitizer = "stop" /\ PushOut([command |-> "s_stop"])
          /\ pc_digitizer' = "read"
          /\ UNCHANGED <<instruction, stop_requested, buffers_completed>>
      BY <1>2 DEF Pause, DigitizerGoes
    <2>2. Streaming
      BY <1>0, <2>1 DEF RunInv, TurnInv, AtRest, Starting, Stopping
    <2>3. ~Framed
      <3>1. \A i \in 1 .. Len(out) : out[i].command = "s_run"
        BY <2>2 DEF Streaming, OfRun
      <3>2. out # <<>> => 1 \in 1 .. Len(out) /\ Len(out) \in 1 .. Len(out)
        BY <1>0
      <3> QED BY <3>1, <3>2 DEF Framed
    <2>4. Len(out') = Len(out) + 1 /\ Framed'
      BY <1>0, <2>1, PushedOut DEF Framed
    <2>5. Sent' - OnTheWay' = Sent - OnTheWay /\ Begun
      BY <1>0, <2>1, <2>2, <2>3, <2>4, BegunRuns DEF Sent, OnTheWay, Streaming
    <2>6. Begun'
      BY <1>0, <2>1, <2>5 DEF Begun
    <2> QED BY <1>a, <1>b, <2>1, <2>5, <2>6 DEF WholeInv
  <1>3. CASE PushData
    <2> DEFINE slot == [command |-> "s_run", chunk |-> chunk_counter,
                        block |-> this_buffer.block, run |-> this_buffer.run]
    <2>1. /\ PushOut(slot) /\ pc_digitizer = "push" /\ pc_digitizer' = "return"
          /\ UNCHANGED <<instruction, stop_requested, buffers_completed>>
          /\ slot.command = "s_run"
      BY <1>3 DEF PushData, DigitizerGoes, Untouched
    <2>2. ~paused
      BY <2>1 DEF Inv, HeldInv
    <2> HIDE DEF slot
    <2>3. /\ Len(out') = Len(out) + 1 /\ out' # <<>> /\ out'[Len(out')] = slot
          /\ \A i \in 1 .. Len(out) : out'[i] = out[i]
      BY <1>0, <2>1, PushedOut
    <2>4. out # <<>> => out[Len(out)].command # "s_stop"
      <3>0. out # <<>> => Len(out) \in Nat \ {0}
        BY <1>0
      <3>1. out # <<>> => Len(out) \in 1 .. Len(out) /\ (Len(out) = 1 \/ Len(out) \in 2 .. Len(out))
        BY <3>0, OneOrMore
      <3> QED BY <1>0, <2>2, <3>1 DEF AtRest, Starting, Streaming, Stopping, OfRun
    <2>5. Framed' <=> Framed
      <3>1. CASE out = <<>>
        BY <1>0, <2>1, <2>3, <3>1 DEF Framed
      <3>2. CASE out # <<>>
        <4>1. out'[1] = out[1]
          BY <1>0, <2>3, <3>2
        <4> QED BY <2>1, <2>3, <2>4, <3>2, <4>1 DEF Framed
      <3> QED BY <3>1, <3>2
    <2>6. Sent' - OnTheWay' = Sent - OnTheWay /\ Begun
      BY <1>0, <2>1, <2>2, <2>3, <2>5, BegunRuns DEF Sent, OnTheWay
    <2>7. Begun'
      BY <1>0, <2>1, <2>6 DEF Begun
    <2> QED BY <1>a, <1>b, <2>1, <2>6, <2>7 DEF WholeInv
  <1>4. CASE PostBuffer \/ CollectBuffer \/ Restart
    <2>1. /\ pc_digitizer = "return" /\ pc_digitizer' = "check"
          /\ buffers_completed' = buffers_completed + 1
          /\ UNCHANGED <<instruction, stop_requested, out>>
      BY <1>4 DEF PostBuffer, CollectBuffer, Restart, DigitizerGoes
    <2>2. buffers_completed < BuffersPerRun
      BY <2>1 DEF Inv, HeldInv
    <2>3. Sent' - OnTheWay' = Sent - OnTheWay
      BY <1>0, <2>1 DEF Sent, OnTheWay, Framed
    <2>4. ~stop_requested /\ (Begun' => Begun)
      BY <1>0, <1>a, <2>1, <2>2 DEF Begun
    <2> QED BY <1>a, <1>b, <2>1, <2>3, <2>4 DEF WholeInv
  <1>5. CASE StopRun
    <2>1. /\ ~paused /\ AllCompleted /\ pc_digitizer = "read" /\ pc_digitizer' = "check"
          /\ UNCHANGED <<instruction, buffers_completed, out>>
      BY <1>5 DEF StopRun, DigitizerGoes
    <2>2. Begun /\ Begun'
      BY <1>0, <2>1, BegunRuns DEF Begun
    <2>3. Sent' - OnTheWay' = Sent - OnTheWay /\ buffers_completed = BuffersPerRun
      BY <1>0, <2>1, AcquisitionAssumption DEF Sent, OnTheWay, Framed, AllCompleted
    <2> QED BY <1>a, <1>b, <2>1, <2>2, <2>3 DEF WholeInv
  <1>6. CASE TakeInstruction
    <2>1. /\ pc_digitizer = "check" /\ pc_digitizer' \in {"start", "stop", "read"}
          /\ (paused /\ instruction = "resume" => pc_digitizer' = "start")
          /\ UNCHANGED <<stop_requested, buffers_completed, out>>
      BY <1>6 DEF TakeInstruction, DigitizerGoes
    <2>2. instruction = "resume" => paused
      BY <1>0, WholeTypes DEF RunInv, ControlInv, Inv, TypeOK, ControlTypeOK
    <2>3. Begun' => Begun
      BY <1>0, <2>1, <2>2 DEF Begun
    <2>4. Begun => Begun'
      BY <1>0, <1>6, <2>1 DEF Begun, TakeInstruction, DigitizerGoes
    <2>5. Sent' - OnTheWay' = Sent - OnTheWay
      BY <2>1 DEF Sent, OnTheWay, Framed
    <2> QED BY <1>a, <1>b, <2>1, <2>3, <2>4, <2>5 DEF WholeInv
  <1>7. CASE \/ Configure \/ ConfigureThrows \/ AllocateBuffer \/ AllocateThrows
             \/ Initialized \/ LeaveLoop \/ NoInstruction \/ ResumeThrows \/ PushFails
             \/ PauseThrows \/ SkipRead \/ WaitBuffer \/ StopRunThrows \/ CallThrows
             \/ ClearAbort \/ FreeBuffers \/ ClearThrows
    <2>1. /\ pc_digitizer # "start" /\ pc_digitizer' # "start"
          /\ (pc_digitizer = "return" <=> pc_digitizer' = "return")
          /\ UNCHANGED <<instruction, stop_requested, buffers_completed, out>>
      <3>1. CASE \/ Configure \/ ConfigureThrows \/ AllocateBuffer \/ AllocateThrows
                 \/ Initialized \/ LeaveLoop \/ NoInstruction \/ ResumeThrows
                 \/ PauseThrows \/ PushFails
        BY <1>0, <3>1 DEF Configure, ConfigureThrows, AllocateBuffer, AllocateThrows,
           Initialized, LeaveLoop, NoInstruction, ResumeThrows, PauseThrows, PushFails,
           DigitizerGoes, Untouched
      <3>2. CASE \/ SkipRead \/ WaitBuffer \/ StopRunThrows \/ CallThrows
                 \/ ClearAbort \/ FreeBuffers \/ ClearThrows
        BY <1>0, <3>2 DEF SkipRead, WaitBuffer, StopRunThrows, CallThrows, ClearAbort, FreeBuffers,
           ClearThrows, DigitizerGoes, Untouched
      <3> QED BY <1>7, <3>1, <3>2
    <2>2. Sent' - OnTheWay' = Sent - OnTheWay /\ (Begun' <=> Begun)
      BY <1>0, <2>1 DEF Sent, OnTheWay, Framed, Begun
    <2> QED BY <1>a, <1>b, <2>1, <2>2 DEF WholeInv
  <1> QED BY <1>1, <1>2, <1>3, <1>4, <1>5, <1>6, <1>7 DEF Digitizer

\* The writer records what it takes.
LEMMA WholeWriter ==
    ASSUME Inv, RunInv, WholeInv, Writer PROVE WholeInv'
  <1> SUFFICES ASSUME ~canceled' PROVE WholeInv'
    BY DEF WholeInv
  <1>0. /\ ~canceled /\ LineInv
        /\ UNCHANGED <<run, instruction, stop_requested, buffers_completed,
                       pc_digitizer, paused>>
        /\ out \in Seq(Slot) /\ Len(out) \in Nat
        /\ records \in Seq(Record) /\ Len(records) \in Nat
        /\ buffers_completed \in 0 .. BuffersPerRun
    BY WholeTypes DEF Writer, WriterStart, WriterRun, WriterRunThrows, WriterStop,
       WriterCanceled, digitizer_vars, RunInv, Inv
  <1>a. /\ Begun => LastOfRun(Sent - OnTheWay)
        /\ stop_requested => Begun /\ buffers_completed = BuffersPerRun
    BY <1>0 DEF WholeInv
  <1>b. Begun' = Begun /\ Sent' = Sent
    BY <1>0 DEF Begun, Sent
  <1>1. ASSUME NEW command, Takes(command)
        PROVE  /\ pc_writer = "loop" /\ out # <<>> /\ out[1].command = command
               /\ Len(out) \in Nat \ {0} /\ Len(out') = Len(out) - 1
               /\ \A i \in 1 .. Len(out') : out'[i] = out[i + 1]
    BY <1>0, <1>1, TakenOut
  <1>2. CASE WriterStart
    <2>1. Takes("s_start") /\ UNCHANGED records
      BY <1>2 DEF WriterStart
    <2>2. out[1].command = "s_start" /\ out # <<>> /\ pc_writer = "loop"
      BY <1>1, <2>1
    <2>3. Starting
      <3>0. Len(out) \in Nat \ {0}
        BY <1>0, <2>2
      <3>1. 1 \in 1 .. Len(out) /\ (Len(out) = 1 \/ 1 \in 1 .. Len(out) - 1)
        BY <3>0, OneOrMore
      <3> QED BY <1>0, <2>2, <3>1 DEF LineInv, AtRest, Streaming, Stopping, OfRun
    <2>4. \A i \in 1 .. Len(out') : out'[i].command = "s_run"
      <3> SUFFICES ASSUME NEW i \in 1 .. Len(out') PROVE out'[i].command = "s_run"
        OBVIOUS
      <3>1. i + 1 \in 2 .. Len(out) /\ out'[i] = out[i + 1]
        BY <1>1, <2>1
      <3> QED BY <2>3, <3>1 DEF Starting, OfRun
    <2>5. Framed /\ ~Framed'
      <3>1. out' # <<>> => 1 \in 1 .. Len(out') /\ Len(out') \in 1 .. Len(out')
        BY <1>0, <2>1 DEF Takes
      <3> QED BY <2>2, <2>4, <3>1 DEF Framed
    <2>6. OnTheWay' = OnTheWay
      BY <1>1, <2>1, <2>5 DEF OnTheWay
    <2> QED BY <1>0, <1>a, <1>b, <2>1, <2>6 DEF WholeInv, LastOfRun
  <1>3. CASE WriterStop
    <2>1. Takes("s_stop") /\ UNCHANGED records
      BY <1>3 DEF WriterStop
    <2>2. out[1].command = "s_stop" /\ out # <<>> /\ pc_writer = "loop" /\ Len(out) \in Nat \ {0}
      BY <1>1, <2>1
    <2>3. Len(out) = 1
      <3>1. 1 \in 1 .. Len(out) /\ (Len(out) = 1 \/ 1 \in 1 .. Len(out) - 1)
        BY <2>2, OneOrMore
      <3> QED BY <1>0, <2>2, <3>1 DEF LineInv, AtRest, Starting, Streaming, Stopping, OfRun
    <2>4. Framed /\ out' = <<>>
      BY <1>0, <2>1, <2>2, <2>3 DEF Framed, Takes
    <2>5. OnTheWay' = OnTheWay
      BY <2>3, <2>4 DEF OnTheWay, Framed
    <2> QED BY <1>0, <1>a, <1>b, <2>1, <2>5 DEF WholeInv, LastOfRun
  <1>4. CASE WriterRun
    <2> DEFINE record == [file |-> swrap, id |-> Head(out).chunk,
                          block |-> Head(out).block, run |-> Head(out).run,
                          new |-> start_file \/ Head(out).chunk # ExpectedPacket]
    <2>1. Takes("s_run") /\ records' = Append(records, record) /\ record.file = swrap
      BY <1>4 DEF WriterRun
    <2> HIDE DEF record
    <2>2. /\ pc_writer = "loop" /\ out # <<>> /\ out[1].command = "s_run"
          /\ Len(out) \in Nat \ {0} /\ Len(out') = Len(out) - 1
          /\ \A i \in 1 .. Len(out') : out'[i] = out[i + 1]
      BY <1>1, <2>1
    <2>3. record.file = run
      BY <2>1, <2>2, DataOfRun
    <2>4. Streaming \/ Stopping
      BY <1>0, <2>2 DEF LineInv, AtRest, Starting
    <2>5. Framed' <=> Framed
      <3>1. CASE Len(out) = 1
        <4>1. ~Framed /\ out' = <<>>
          BY <1>0, <2>1, <2>2, <3>1 DEF Framed, Takes
        <4> QED BY <4>1 DEF Framed
      <3>2. CASE Len(out) # 1
        <4>1. /\ 1 \in 1 .. Len(out') /\ Len(out') \in 1 .. Len(out') /\ 1 + 1 = 2
              /\ Len(out') + 1 = Len(out) /\ 2 \in 1 .. Len(out)
              /\ (Len(out) = 2 \/ 2 \in 1 .. Len(out) - 1)
          BY <2>2, <3>2
        <4>2. out'[1] = out[2] /\ out'[Len(out')] = out[Len(out)] /\ out' # <<>>
          BY <2>2, <4>1
        <4>3. out[2].command # "s_start"
          BY <2>4, <4>1 DEF Streaming, Stopping, OfRun
        <4> QED BY <2>2, <4>2, <4>3 DEF Framed
      <3> QED BY <3>1, <3>2
    <2>6. OnTheWay' = OnTheWay - 1 /\ OnTheWay \in Int /\ Sent \in Int
      BY <1>0, <2>2, <2>5 DEF OnTheWay, Sent
    <2>7. ASSUME NEW n \in Int, LastOfRun(n) PROVE LastOfRun(n + 1)'
      <3>1. /\ Len(records') = Len(records) + 1 /\ records'[Len(records) + 1] = record
            /\ \A i \in 1 .. Len(records) : records'[i] = records[i]
        BY <1>0, <2>1
      <3>2. n + 1 \in 0 .. Len(records')
        BY <1>0, <2>7, <3>1 DEF LastOfRun
      <3>3. ASSUME NEW i \in 1 .. Len(records')
            PROVE  records'[i].file = run <=> i + (n + 1) > Len(records')
        <4>1. CASE i = Len(records) + 1
          BY <1>0, <2>3, <2>7, <3>1, <4>1 DEF LastOfRun
        <4>2. CASE i # Len(records) + 1
          <5>1. i \in 1 .. Len(records) /\ records'[i] = records[i]
            BY <1>0, <3>1, <4>2
          <5> QED BY <1>0, <2>7, <3>1, <5>1 DEF LastOfRun
        <4> QED BY <4>1, <4>2
      <3> QED BY <1>0, <3>2, <3>3 DEF LastOfRun
    <2>8. /\ Sent' - OnTheWay' = (Sent - OnTheWay) + 1
          /\ Sent - OnTheWay \in Int
      BY <1>b, <2>6
    <2> QED BY <1>0, <1>a, <1>b, <2>7, <2>8 DEF WholeInv
  <1>5. ~WriterRunThrows /\ ~WriterCanceled
    BY <1>0 DEF WriterRunThrows, WriterCanceled
  <1> QED BY <1>2, <1>3, <1>4, <1>5 DEF Writer

LEMMA WholeStep ==
    ASSUME OrderlyStart, Inv, RunInv, FreshInv, WholeInv, [Next]_vars PROVE WholeInv'
  <1> SUFFICES ASSUME ~canceled' PROVE WholeInv'
    BY DEF WholeInv
  <1>1. CASE RunControl /\ StartRun
    BY <1>1 DEF RunControl, StartRun, WholeInv, Begun
  <1>2. CASE RunControl /\ EndRun
    <2>1. /\ ~canceled /\ pc_control = "running" /\ swrap = run /\ instruction' = "pause"
          /\ UNCHANGED <<run, stop_requested, buffers_completed, pc_digitizer, out, records>>
      BY <1>2 DEF RunControl, EndRun, OrderlyStart, digitizer_vars, writer_vars
    <2>2. run > 0 /\ instruction # "resume"
      BY <2>1, WholeTypes DEF RunInv, ControlInv, Inv
    <2> QED BY <2>1, <2>2 DEF WholeInv, Begun, Sent, OnTheWay, Framed, LastOfRun
  <1>3. CASE \/ RunControl /\ (FinishFiles \/ FinishFilesFails \/ Cancel)
             \/ Board \/ UNCHANGED vars
    <2>1. /\ ~canceled
          /\ UNCHANGED <<run, stop_requested, buffers_completed, pc_digitizer, out, records,
                         instruction>>
      BY <1>3 DEF RunControl, FinishFiles, FinishFilesFails, Cancel, Board, vars,
         digitizer_vars, writer_vars, control_vars
    <2> QED BY <2>1 DEF WholeInv, Begun, Sent, OnTheWay, Framed, LastOfRun
  <1> QED BY <1>1, <1>2, <1>3, WholeDigitizer, WholeWriter DEF Next, RunControl


-----------------------------------------------------------------------------
(* The order of the blocks.                                                *)

\* What is filled or lost at the board, and what the digitizer takes, is behind
\* what has been sent.
LEMMA SourceOrder ==
    ASSUME Inv, OrderInv, Board \/ Digitizer
    PROVE  /\ \A b \in Nat : BeforeSource(b) => BeforeSource(b)'
           /\ (\A i \in 1 .. Len(full) : full[i].block < block
                   /\ \A j \in 1 .. i - 1 : full[j].block < full[i].block)'
           /\ (pc_digitizer = "push" =>
                   /\ this_buffer.block < block
                   /\ \A i \in 1 .. Len(full) : this_buffer.block < full[i].block)'
  <1>0. /\ block \in Nat /\ full \in Seq(Data) /\ Len(full) \in Nat
        /\ \A i \in 1 .. Len(full) : full[i].block \in Nat
    <2>1. block \in Nat /\ full \in Seq(Data) /\ Len(full) \in Nat
      BY DEF Inv, TypeOK, BoardTypeOK
    <2>2. \A i \in 1 .. Len(full) : full[i] \in Data
      BY <2>1
    <2> QED BY <2>1, <2>2 DEF Data
  <1>a. \A i \in 1 .. Len(full) :
            full[i].block < block /\ \A j \in 1 .. i - 1 : full[j].block < full[i].block
    BY DEF OrderInv
  <1>b. pc_digitizer = "push" =>
            /\ this_buffer.block < block
            /\ \A i \in 1 .. Len(full) : this_buffer.block < full[i].block
    BY DEF OrderInv
  <1>c. pc_digitizer = "push" => this_buffer.block \in Nat
    BY DEF Inv, TypeOK, DigitizerTypeOK, Data
  <1>1. CASE Board /\ FillBuffer
    <2> DEFINE filled == [buffer |-> Head(posted), block |-> block, run |-> run]
    <2>1. /\ full' = Append(full, filled) /\ filled.block = block /\ block' = block + 1
          /\ UNCHANGED <<pc_digitizer, this_buffer>>
      BY <1>1 DEF Board, FillBuffer, digitizer_vars
    <2> HIDE DEF filled
    <2>2. /\ Len(full') = Len(full) + 1 /\ full'[Len(full) + 1] = filled
          /\ \A i \in 1 .. Len(full) : full'[i] = full[i]
      BY <1>0, <2>1
    <2>3. ASSUME NEW i \in 1 .. Len(full')
          PROVE  \/ i = Len(full) + 1 /\ full'[i].block = block
                 \/ i \in 1 .. Len(full) /\ full'[i] = full[i]
      BY <1>0, <2>1, <2>2
    <2>4. ASSUME NEW i \in 1 .. Len(full')
          PROVE  full'[i].block < block' /\ \A j \in 1 .. i - 1 : full'[j].block < full'[i].block
      <3>1. CASE i = Len(full) + 1 /\ full'[i].block = block
        <4>1. \A j \in 1 .. i - 1 : j \in 1 .. Len(full)
          BY <1>0, <3>1
        <4> QED BY <1>0, <1>a, <2>1, <2>2, <3>1, <4>1
      <3>2. CASE i \in 1 .. Len(full) /\ full'[i] = full[i]
        <4>1. \A j \in 1 .. i - 1 : j \in 1 .. Len(full)
          BY <1>0, <3>2
        <4> QED BY <1>0, <1>a, <2>1, <2>2, <3>2, <4>1
      <3> QED BY <2>3, <3>1, <3>2
    <2>5. ASSUME NEW b \in Nat, BeforeSource(b) PROVE BeforeSource(b)'
      BY <1>0, <2>1, <2>3, <2>5 DEF BeforeSource
    <2>6. ASSUME pc_digitizer = "push", NEW i \in 1 .. Len(full')
          PROVE  this_buffer.block < block' /\ this_buffer.block < full'[i].block
      BY <1>0, <1>b, <1>c, <2>1, <2>3, <2>6
    <2>7. pc_digitizer = "push" => this_buffer.block < block'
      BY <1>0, <1>b, <1>c, <2>1
    <2> QED BY <2>1, <2>4, <2>5, <2>6, <2>7
  <1>2. CASE Board /\ Overflow
    <2>1. block' = block + 1 /\ UNCHANGED <<full, pc_digitizer, this_buffer>>
      BY <1>2 DEF Board, Overflow, digitizer_vars
    <2> QED BY <1>0, <1>a, <1>b, <1>c, <2>1 DEF BeforeSource
  <1>3. CASE Digitizer /\ WaitBuffer
    <2>1. /\ full # <<>> /\ this_buffer' = Head(full) /\ full' = Tail(full)
          /\ pc_digitizer' = "push" /\ UNCHANGED block
      BY <1>3 DEF WaitBuffer, DigitizerGoes
    <2>2. /\ 1 \in 1 .. Len(full) /\ this_buffer' = full[1] /\ Len(full') = Len(full) - 1
          /\ \A i \in 1 .. Len(full') : full'[i] = full[i + 1]
      BY <1>0, <2>1
    <2>3. \A i \in 1 .. Len(full') : i + 1 \in 1 .. Len(full) /\ 1 \in 1 .. (i + 1) - 1
      BY <1>0, <2>2
    <2>4. ASSUME NEW i \in 1 .. Len(full'), NEW j \in 1 .. i - 1
          PROVE  full'[j].block < full'[i].block
      <3>1. j \in 1 .. Len(full') /\ j + 1 \in 1 .. (i + 1) - 1
        BY <1>0, <2>2
      <3> QED BY <1>a, <2>2, <2>3, <3>1
    <2>5. \A b \in Nat : BeforeSource(b) => BeforeSource(b)'
      BY <2>1, <2>2, <2>3 DEF BeforeSource
    <2> QED BY <1>a, <2>1, <2>2, <2>3, <2>4, <2>5
  <1>4. CASE Digitizer /\ (Resume \/ Pause \/ StopRun \/ Restart \/ ClearAbort)
    <2>1. full' = <<>> /\ UNCHANGED block /\ pc_digitizer' # "push"
      BY <1>4 DEF Resume, Pause, StopRun, Restart, ClearAbort, Commence, AbortAsyncRead,
         DigitizerGoes
    <2>2. Len(full') = 0
      BY <2>1
    <2> QED BY <2>1, <2>2 DEF BeforeSource
  <1>5. CASE Digitizer /\ (\/ Configure \/ ConfigureThrows \/ AllocateBuffer \/ AllocateThrows
                           \/ Initialized \/ LeaveLoop \/ TakeInstruction \/ NoInstruction
                           \/ ResumeThrows \/ PauseThrows \/ PushFails \/ SkipRead \/ StopRunThrows \/ CallThrows
                           \/ PushData \/ PostBuffer \/ CollectBuffer \/ FreeBuffers
                           \/ ClearThrows)
    <2>1. UNCHANGED <<full, block>> /\ pc_digitizer' # "push"
      <3>1. CASE \/ Configure \/ ConfigureThrows \/ AllocateBuffer \/ AllocateThrows
                 \/ Initialized \/ LeaveLoop \/ TakeInstruction \/ NoInstruction
                 \/ ResumeThrows \/ PauseThrows
        BY <3>1 DEF Configure, ConfigureThrows, AllocateBuffer, AllocateThrows,
           Initialized, LeaveLoop, TakeInstruction, NoInstruction, ResumeThrows,
           PauseThrows, DigitizerGoes, board_vars
      <3>2. CASE \/ PushFails \/ SkipRead \/ StopRunThrows \/ CallThrows \/ PushData \/ PostBuffer
                 \/ CollectBuffer \/ FreeBuffers \/ ClearThrows
        BY <3>2 DEF PushFails, SkipRead, StopRunThrows, CallThrows, PushData, PostBuffer, CollectBuffer,
           FreeBuffers, ClearThrows, DigitizerGoes, board_vars
      <3> QED BY <1>5, <3>1, <3>2
    <2> QED BY <1>a, <2>1 DEF BeforeSource
  <1> QED BY <1>1, <1>2, <1>3, <1>4, <1>5 DEF Board, Digitizer

\* Blocks are sent in the order they are taken from the board.
LEMMA OrderSent ==
    ASSUME Inv, OrderInv, Board \/ Digitizer PROVE OrderInv'
  <1>0. /\ UNCHANGED records /\ out \in Seq(Slot) /\ Len(out) \in Nat
        /\ \A i \in 1 .. Len(out) : out[i].command = "s_run" => out[i].block \in Nat
        /\ records # <<>> => records[Len(records)].block \in Nat
    <2>1. UNCHANGED records
      BY DEF Board, Digitizer, writer_vars
    <2>2. /\ out \in Seq(Slot) /\ Len(out) \in Nat
          /\ \A i \in 1 .. Len(out) : out[i].command = "s_run" => out[i].block \in Nat
          /\ records \in Seq(Record) /\ Len(records) \in Nat
          /\ \A i \in 1 .. Len(records) : records[i].block \in Nat
      BY DataTypes DEF Inv
    <2>3. records # <<>> => Len(records) \in 1 .. Len(records)
      BY <2>2
    <2> QED BY <2>1, <2>2, <2>3
  <1>1. ASSUME NEW i \in 1 .. Len(out), out[i].command = "s_run"
        PROVE  /\ BeforeSource(out[i].block)
               /\ \A j \in 1 .. i - 1 : out[j].command = "s_run" => out[j].block < out[i].block
               /\ records # <<>> => records[Len(records)].block < out[i].block
    BY <1>1 DEF OrderInv
  <1>2. records # <<>> => BeforeSource(records[Len(records)].block)
    BY DEF OrderInv
  <1>3. \A i \in 2 .. Len(records) : records[i - 1].block < records[i].block
    BY DEF OrderInv
  <1>4. CASE Digitizer /\ PushData
    <2> DEFINE slot == [command |-> "s_run", chunk |-> chunk_counter,
                        block |-> this_buffer.block, run |-> this_buffer.run]
    <2>1. /\ PushOut(slot) /\ slot.command = "s_run" /\ slot.block = this_buffer.block
          /\ pc_digitizer = "push" /\ pc_digitizer' = "return"
          /\ UNCHANGED <<full, block, this_buffer>>
      BY <1>4 DEF PushData, DigitizerGoes, board_vars, Untouched
    <2> HIDE DEF slot
    <2>2. /\ Len(out') = Len(out) + 1 /\ out'[Len(out) + 1] = slot
          /\ \A i \in 1 .. Len(out) : out'[i] = out[i]
      BY <1>0, <2>1, PushedOut
    <2>3. \A b \in Nat : BeforeSource(b) => BeforeSource(b)' /\ b < this_buffer.block
      BY <2>1 DEF BeforeSource
    <2>4. BeforeSource(this_buffer.block)'
      BY <2>1 DEF OrderInv, BeforeSource
    <2>5. ASSUME NEW i \in 1 .. Len(out'), out'[i].command = "s_run"
          PROVE  /\ BeforeSource(out[i].block)'
                 /\ \A j \in 1 .. i - 1 :
                        out'[j].command = "s_run" => out'[j].block < out'[i].block
                 /\ records # <<>> => records[Len(records)].block < out'[i].block
      <3>1. CASE i = Len(out) + 1
        <4>1. out'[i].block = this_buffer.block
          BY <2>1, <2>2, <3>1
        <4>2. \A j \in 1 .. i - 1 : j \in 1 .. Len(out) /\ out'[j] = out[j]
          BY <1>0, <2>2, <3>1
        <4>3. BeforeSource(out[i].block)'
          BY <2>1, <2>4, <4>1 DEF BeforeSource
        <4> QED BY <1>0, <1>1, <1>2, <2>3, <4>1, <4>2, <4>3
      <3>2. CASE i # Len(out) + 1
        <4>1. i \in 1 .. Len(out) /\ out'[i] = out[i]
          BY <1>0, <2>2, <3>2
        <4>2. \A j \in 1 .. i - 1 : j \in 1 .. Len(out) /\ out'[j] = out[j]
          BY <1>0, <2>2, <4>1
        <4>3. out[i].block \in Nat /\ BeforeSource(out[i].block)
          BY <1>0, <1>1, <2>5, <4>1
        <4>4. BeforeSource(out[i].block)'
          BY <2>3, <4>1, <4>3 DEF BeforeSource
        <4> QED BY <1>1, <2>5, <4>1, <4>2, <4>4
      <3> QED BY <3>1, <3>2
    <2>6. records # <<>> => BeforeSource(records[Len(records)].block)'
      BY <1>0, <1>2, <2>3 DEF BeforeSource
    <2> QED BY <1>0, <1>3, <2>5, <2>6, SourceOrder DEF OrderInv
  <1>5. CASE ~(Digitizer /\ PushData)
    <2>1. ASSUME NEW i \in 1 .. Len(out'), out'[i].command = "s_run"
          PROVE  i \in 1 .. Len(out) /\ \A j \in 1 .. i : out'[j] = out[j]
      <3>1. CASE Digitizer /\ (Resume \/ ResumeThrows \/ Pause \/ PauseThrows)
        <4>1. PICK command \in {"s_start", "s_stop"} : PushOut([command |-> command])
          BY <3>1 DEF Resume, ResumeThrows, Pause, PauseThrows
        <4>2. /\ Len(out') = Len(out) + 1 /\ out'[Len(out')].command = command
              /\ \A k \in 1 .. Len(out) : out'[k] = out[k]
          BY <1>0, <4>1, PushedOut
        <4>3. i # Len(out')
          BY <2>1, <4>2
        <4> QED BY <1>0, <4>2, <4>3
      <3>2. CASE ~(Digitizer /\ (Resume \/ ResumeThrows \/ Pause \/ PauseThrows))
        <4>1. UNCHANGED out
          <5>1. CASE Board
            BY <5>1 DEF Board
          <5>2. CASE Digitizer /\ (\/ Configure \/ ConfigureThrows \/ AllocateBuffer
                    \/ AllocateThrows \/ Initialized \/ LeaveLoop \/ TakeInstruction
                    \/ NoInstruction \/ PushFails \/ SkipRead \/ StopRun)
            BY <5>2 DEF Configure, ConfigureThrows, AllocateBuffer, AllocateThrows,
               Initialized, LeaveLoop, TakeInstruction, NoInstruction, PushFails,
               SkipRead, StopRun
          <5>3. CASE Digitizer /\ (\/ WaitBuffer \/ StopRunThrows \/ CallThrows \/ PostBuffer \/ CollectBuffer
                    \/ Restart \/ ClearAbort \/ FreeBuffers \/ ClearThrows)
            BY <5>3 DEF WaitBuffer, StopRunThrows, CallThrows, PostBuffer, CollectBuffer, Restart,
               ClearAbort, FreeBuffers, ClearThrows
          <5> QED BY <1>5, <3>2, <5>1, <5>2, <5>3 DEF Digitizer
        <4> QED BY <4>1
      <3> QED BY <3>1, <3>2
    <2>2. \A b \in Nat : BeforeSource(b) => BeforeSource(b)'
      BY SourceOrder
    <2>3. ASSUME NEW i \in 1 .. Len(out'), out'[i].command = "s_run"
          PROVE  /\ BeforeSource(out[i].block)'
                 /\ \A j \in 1 .. i - 1 :
                        out'[j].command = "s_run" => out'[j].block < out'[i].block
                 /\ records # <<>> => records[Len(records)].block < out'[i].block
      <3>1. i \in 1 .. Len(out) /\ out'[i] = out[i] /\ \A j \in 1 .. i - 1 : out'[j] = out[j]
        BY <2>1, <2>3
      <3>2. out[i].block \in Nat /\ BeforeSource(out[i].block)
        BY <1>0, <1>1, <2>3, <3>1
      <3>3. BeforeSource(out[i].block)'
        BY <2>2, <3>1, <3>2 DEF BeforeSource
      <3> QED BY <1>1, <2>3, <3>1, <3>3
    <2>4. records # <<>> => BeforeSource(records[Len(records)].block)'
      BY <1>0, <1>2, <2>2 DEF BeforeSource
    <2> QED BY <1>0, <1>3, <2>3, <2>4, SourceOrder DEF OrderInv
  <1> QED BY <1>4, <1>5

\* They are recorded in the order they are sent.
LEMMA OrderWritten ==
    ASSUME Inv, OrderInv, Writer /\ WriterRun PROVE OrderInv'
  <1> DEFINE record == [file |-> swrap, id |-> Head(out).chunk,
                        block |-> Head(out).block, run |-> Head(out).run,
                        new |-> start_file \/ Head(out).chunk # ExpectedPacket]
  <1>1. /\ Takes("s_run") /\ records' = Append(records, record)
        /\ record.block = Head(out).block
        /\ UNCHANGED <<full, block, this_buffer, pc_digitizer>>
    BY DEF Writer, WriterRun, board_vars, digitizer_vars
  <1> HIDE DEF record
  <1>2. /\ out \in Seq(Slot) /\ Len(out) \in Nat
        /\ records \in Seq(Record) /\ Len(records) \in Nat
    BY DataTypes DEF Inv
  <1>3. /\ out # <<>> /\ out[1].command = "s_run" /\ Head(out) = out[1]
        /\ Len(out') = Len(out) - 1
        /\ \A i \in 1 .. Len(out') : out'[i] = out[i + 1]
    BY <1>1, <1>2, TakenOut
  <1>4. /\ Len(records') = Len(records) + 1 /\ records' # <<>>
        /\ records'[Len(records) + 1].block = out[1].block
        /\ \A i \in 1 .. Len(records) : records'[i] = records[i]
    BY <1>1, <1>2, <1>3
  <1>5. /\ 1 \in 1 .. Len(out) /\ BeforeSource(out[1].block)
        /\ records # <<>> => records[Len(records)].block < out[1].block
    BY <1>2, <1>3 DEF OrderInv
  <1>6. BeforeSource(records[Len(records)].block)'
    BY <1>1, <1>4, <1>5 DEF BeforeSource
  <1>7. ASSUME NEW i \in 1 .. Len(out'), out'[i].command = "s_run"
        PROVE  /\ BeforeSource(out[i].block)'
               /\ \A j \in 1 .. i - 1 :
                      out'[j].command = "s_run" => out'[j].block < out'[i].block
               /\ records'[Len(records')].block < out'[i].block
    <2>1. i + 1 \in 1 .. Len(out) /\ out'[i] = out[i + 1] /\ 1 \in 1 .. (i + 1) - 1
      BY <1>2, <1>3
    <2>2. /\ BeforeSource(out[i + 1].block)
          /\ \A j \in 1 .. (i + 1) - 1 :
                 out[j].command = "s_run" => out[j].block < out[i + 1].block
      BY <1>7, <2>1 DEF OrderInv
    <2>3. \A j \in 1 .. i - 1 : j + 1 \in 1 .. (i + 1) - 1 /\ out'[j] = out[j + 1]
      BY <1>2, <1>3
    <2>4. BeforeSource(out[i].block)'
      BY <1>1, <2>1, <2>2 DEF BeforeSource
    <2> QED BY <1>3, <1>4, <2>1, <2>2, <2>3, <2>4
  <1>8. ASSUME NEW i \in 2 .. Len(records') PROVE records'[i - 1].block < records'[i].block
    <2>1. CASE i = Len(records) + 1
      <3>1. Len(records) \in 1 .. Len(records) /\ i - 1 = Len(records) /\ records # <<>>
        BY <1>2, <2>1
      <3> QED BY <1>4, <1>5, <2>1, <3>1
    <2>2. CASE i # Len(records) + 1
      <3>1. i \in 2 .. Len(records) /\ i \in 1 .. Len(records) /\ i - 1 \in 1 .. Len(records)
        BY <1>2, <1>4, <2>2
      <3> QED BY <1>4, <3>1 DEF OrderInv
    <2> QED BY <2>1, <2>2
  <1> QED BY <1>1, <1>6, <1>7, <1>8 DEF OrderInv

LEMMA OrderStep == ASSUME Inv, OrderInv, [Next]_vars PROVE OrderInv'
  <1>1. CASE Writer /\ ~WriterRun
    <2>1. UNCHANGED <<full, block, this_buffer, pc_digitizer, records>>
      BY <1>1 DEF Writer, WriterStart, WriterRunThrows, WriterStop, WriterCanceled,
         board_vars, digitizer_vars
    <2>2. out \in Seq(Slot) /\ Len(out) \in Nat
      BY DataTypes DEF Inv
    <2>3. \/ UNCHANGED out
          \/ /\ Len(out') = Len(out) - 1
             /\ \A i \in 1 .. Len(out') : out'[i] = out[i + 1]
      <3>1. CASE WriterCanceled
        BY <3>1 DEF WriterCanceled
      <3>2. CASE ~WriterCanceled
        <4>1. PICK command \in {"s_start", "s_run", "s_stop"} : Takes(command)
          BY <1>1, <3>2 DEF Writer, WriterStart, WriterRunThrows, WriterStop
        <4> QED BY <2>2, <4>1, TakenOut
      <3> QED BY <3>1, <3>2
    <2>4. CASE UNCHANGED out
      BY <2>1, <2>4 DEF OrderInv, BeforeSource
    <2>5. CASE /\ Len(out') = Len(out) - 1
               /\ \A i \in 1 .. Len(out') : out'[i] = out[i + 1]
      <3>1. ASSUME NEW i \in 1 .. Len(out'), out'[i].command = "s_run"
            PROVE  /\ BeforeSource(out[i].block)'
                   /\ \A j \in 1 .. i - 1 :
                          out'[j].command = "s_run" => out'[j].block < out'[i].block
                   /\ records # <<>> => records[Len(records)].block < out'[i].block
        <4>1. i + 1 \in 1 .. Len(out) /\ out'[i] = out[i + 1]
          BY <2>2, <2>5
        <4>2. /\ BeforeSource(out[i + 1].block)
              /\ \A j \in 1 .. (i + 1) - 1 :
                     out[j].command = "s_run" => out[j].block < out[i + 1].block
              /\ records # <<>> => records[Len(records)].block < out[i + 1].block
          BY <3>1, <4>1 DEF OrderInv
        <4>3. \A j \in 1 .. i - 1 : j + 1 \in 1 .. (i + 1) - 1 /\ out'[j] = out[j + 1]
          BY <2>2, <2>5
        <4>4. BeforeSource(out[i].block)'
          BY <2>1, <4>1, <4>2 DEF BeforeSource
        <4> QED BY <4>1, <4>2, <4>3, <4>4
      <3> QED BY <2>1, <3>1 DEF OrderInv, BeforeSource
    <2> QED BY <2>3, <2>4, <2>5
  <1>2. CASE RunControl \/ UNCHANGED vars
    <2>1. UNCHANGED <<full, block, this_buffer, pc_digitizer, records, out>>
      BY <1>2 DEF RunControl, vars, board_vars, digitizer_vars, writer_vars
    <2> QED BY <2>1 DEF OrderInv, BeforeSource
  <1> QED BY <1>1, <1>2, OrderSent, OrderWritten DEF Next

-----------------------------------------------------------------------------
(* The theorems.                                                           *)

\* If a run is ended only when the writer has its stream, data only reach a
\* writer whose stream is in the file of their own run, whatever overruns,
\* failures and cancellations come between (the s_start and s_stop that
\* ATS9462_digitizer.cc sends around the data of a run).
THEOREM DataInRunsFile == OrderlyStart => (Spec => []DataInOwnFile)
  <1> SUFFICES ASSUME OrderlyStart PROVE Spec => []DataInOwnFile
    OBVIOUS
  <1>1. Init => Inv /\ RunInv
    BY InvInit, RunInvInit
  <1>2. Inv /\ RunInv /\ [Next]_vars => (Inv /\ RunInv)'
    BY InvStep, RunInvStep
  <1>3. Inv /\ RunInv => DataInOwnFile
    <2> SUFFICES ASSUME Inv, RunInv, pc_writer = "loop", out # <<>>,
                        Head(out).command = "s_run"
                 PROVE  swrap = Head(out).run
      BY DEF DataInOwnFile
    <2>1. Head(out) = out[1]
      BY DEF Inv, TypeOK, WriterTypeOK
    <2> QED BY <2>1, DataOfRun
  <1> QED BY <1>1, <1>2, <1>3, PTL DEF Spec

\* A run that is ended when the writer has its stream is whole: whatever the
\* board loses and whenever the run is ended, every buffer completed gets from
\* the digitizer through the stream into the run's file, once and in order, and
\* when the digitizer has ended the run these are all the buffers asked for.
THEOREM RunsAreWhole == OrderlyStart => (Spec => []RunIsWhole)
  <1> SUFFICES ASSUME OrderlyStart PROVE Spec => []RunIsWhole
    OBVIOUS
  <1> DEFINE I == Inv /\ RunInv /\ FreshInv /\ WholeInv /\ OrderInv
  <1>1. Init => I
    <2>1. Init => WholeInv
      BY DEF Init, WholeInv, Begun
    <2>2. Init => OrderInv /\ FreshInv
      BY DEF Init, OrderInv, BeforeSource, FreshInv
    <2> QED BY <2>1, <2>2, InvInit, RunInvInit
  <1>2. I /\ [Next]_vars => I'
    BY InvStep, RunInvStep, FreshStep, WholeStep, OrderStep
  <1>3. I => RunIsWhole
    <2> SUFFICES ASSUME I, pc_control = "idle", run > 0, ~canceled
                 PROVE  /\ buffers_completed <= Len(records)
                        /\ \A i \in 1 .. Len(records) :
                               records[i].file = run <=> i + buffers_completed > Len(records)
                        /\ \A i \in 2 .. Len(records) :
                               records[i - 1].block < records[i].block
                        /\ stop_requested => buffers_completed = BuffersPerRun
      BY DEF RunIsWhole
    <2>1. /\ paused /\ swrap = 0 /\ pc_writer = "loop" /\ Begun /\ run \in Nat
          /\ buffers_completed \in Nat
      BY WholeTypes DEF RunInv, ControlInv, EndsInv, Begun, Inv
    <2>2. out = <<>> /\ pc_digitizer # "return"
      BY <2>1 DEF RunInv, LineInv, AtRest, Starting, Streaming, Stopping, Inv, HeldInv
    <2>3. Sent - OnTheWay = buffers_completed
      BY <2>1, <2>2 DEF Sent, OnTheWay, Framed
    <2>4. LastOfRun(buffers_completed) /\ (stop_requested => buffers_completed = BuffersPerRun)
      BY <2>1, <2>3 DEF WholeInv
    <2> QED BY <2>4, WholeTypes DEF LastOfRun, OrderInv, Inv
  <1> QED BY <1>1, <1>2, <1>3, PTL DEF Spec

\* The records of all runs are in the order their blocks were digitized.
RecordsAscend == \A i \in 2 .. Len(records) : records[i - 1].block < records[i].block

\* No buffer is recorded twice and none after a later one: over overruns and
\* restarts of the board, buffers posted again and runs that follow, however
\* late the writer starts and whatever fails.
THEOREM RecordsInOrder == Spec => []RecordsAscend
  <1>1. Init => Inv /\ OrderInv
    BY InvInit DEF Init, OrderInv, BeforeSource
  <1>2. Inv /\ OrderInv /\ [Next]_vars => (Inv /\ OrderInv)'
    BY InvStep, OrderStep
  <1>3. OrderInv => RecordsAscend
    BY DEF OrderInv, RecordsAscend
  <1> QED BY <1>1, <1>2, <1>3, PTL DEF Spec

\* If moreover the chunk counter has room for a run, a record begins a new
\* acquisition exactly where samples are lost before it: the numbers that
\* ATS9462_digitizer.cc gives and ats_streaming_writer.cc compares tell every
\* gap, and tell none that is not there.
THEOREM AcquisitionsMarkedRight ==
    OrderlyStart /\ CounterSuffices => (Spec => []AcquisitionsMarked)
  <1> SUFFICES ASSUME OrderlyStart, CounterSuffices
               PROVE  Spec => []AcquisitionsMarked
    OBVIOUS
  <1>1. Init => Inv /\ RunInv /\ MarkInv
    BY InvInit, RunInvInit, MarkInvInit
  <1>2. Inv /\ RunInv /\ MarkInv /\ [Next]_vars => (Inv /\ RunInv /\ MarkInv)'
    BY InvStep, RunInvStep, MarkInvStep
  <1>3. MarkInv => AcquisitionsMarked
    BY DEF MarkInv
  <1> QED BY <1>1, <1>2, <1>3, PTL DEF Spec

\* If the chunk counter has room for a run, no gap ever goes unmarked, however
\* late the writer starts and whichever file its data come to: also where a
\* pause overtakes the resume or a file is finished before its s_start arrives.
THEOREM GapsAlwaysMarked == CounterSuffices => (Spec => []GapsMarked)
  <1> SUFFICES ASSUME CounterSuffices PROVE Spec => []GapsMarked
    OBVIOUS
  <1> DEFINE I == Inv /\ CountInv /\ FilledInv /\ SequenceInv /\ GapsMarked
  <1>1. Init => I
    <2>1. Init => GapsMarked
      BY DEF Init, GapsMarked
    <2> QED BY <2>1, InvInit, MarkInvInit DEF MarkInv
  <1>2. I /\ [Next]_vars => I'
    BY InvStep, CountStep, FilledStep, SequenceStep, GapsStep
  <1>3. I => GapsMarked
    OBVIOUS
  <1> QED BY <1>1, <1>2, <1>3, PTL DEF Spec

\* Data never reach the writer without a stream, however late it starts and
\* whatever the digitizer is told: between an s_stop and the data behind it
\* there is always an s_start.
THEOREM StreamBeforeData == Spec => []DataHaveStream
  <1>1. Init => Inv /\ SessionInv
    <2>1. Init => SessionInv
      BY DEF Init, SessionInv
    <2> QED BY <2>1, InvInit
  <1>2. Inv /\ SessionInv /\ [Next]_vars => (Inv /\ SessionInv)'
    BY InvStep, SessionStep
  <1>3. Inv /\ SessionInv => DataHaveStream
    <2>1. Inv => out \in Seq(Slot)
      BY DEF Inv, TypeOK, WriterTypeOK
    <2> QED BY <2>1 DEF SessionInv, DataHaveStream
  <1> QED BY <1>1, <1>2, <1>3, PTL DEF Spec

=============================================================================
