-------------------------- MODULE SpectrumPathProofs --------------------------
(***************************************************************************)
(* Theorems about SpectrumPath, for any number of files, writers,          *)
(* requests, runs, slots and chunks, whenever clients send their requests. *)
(*                                                                         *)
(* First the files around the runs: SpectrumPath implements RunFiles.      *)
(*                                                                         *)
(* Then the data: the spectra tile what was sent, they come to the end of  *)
(* a run, and the writers have an open file when data come.  The slots     *)
(* between the digitizer and one of the nodes at the end are taken as one  *)
(* line, what is behind that node.  It ends with the slot the digitizer    *)
(* would send next.  frequency_transform changes nothing of it, the        *)
(* digitizer appends to it, and the node takes its first slot.             *)
(*                                                                         *)
(* Last the settings of the requests, in the files and in the broadcasts.  *)
(***************************************************************************)
EXTENDS SpectrumPath, SequenceTheorems, TLAPS

USE PathAssumption

-----------------------------------------------------------------------------
(* The files around the runs.                                              *)

USE ControlAssumption

\* Before a run has its files.
Without == {"inactive", "idle", "launched"}

\* The files of a run: one pointer for each.
HasFiles == mw_ptrs # <<>> /\ mw_ptrs = [f \in Files |-> mw_ptrs[f]]

\* A stream is always of the current run, and its file is open.
FilesInv ==
    /\ run \in Nat
    /\ pc_run \notin {"inactive", "idle"} => run > 0
    /\ finishing \in Files
    /\ pc_run \in Without => mw_ptrs = <<>> /\ streaming = {}
    /\ pc_run \notin Without => HasFiles
    /\ pc_run = "finishing" =>
           \A f \in Files : f < finishing => mw_ptrs[f] = NoFile
    /\ \A a \in streaming :
           \E w \in Writers : a = <<w, run>> /\ FileNum[w] \in OpenFiles

\* What the files depend on.
files_vars == <<run, pc_run, finishing, mw_ptrs, streaming>>

-----------------------------------------------------------------------------
LEMMA FilesInit == Init => FilesInv
  <1>1. 0 \in Files
    BY DEF Files
  <1> QED BY <1>1 DEF Init, ControlInit, FilesInv, Without

\* A sequence of pointers for the files is not the empty one.
LEMMA SomeFiles ==
    ASSUME NEW p, p = [f \in Files |-> p[f]] PROVE p # <<>>
  <1>1. 0 \in Files
    BY DEF Files
  <1>2. DOMAIN p = Files
    OBVIOUS
  <1>3. DOMAIN <<>> = {}
    OBVIOUS
  <1> QED BY <1>1, <1>2, <1>3

LEMMA OpenFilesSubset == OpenFiles \in SUBSET Files
  BY DEF OpenFiles

\* The steps that touch no file.
LEMMA OtherSteps ==
    ASSUME [Next]_vars
    PROVE  \/ UNCHANGED files_vars
           \/ Activate \/ StartRun \/ Run
           \/ \E w \in Writers : WriterStart(w) \/ WriterStop(w) \/ WriterExit(w)
  <1> USE DEF files_vars
  <1>1. CASE Registration
    <2>1. CASE \E w \in Writers : RegisterWriter(w) \/ UnregisterWriter(w)
      BY <2>1 DEF RegisterWriter, UnregisterWriter, house_vars
    <2> QED BY <1>1, <2>1 DEF Registration
  <1>2. CASE Client
    <2>1. CASE NewRequest \/ ApplySetting \/ SettingThrows \/ StartRunThrows
      BY <2>1 DEF NewRequest, ApplySetting, SettingThrows, StartRunThrows,
         DropRequest, Requesting, house_vars
    <2> QED BY <1>2, <2>1 DEF Client, Request
  <1>3. CASE RunControl
    BY <1>3 DEF RunControl
  <1>4. CASE Source \/ Fft \/ Averager \/ Relay
    <2>1. UNCHANGED control_vars
      BY <1>4 DEF Source, Fft, FftPass, FftExit, FftUnchanged, Averager,
         AvgStart, AvgRun, AvgStop, AvgStopped, AvgExit, AvgUnchanged, Relay
    <2> QED BY <2>1 DEF control_vars, house_vars
  <1>5. ASSUME NEW w \in Writers, WriterRun(w) PROVE UNCHANGED files_vars
    BY <1>5 DEF WriterRun, WriterUnchanged, house_vars
  <1>6. CASE UNCHANGED vars
    BY <1>6 DEF vars, control_vars, house_vars
  <1> QED BY <1>1, <1>2, <1>3, <1>4, <1>5, <1>6 DEF Next, Writer

-----------------------------------------------------------------------------
(* Each step, with what it is for RunFiles.                                *)

FilesStep == FilesInv' /\ [Promise!Next]_(Promise!vars)

LEMMA UnchangedStep == FilesInv /\ UNCHANGED files_vars => FilesStep
  BY DEF FilesInv, FilesStep, files_vars, HasFiles, OpenFiles, Promise!vars

LEMMA StartRunStep == FilesInv /\ (Activate \/ StartRun) => FilesStep
  <1> SUFFICES ASSUME FilesInv, Activate \/ StartRun PROVE FilesStep
    OBVIOUS
  <1>1. UNCHANGED <<mw_ptrs, streaming, finishing>>
        /\ mw_ptrs = <<>> /\ streaming = {}
    BY DEF FilesInv, Without, Activate, StartRun, Requesting, house_vars
  <1>2. OpenFiles = {} /\ OpenFiles' = {}
    BY <1>1 DEF OpenFiles
  <1>3. CASE Activate
    BY <1>1, <1>2, <1>3 DEF Activate, FilesInv, FilesStep, Without, Promise!vars
  <1>4. CASE StartRun
    <2>1. pc_run' = "launched" /\ run' = run + 1
      BY <1>4 DEF StartRun
    <2>2. Promise!NextRun
      BY <1>1, <1>2, <2>1 DEF Promise!NextRun
    <2> QED BY <1>1, <2>1, <2>2 DEF FilesInv, FilesStep, Without, Promise!Next
  <1> QED BY <1>3, <1>4

LEMMA StartFilesStep == FilesInv /\ (StartFiles \/ StartFilesFails) => FilesStep
  <1> SUFFICES ASSUME FilesInv, StartFiles \/ StartFilesFails PROVE FilesStep
    OBVIOUS
  <1>1. /\ pc_run = "launched" /\ pc_run' = "running"
        /\ UNCHANGED <<run, streaming, finishing>>
        /\ mw_ptrs = <<>> /\ streaming = {} /\ run > 0
    BY DEF FilesInv, Without, StartFiles, StartFilesFails, Running
  <1>2. mw_ptrs' = [f \in Files |-> mw_ptrs'[f]]
    BY DEF StartFiles, StartFilesFails
  <1>3. HasFiles'
    BY <1>2, SomeFiles DEF HasFiles
  <1>4. OpenFiles = {} /\ OpenFiles' \in SUBSET Files
    BY <1>1 DEF OpenFiles
  <1>5. Promise!OpenFiles
    BY <1>1, <1>4 DEF Promise!OpenFiles
  <1> QED BY <1>1, <1>3, <1>5 DEF FilesInv, FilesStep, Without, Promise!Next

LEMMA StayStep ==
    FilesInv /\ (BeginFinishing \/ CancelAll \/ FinishFileThrows \/ FinishNull)
        => FilesStep
  <1> SUFFICES ASSUME FilesInv,
                      BeginFinishing \/ CancelAll \/ FinishFileThrows \/ FinishNull
               PROVE  FilesStep
    OBVIOUS
  <1>1. /\ pc_run \in {"running", "finishing"}
        /\ pc_run' \in {"finishing", "error", "crashed"}
        /\ UNCHANGED <<run, streaming, mw_ptrs>>
        /\ \/ finishing' = 0
           \/ pc_run = "finishing" /\ UNCHANGED finishing
    BY DEF BeginFinishing, CancelAll, FinishFileThrows, FinishNull, Running, house_vars
  <1>2. 0 \in Files /\ \A f \in Files : ~(f < 0)
    BY DEF Files
  <1>3. UNCHANGED OpenFiles
    BY <1>1 DEF OpenFiles
  <1> QED BY <1>1, <1>2, <1>3 DEF FilesInv, FilesStep, Without, HasFiles, Promise!vars

\* Nobody has a stream in the file that is finished, and it is the last one
\* open when the pointers are cleared.
LEMMA FinishFileStep == FilesInv /\ FinishFile => FilesStep
  <1> SUFFICES ASSUME FilesInv, FinishFile PROVE FilesStep
    OBVIOUS
  <1>1. /\ pc_run = "finishing" /\ mw_ptrs[finishing] # NoFile /\ StillWriting = {}
        /\ UNCHANGED <<run, streaming>>
        /\ finishing \in Files /\ HasFiles
    BY DEF FinishFile, Running, FilesInv, Without
  <1>2. \A f \in Files : f < finishing => mw_ptrs[f] = NoFile
    BY <1>1 DEF FilesInv
  <1>3. OpenFiles = {f \in Files : mw_ptrs[f] # NoFile}
    BY <1>1 DEF OpenFiles, HasFiles
  <1>4. \A a \in streaming : FileNum[a[1]] # finishing /\ FileNum[a[1]] \in OpenFiles
                             /\ a[1] \in Writers /\ a = <<a[1], run>>
    BY <1>1 DEF FilesInv, StillWriting
  <1>5. Promise!Users(finishing) = {}
    BY <1>4 DEF Promise!Users
  <1>6. OpenFiles' = OpenFiles \ {finishing}
    <2>1. CASE finishing = NFiles - 1
      <3>1. OpenFiles' = {}
        BY <2>1 DEF FinishFile, OpenFiles
      <3>2. \A f \in Files : f # finishing => f < finishing
        BY <2>1 DEF Files
      <3> QED BY <1>2, <1>3, <3>1, <3>2
    <2>2. CASE finishing # NFiles - 1
      <3>1. mw_ptrs' = [mw_ptrs EXCEPT ![finishing] = NoFile]
        BY <2>2 DEF FinishFile
      <3>2. mw_ptrs' = [f \in Files |-> IF f = finishing THEN NoFile ELSE mw_ptrs[f]]
        BY <1>1, <3>1 DEF HasFiles
      <3>3. mw_ptrs' # <<>>
        BY <3>2, SomeFiles
      <3> QED BY <1>3, <3>2, <3>3 DEF OpenFiles
    <2> QED BY <2>1, <2>2
  <1>7. Promise!Close(finishing)
    BY <1>1, <1>3, <1>5, <1>6 DEF Promise!Close
  <1>8. FilesInv'
    <2>1. \A a \in streaming' :
              \E w \in Writers : a = <<w, run'>> /\ FileNum[w] \in OpenFiles'
      BY <1>1, <1>4, <1>6
    <2>2. CASE finishing = NFiles - 1
      <3>1. mw_ptrs' = <<>> /\ pc_run' = "idle" /\ UNCHANGED finishing
        BY <2>2 DEF FinishFile
      <3>2. OpenFiles' = {}
        BY <3>1 DEF OpenFiles
      <3>3. streaming' = {}
        BY <2>1, <3>2
      <3> QED BY <1>1, <2>1, <3>1, <3>3 DEF FilesInv, Without
    <2>3. CASE finishing # NFiles - 1
      <3>1. /\ mw_ptrs' = [mw_ptrs EXCEPT ![finishing] = NoFile]
            /\ finishing' = finishing + 1 /\ UNCHANGED pc_run
        BY <2>3 DEF FinishFile
      <3>2. mw_ptrs' = [f \in Files |-> IF f = finishing THEN NoFile ELSE mw_ptrs[f]]
        BY <1>1, <3>1 DEF HasFiles
      <3>3. HasFiles'
        BY <3>2, SomeFiles DEF HasFiles
      <3>4. finishing' \in Files
            /\ \A f \in Files : f < finishing' => f = finishing \/ f < finishing
        BY <1>1, <2>3, <3>1 DEF Files
      <3>5. \A f \in Files : f < finishing' => mw_ptrs'[f] = NoFile
        BY <1>2, <3>2, <3>4
      <3> QED BY <1>1, <2>1, <3>1, <3>3, <3>4, <3>5 DEF FilesInv, Without
    <2> QED BY <2>2, <2>3
  <1> QED BY <1>1, <1>7, <1>8 DEF FilesStep, Promise!Next

\* A writer gets a stream only in an open file of the run.
LEMMA WriterStartStep ==
    ASSUME FilesInv, NEW w \in Writers, WriterStart(w) PROVE FilesStep
  <1>1. UNCHANGED <<run, pc_run, finishing, mw_ptrs>>
    BY DEF WriterStart, WriterUnchanged, house_vars
  <1>2. UNCHANGED OpenFiles /\ HasFiles' = HasFiles
    BY <1>1 DEF OpenFiles, HasFiles
  <1>3. CASE FileIsOpen(w, monarch_ptr[w])
    <2>1. /\ streaming' = streaming \cup {<<w, run>>}
          /\ mw_ptrs # <<>> /\ mw_ptrs[FileNum[w]] # NoFile
      BY <1>3 DEF WriterStart, FileIsOpen
    <2>2. FileNum[w] \in OpenFiles
      BY <2>1 DEF OpenFiles
    <2>3. Promise!Attach(w)
      BY <1>1, <1>2, <2>1, <2>2 DEF Promise!Attach
    <2> QED BY <1>1, <1>2, <2>1, <2>2, <2>3 DEF FilesInv, FilesStep, Promise!Next
  <1>4. CASE ~FileIsOpen(w, monarch_ptr[w])
    <2>1. UNCHANGED streaming
      BY <1>4 DEF WriterStart
    <2> QED BY <1>1, <2>1, UnchangedStep DEF files_vars
  <1> QED BY <1>3, <1>4

\* A writer that leaves its file leaves no stream of his behind, and one whose
\* stream was of another run has none.
LEMMA FinishStreamStep ==
    ASSUME FilesInv, NEW w \in Writers, WriterStop(w) \/ WriterExit(w)
    PROVE  FilesStep
  <1>1. UNCHANGED <<run, pc_run, finishing, mw_ptrs>> /\ FinishStream(w)
    BY DEF WriterStop, WriterExit, WriterUnchanged, house_vars
  <1>2. UNCHANGED OpenFiles /\ HasFiles' = HasFiles
    BY <1>1 DEF OpenFiles, HasFiles
  <1>3. \A a \in streaming : a = <<a[1], run>>
    BY DEF FilesInv
  <1>4. CASE streaming' = {a \in streaming : a[1] # w}
    <2>1. Promise!Detach(w)
      BY <1>1, <1>2, <1>4 DEF Promise!Detach
    <2> QED BY <1>1, <1>2, <1>4, <2>1 DEF FilesInv, FilesStep, Promise!Next
  <1>5. CASE UNCHANGED streaming
    BY <1>1, <1>5, UnchangedStep DEF files_vars
  <1>6. CASE streaming' = streaming \ {<<w, monarch_ptr[w]>>}
    <2>1. CASE monarch_ptr[w] = run
      BY <1>3, <1>4, <1>6, <2>1
    <2>2. CASE monarch_ptr[w] # run
      BY <1>3, <1>5, <1>6, <2>2
    <2> QED BY <2>1, <2>2
  <1> QED BY <1>1, <1>5, <1>6 DEF FinishStream

LEMMA EveryStep == FilesInv /\ [Next]_vars => FilesStep
  BY OtherSteps, UnchangedStep, StartRunStep, StartFilesStep, StayStep,
     FinishFileStep, WriterStartStep, FinishStreamStep
     DEF Run

-----------------------------------------------------------------------------
(* The theorem.                                                            *)

\* For any files, writers and requests: a file of a run is closed only when no
\* writer has a stream in it, streams are only got in open files of the run,
\* and the next run begins when all files of the last are closed.
THEOREM RunFilesImplemented == Spec => ImplementsRunFiles
  <1>1. Init => FilesInv /\ Promise!Init
    <2>1. Init => Promise!Init
      BY DEF Init, ControlInit, Promise!Init, OpenFiles
    <2> QED BY <2>1, FilesInit
  <1>2. FilesInv /\ [Next]_vars => FilesInv' /\ [Promise!Next]_(Promise!vars)
    BY EveryStep DEF FilesStep
  <1> QED BY <1>1, <1>2, PTL DEF Spec, ImplementsRunFiles, Promise!Spec

HIDE ControlAssumption

-----------------------------------------------------------------------------
(* The slots on their way.                                                 *)

SomeChunk == [run : Nat, number : Nat]
Slot == [command : {"s_start", "s_stop", "s_exit"}]
        \cup [command : {"s_run"}, chunk : SomeChunk]

IsData(slot) == slot.command = "s_run"
IsFirst(slot) == IsData(slot) /\ slot.chunk.number = 1

\* Slot b may follow slot a.
May(a, b) ==
    /\ IsData(b) =>
           \/ /\ IsData(a) /\ b.chunk.run = a.chunk.run
              /\ b.chunk.number = a.chunk.number + 1
           \/ a.command = "s_start" /\ IsFirst(b)
    /\ b.command = "s_start" => a.command = "s_stop"

\* Slots in order, of runs up to r: a new run comes behind all data of the last.
Orderly(s, r) ==
    /\ \A i \in 1 .. Len(s) : IsData(s[i]) => s[i].chunk.run <= r
    /\ \A i \in 2 .. Len(s) : May(s[i - 1], s[i])
    /\ \A j \in 1 .. Len(s) : \A i \in 1 .. j - 1 :
           IsData(s[i]) /\ IsFirst(s[j]) => s[i].chunk.run < s[j].chunk.run

\* The runs that begin in s are later than run n.
Later(s, n) == \A i \in 1 .. Len(s) : IsFirst(s[i]) => s[i].chunk.run > n

\* What is behind a node: its stream q, the stream f before the transform, and
\* the slot x the digitizer would send next.
Line(q, f, x) == Append(q \o f, x)

-----------------------------------------------------------------------------
(* Sequences of slots.                                                     *)

LEMMA HeadIsFirst ==
    ASSUME NEW S, NEW s \in Seq(S), s # <<>>
    PROVE  /\ Head(s) = s[1] /\ Head(s) \in S
           /\ Tail(s) \in Seq(S) /\ Len(Tail(s)) = Len(s) - 1
           /\ Len(s) \in Nat \ {0}
           /\ \A i \in 1 .. Len(s) - 1 : Tail(s)[i] = s[i + 1]
  BY HeadTailProperties

\* To take the first slot of a stream is to take the first of all behind it.
LEMMA TakeFirst ==
    ASSUME NEW S, NEW s \in Seq(S), NEW t \in Seq(S), s # <<>>
    PROVE  /\ s \o t # <<>> /\ (s \o t)[1] = Head(s)
           /\ Tail(s) \o t = Tail(s \o t)
  <1>1. /\ s \o t \in Seq(S) /\ Len(s \o t) = Len(s) + Len(t)
        /\ Len(s) \in Nat \ {0} /\ Len(t) \in Nat
        /\ \A i \in 1 .. Len(s) + Len(t) :
               (s \o t)[i] = IF i <= Len(s) THEN s[i] ELSE t[i - Len(s)]
    BY ConcatProperties, HeadIsFirst
  <1>2. s \o t # <<>> /\ (s \o t)[1] = Head(s)
    BY <1>1, HeadIsFirst
  <1>3. /\ Tail(s) \o t \in Seq(S) /\ Len(Tail(s) \o t) = Len(s) - 1 + Len(t)
        /\ \A i \in 1 .. Len(s) - 1 + Len(t) :
               (Tail(s) \o t)[i] =
                   IF i <= Len(s) - 1 THEN Tail(s)[i] ELSE t[i - (Len(s) - 1)]
    BY ConcatProperties, HeadIsFirst
  <1>4. /\ Tail(s \o t) \in Seq(S) /\ Len(Tail(s \o t)) = Len(s) + Len(t) - 1
        /\ \A i \in 1 .. Len(s) + Len(t) - 1 : Tail(s \o t)[i] = (s \o t)[i + 1]
    BY <1>1, <1>2, HeadIsFirst
  <1>5. ASSUME NEW i \in 1 .. Len(s) + Len(t) - 1
        PROVE  (Tail(s) \o t)[i] = Tail(s \o t)[i]
    <2>1. CASE i <= Len(s) - 1
      <3>1. (Tail(s) \o t)[i] = Tail(s)[i] /\ Tail(s)[i] = s[i + 1]
        BY <1>1, <1>3, <2>1, HeadIsFirst
      <3>2. (s \o t)[i + 1] = s[i + 1]
        BY <1>1, <2>1
      <3> QED BY <1>4, <3>1, <3>2
    <2>2. CASE ~(i <= Len(s) - 1)
      <3>1. (Tail(s) \o t)[i] = t[i - (Len(s) - 1)]
        BY <1>1, <1>3, <2>2
      <3>2. (s \o t)[i + 1] = t[(i + 1) - Len(s)]
        BY <1>1, <2>2
      <3>3. i - (Len(s) - 1) = (i + 1) - Len(s)
        BY <1>1
      <3> QED BY <1>4, <3>1, <3>2, <3>3
    <2> QED BY <2>1, <2>2
  <1>6. Tail(s) \o t = Tail(s \o t)
    <2>1. Len(s) - 1 + Len(t) = Len(s) + Len(t) - 1
      BY <1>1
    <2> QED BY <1>3, <1>4, <1>5, <2>1, SeqEqual
  <1> QED BY <1>2, <1>6

\* frequency_transform moves a slot on and leaves the order as it is.
LEMMA MoveOn ==
    ASSUME NEW S, NEW s \in Seq(S), NEW t \in Seq(S), t # <<>>
    PROVE  Append(s, Head(t)) \o Tail(t) = s \o t
  <1>1. /\ Head(t) \in S /\ Tail(t) \in Seq(S) /\ Head(t) = t[1]
        /\ Len(Tail(t)) = Len(t) - 1 /\ Len(t) \in Nat \ {0} /\ Len(s) \in Nat
        /\ \A i \in 1 .. Len(t) - 1 : Tail(t)[i] = t[i + 1]
    BY HeadIsFirst
  <1> DEFINE a == Append(s, Head(t))
  <1>2. /\ a \in Seq(S) /\ Len(a) = Len(s) + 1
        /\ \A i \in 1 .. Len(s) : a[i] = s[i]
        /\ a[Len(s) + 1] = Head(t)
    BY <1>1, AppendProperties
  <1> HIDE DEF a
  <1>3. /\ a \o Tail(t) \in Seq(S) /\ Len(a \o Tail(t)) = Len(s) + Len(t)
        /\ \A i \in 1 .. Len(s) + Len(t) : (a \o Tail(t))[i] =
               IF i <= Len(s) + 1 THEN a[i] ELSE Tail(t)[i - (Len(s) + 1)]
    <2>1. Len(a) + Len(Tail(t)) = Len(s) + Len(t)
      BY <1>1, <1>2
    <2>2. /\ a \o Tail(t) \in Seq(S) /\ Len(a \o Tail(t)) = Len(a) + Len(Tail(t))
          /\ \A i \in 1 .. Len(a) + Len(Tail(t)) : (a \o Tail(t))[i] =
                 IF i <= Len(a) THEN a[i] ELSE Tail(t)[i - Len(a)]
      <3> DEFINE b == Tail(t)
      <3>1. a \in Seq(S) /\ b \in Seq(S)
        BY <1>1, <1>2
      <3> HIDE DEF b
      <3>2. /\ a \o b \in Seq(S) /\ Len(a \o b) = Len(a) + Len(b)
            /\ \A i \in 1 .. Len(a) + Len(b) :
                   (a \o b)[i] = IF i <= Len(a) THEN a[i] ELSE b[i - Len(a)]
        BY <3>1, ConcatProperties
      <3> QED BY <3>2 DEF b
    <2> QED BY <1>2, <2>1, <2>2
  <1>4. /\ s \o t \in Seq(S) /\ Len(s \o t) = Len(s) + Len(t)
        /\ \A i \in 1 .. Len(s) + Len(t) :
               (s \o t)[i] = IF i <= Len(s) THEN s[i] ELSE t[i - Len(s)]
    BY ConcatProperties
  <1>5. ASSUME NEW i \in 1 .. Len(s) + Len(t) PROVE (a \o Tail(t))[i] = (s \o t)[i]
    <2>1. CASE i <= Len(s)
      BY <1>1, <1>2, <1>3, <1>4, <2>1
    <2>2. CASE i = Len(s) + 1
      <3>1. (s \o t)[i] = t[1]
        BY <1>1, <1>4, <2>2
      <3>2. (a \o Tail(t))[i] = Head(t)
        BY <1>1, <1>2, <1>3, <2>2
      <3> QED BY <1>1, <3>1, <3>2
    <2>3. CASE i > Len(s) + 1
      <3>1. (s \o t)[i] = t[i - Len(s)] /\ (a \o Tail(t))[i] = Tail(t)[i - (Len(s) + 1)]
        BY <1>1, <1>3, <1>4, <2>3
      <3>2. i - (Len(s) + 1) \in 1 .. Len(t) - 1 /\ i - (Len(s) + 1) + 1 = i - Len(s)
        BY <1>1, <2>3
      <3>3. Tail(t)[i - (Len(s) + 1)] = t[(i - (Len(s) + 1)) + 1]
        BY <1>1, <3>2
      <3> QED BY <3>1, <3>2, <3>3
    <2>4. i <= Len(s) \/ i = Len(s) + 1 \/ i > Len(s) + 1
      BY <1>1
    <2> QED BY <2>1, <2>2, <2>3, <2>4
  <1>6. a \o Tail(t) = s \o t
    BY <1>3, <1>4, <1>5, SeqEqual
  <1> QED BY <1>6 DEF a

\* To append behind the second of two streams is to append behind both.
LEMMA AppendBehind ==
    ASSUME NEW S, NEW s \in Seq(S), NEW t \in Seq(S), NEW x \in S
    PROVE  s \o Append(t, x) = Append(s \o t, x)
  <1>1. <<x>> \in Seq(S) /\ s \o t \in Seq(S)
    BY ConcatProperties
  <1> QED BY <1>1, AppendIsConcat, ConcatAssociative

LEMMA LineSlots ==
    ASSUME NEW q \in Seq(Slot), NEW f \in Seq(Slot), NEW x \in Slot
    PROVE  /\ q \o f \in Seq(Slot) /\ Line(q, f, x) \in Seq(Slot)
           /\ Len(Line(q, f, x)) = Len(q \o f) + 1 /\ Len(q \o f) \in Nat
           /\ Line(q, f, x) # <<>>
           /\ Line(q, f, x)[Len(q \o f) + 1] = x
           /\ Line(q, f, x)[Len(Line(q, f, x))] = x /\ Len(Line(q, f, x)) \in Nat
           /\ \A i \in 1 .. Len(q \o f) : Line(q, f, x)[i] = (q \o f)[i]
  <1> DEFINE t == q \o f
  <1>1. t \in Seq(Slot)
    BY ConcatProperties
  <1> HIDE DEF t
  <1>2. /\ Append(t, x) \in Seq(Slot) /\ Len(Append(t, x)) = Len(t) + 1 /\ Len(t) \in Nat
        /\ Append(t, x) # <<>> /\ Append(t, x)[Len(t) + 1] = x
        /\ \A i \in 1 .. Len(t) : Append(t, x)[i] = t[i]
    BY <1>1, AppendProperties, LenProperties
  <1> QED BY <1>1, <1>2 DEF t, Line

\* There is always something behind a node.
LEMMA LineNotEmpty ==
    ASSUME NEW q \in Seq(Slot), NEW f \in Seq(Slot), NEW x \in Slot
    PROVE  Line(q, f, x) # <<>>
  <1> DEFINE t == q \o f
  <1>1. t \in Seq(Slot)
    BY ConcatProperties
  <1> HIDE DEF t
  <1>2. Append(t, x) # <<>>
    BY <1>1, AppendProperties
  <1> QED BY <1>2, Zenon DEF t, Line

\* A node takes the first slot of its line.
LEMMA LineTake ==
    ASSUME NEW q \in Seq(Slot), NEW f \in Seq(Slot), NEW x \in Slot, q # <<>>
    PROVE  /\ Line(q, f, x)[1] = Head(q) /\ Head(q) \in Slot
           /\ Line(Tail(q), f, x) = Tail(Line(q, f, x))
           /\ Line(Tail(q), f, x) # <<>>
  <1> DEFINE t == q \o f
  <1>1. t \in Seq(Slot) /\ t # <<>> /\ t[1] = Head(q) /\ Tail(q) \o f = Tail(t)
    BY TakeFirst, ConcatProperties
  <1>2. Head(q) \in Slot /\ Tail(q) \in Seq(Slot)
    BY HeadIsFirst
  <1>3. Line(Tail(q), f, x) = Append(Tail(t), x) /\ Line(q, f, x) = Append(t, x)
    BY <1>1 DEF Line
  <1>4. Line(Tail(q), f, x) # <<>>
    BY <1>2, LineNotEmpty, Zenon
  <1> HIDE DEF t
  <1>5. Append(t, x) = t \o <<x>> /\ Append(Tail(t), x) = Tail(t) \o <<x>>
    <2>1. Tail(t) \in Seq(Slot)
      BY <1>1, HeadIsFirst
    <2> QED BY <1>1, <2>1, AppendIsConcat
  <1>6. (t \o <<x>>)[1] = Head(t) /\ Tail(t) \o <<x>> = Tail(t \o <<x>>) /\ Head(t) = t[1]
    BY <1>1, TakeFirst, HeadIsFirst
  <1> QED BY <1>1, <1>2, <1>3, <1>4, <1>5, <1>6

\* frequency_transform leaves the line as it is.
LEMMA LineMove ==
    ASSUME NEW q \in Seq(Slot), NEW f \in Seq(Slot), NEW x, f # <<>>
    PROVE  Line(Append(q, Head(f)), Tail(f), x) = Line(q, f, x)
  BY MoveOn DEF Line

\* The digitizer sends x, and y would come next.
LEMMA LineSend ==
    ASSUME NEW q \in Seq(Slot), NEW f \in Seq(Slot), NEW x \in Slot, NEW y
    PROVE  Line(q, Append(f, x), y) = Append(Line(q, f, x), y)
  <1>1. q \o Append(f, x) = Append(q \o f, x)
    BY AppendBehind
  <1> QED BY <1>1 DEF Line

-----------------------------------------------------------------------------
(* Slots in order.                                                         *)

LEMMA Appended ==
    ASSUME NEW S, NEW s \in Seq(S), NEW x \in S
    PROVE  /\ Append(s, x) \in Seq(S) /\ Append(s, x) # <<>>
           /\ Len(s) \in Nat /\ Len(Append(s, x)) = Len(s) + 1
           /\ \A i \in 1 .. Len(s) : Append(s, x)[i] = s[i]
           /\ Append(s, x)[Len(s) + 1] = x
           /\ s = <<>> <=> Len(s) = 0
           /\ s # <<>> => Append(s, x)[1] = s[1]
           /\ s = <<>> => Append(s, x)[1] = x
  BY AppendProperties, EmptySeq, LenProperties

LEMMA OrderlyGrows ==
    ASSUME NEW s \in Seq(Slot), NEW r \in Nat, NEW n \in Nat, r <= n, Orderly(s, r)
    PROVE  Orderly(s, n)
  <1> SUFFICES ASSUME NEW i \in 1 .. Len(s), IsData(s[i]) PROVE s[i].chunk.run <= n
    BY DEF Orderly
  <1>1. s[i] \in Slot /\ s[i].chunk.run <= r
    BY ElementOfSeq DEF Orderly
  <1>2. s[i].chunk.run \in Nat
    BY <1>1 DEF Slot, SomeChunk, IsData
  <1> QED BY <1>1, <1>2

LEMMA OrderlyAppend ==
    ASSUME NEW s \in Seq(Slot), NEW r, NEW x \in Slot, Orderly(s, r),
           IsData(x) => x.chunk.run <= r,
           s # <<>> => May(s[Len(s)], x),
           IsFirst(x) =>
               \A i \in 1 .. Len(s) : IsData(s[i]) => s[i].chunk.run < x.chunk.run
    PROVE  Orderly(Append(s, x), r)
  <1> DEFINE a == Append(s, x)
  <1>1. /\ Len(s) \in Nat /\ Len(a) = Len(s) + 1
        /\ \A i \in 1 .. Len(s) : a[i] = s[i]
        /\ a[Len(s) + 1] = x
        /\ s = <<>> <=> Len(s) = 0
    BY Appended
  <1> HIDE DEF a
  <1>2. ASSUME NEW i \in 1 .. Len(a) PROVE IsData(a[i]) => a[i].chunk.run <= r
    <2>1. CASE i <= Len(s)
      BY <1>1, <2>1 DEF Orderly
    <2>2. CASE i = Len(s) + 1
      BY <1>1, <2>2
    <2> QED BY <1>1, <2>1, <2>2
  <1>3. ASSUME NEW i \in 2 .. Len(a) PROVE May(a[i - 1], a[i])
    <2>1. CASE i <= Len(s)
      <3>1. i \in 2 .. Len(s) /\ a[i] = s[i] /\ a[i - 1] = s[i - 1]
        BY <1>1, <2>1
      <3> QED BY <3>1 DEF Orderly
    <2>2. CASE i = Len(s) + 1
      <3>1. a[i] = x /\ a[i - 1] = s[Len(s)] /\ s # <<>>
        BY <1>1, <2>2
      <3> QED BY <3>1
    <2> QED BY <1>1, <2>1, <2>2
  <1>4. ASSUME NEW j \in 1 .. Len(a), NEW i \in 1 .. j - 1, IsData(a[i]), IsFirst(a[j])
        PROVE  a[i].chunk.run < a[j].chunk.run
    <2>1. i \in 1 .. Len(s) /\ a[i] = s[i]
      BY <1>1
    <2>2. CASE j <= Len(s)
      <3>1. j \in 1 .. Len(s) /\ a[j] = s[j]
        BY <1>1, <2>2
      <3> QED BY <1>4, <2>1, <3>1 DEF Orderly
    <2>3. CASE j = Len(s) + 1
      BY <1>1, <1>4, <2>1, <2>3
    <2> QED BY <1>1, <2>2, <2>3
  <1> QED BY <1>2, <1>3, <1>4 DEF Orderly, a

LEMMA OrderlyFront ==
    ASSUME NEW s \in Seq(Slot), NEW r, NEW x \in Slot, Orderly(Append(s, x), r)
    PROVE  Orderly(s, r)
  <1> DEFINE a == Append(s, x)
  <1>1. /\ Len(s) \in Nat /\ Len(a) = Len(s) + 1
        /\ \A i \in 1 .. Len(s) : a[i] = s[i]
    BY Appended
  <1>2. Orderly(a, r)
    OBVIOUS
  <1> HIDE DEF a
  <1>3. \A i \in 1 .. Len(s) : IsData(s[i]) => s[i].chunk.run <= r
    BY <1>1, <1>2 DEF Orderly
  <1>4. ASSUME NEW i \in 2 .. Len(s) PROVE May(s[i - 1], s[i])
    <2>1. i \in 2 .. Len(a) /\ a[i] = s[i] /\ a[i - 1] = s[i - 1]
      BY <1>1
    <2> QED BY <1>2, <2>1 DEF Orderly
  <1>5. ASSUME NEW j \in 1 .. Len(s), NEW i \in 1 .. j - 1, IsData(s[i]), IsFirst(s[j])
        PROVE  s[i].chunk.run < s[j].chunk.run
    <2>1. j \in 1 .. Len(a) /\ a[i] = s[i] /\ a[j] = s[j]
      BY <1>1
    <2> QED BY <1>2, <1>5, <2>1 DEF Orderly
  <1> QED BY <1>3, <1>4, <1>5 DEF Orderly

LEMMA OrderlyTail ==
    ASSUME NEW s \in Seq(Slot), NEW r, s # <<>>, Orderly(s, r)
    PROVE  /\ Orderly(Tail(s), r)
           /\ IsData(s[1]) => s[1].chunk.run <= r /\ Later(Tail(s), s[1].chunk.run)
           /\ Tail(s) # <<>> => May(s[1], Tail(s)[1])
  <1> DEFINE t == Tail(s)
  <1>0. /\ Len(s) \in Nat \ {0} /\ Len(t) = Len(s) - 1 /\ t \in Seq(Slot)
        /\ \A i \in 1 .. Len(s) - 1 : t[i] = s[i + 1]
    BY HeadIsFirst
  <1>1. /\ Len(s) \in Nat \ {0} /\ Len(t) = Len(s) - 1 /\ t \in Seq(Slot)
        /\ \A i \in 1 .. Len(t) : t[i] = s[i + 1]
        /\ t = <<>> <=> Len(t) = 0
    BY <1>0, EmptySeq
  <1> HIDE DEF t
  <1>2. \A i \in 1 .. Len(s) : IsData(s[i]) => s[i].chunk.run <= r
    BY DEF Orderly
  <1>3. \A i \in 2 .. Len(s) : May(s[i - 1], s[i])
    BY DEF Orderly
  <1>4. ASSUME NEW i \in 1 .. Len(t) PROVE IsData(t[i]) => t[i].chunk.run <= r
    <2>1. i + 1 \in 1 .. Len(s) /\ t[i] = s[i + 1]
      BY <1>1
    <2> QED BY <1>2, <2>1
  <1>5. ASSUME NEW i \in 2 .. Len(t) PROVE May(t[i - 1], t[i])
    <2>1. /\ i + 1 \in 2 .. Len(s) /\ t[i] = s[i + 1]
          /\ t[i - 1] = s[(i + 1) - 1]
      BY <1>1
    <2> QED BY <1>3, <2>1
  <1>6. ASSUME t # <<>> PROVE May(s[1], t[1])
    <2>1. 2 \in 2 .. Len(s) /\ t[1] = s[2] /\ 2 - 1 = 1
      BY <1>1, <1>6
    <2> QED BY <1>3, <2>1
  <1>7. \A j \in 1 .. Len(s) : \A i \in 1 .. j - 1 :
            IsData(s[i]) /\ IsFirst(s[j]) => s[i].chunk.run < s[j].chunk.run
    BY DEF Orderly
  <1>8. ASSUME NEW j \in 1 .. Len(t), NEW i \in 1 .. j - 1, IsData(t[i]), IsFirst(t[j])
        PROVE  t[i].chunk.run < t[j].chunk.run
    <2>1. /\ j + 1 \in 1 .. Len(s) /\ i + 1 \in 1 .. (j + 1) - 1
          /\ t[i] = s[i + 1] /\ t[j] = s[j + 1]
      BY <1>1
    <2> QED BY <1>7, <1>8, <2>1
  <1>9. ASSUME IsData(s[1]), NEW j \in 1 .. Len(t), IsFirst(t[j])
        PROVE  t[j].chunk.run > s[1].chunk.run
    <2>1. /\ j + 1 \in 1 .. Len(s) /\ 1 \in 1 .. (j + 1) - 1 /\ t[j] = s[j + 1]
          /\ t[j] \in Slot /\ s[1] \in Slot
      BY <1>1, ElementOfSeq
    <2>2. s[1].chunk.run < t[j].chunk.run
      BY <1>7, <1>9, <2>1
    <2>3. s[1].chunk.run \in Nat /\ t[j].chunk.run \in Nat
      BY <1>9, <2>1 DEF Slot, SomeChunk, IsData, IsFirst
    <2> QED BY <2>2, <2>3
  <1>10. 1 \in 1 .. Len(s)
    BY <1>1
  <1> QED BY <1>2, <1>4, <1>5, <1>6, <1>8, <1>9, <1>10 DEF Orderly, Later, t

LEMMA LaterTail ==
    ASSUME NEW s \in Seq(Slot), NEW n, s # <<>>, Later(s, n)
    PROVE  Later(Tail(s), n)
  <1>1. /\ Len(s) \in Nat \ {0} /\ Len(Tail(s)) = Len(s) - 1
        /\ \A i \in 1 .. Len(s) - 1 : Tail(s)[i] = s[i + 1]
    BY HeadIsFirst
  <1>2. \A i \in 1 .. Len(s) - 1 : i + 1 \in 1 .. Len(s)
    BY <1>1
  <1> QED BY <1>1, <1>2 DEF Later

LEMMA LaterAppend ==
    ASSUME NEW s \in Seq(Slot), NEW n, NEW x \in Slot
    PROVE  Later(Append(s, x), n) <=>
               Later(s, n) /\ (IsFirst(x) => x.chunk.run > n)
  <1> DEFINE a == Append(s, x)
  <1>1. /\ Len(s) \in Nat /\ Len(a) = Len(s) + 1
        /\ \A i \in 1 .. Len(s) : a[i] = s[i]
        /\ a[Len(s) + 1] = x
    BY Appended
  <1> HIDE DEF a
  <1>2. \A i \in 1 .. Len(a) : i \in 1 .. Len(s) \/ i = Len(s) + 1
    BY <1>1
  <1>3. Len(s) + 1 \in 1 .. Len(a) /\ \A i \in 1 .. Len(s) : i \in 1 .. Len(a)
    BY <1>1
  <1>4. Later(a, n) <=> Later(s, n) /\ (IsFirst(x) => x.chunk.run > n)
    BY <1>1, <1>2, <1>3 DEF Later
  <1> QED BY <1>4 DEF a

-----------------------------------------------------------------------------
(* What the variables hold.                                                *)

\* The last run that can have data on the way.
Latest ==
    IF pc_run = "launched" \/ (pc_run = "running" /\ source = 0) THEN run - 1 ELSE run

\* The chunks that can have been sent.
SentChunk == [run : 1 .. Latest, number : 1 .. MaxChunks]

SentSlot == [command : {"s_start", "s_stop", "s_exit"}]
            \cup [command : {"s_run"}, chunk : SentChunk]

Output == [command : {"s_start", "s_stop"}]
          \cup [command : {"s_run"}, group : Seq(SentChunk) \ {<<>>}]

\* The digitizer: it is on for a run that can have data.
SourceInv ==
    /\ source \in 0 .. Latest
    /\ sent \in SentChunk \cup {NoChunk}

\* The streams: none is longer than its slots.
StreamsInv ==
    /\ fft_in \in Seq(SentSlot) /\ Len(fft_in) <= TimeLength
    /\ avg_in \in Seq(SentSlot) /\ Len(avg_in) <= FreqLength
    /\ relay_in \in Seq(Output) /\ Len(relay_in) <= OutLength
    /\ writer_in \in [Writers -> Seq(SentSlot)]
    /\ \A w \in Writers : Len(writer_in[w]) <= FreqLength

\* The averager and the relay.
SpectraInv ==
    /\ average \in Seq(SentChunk)
    /\ spectrum \in Seq(SentChunk \cup {NoChunk}) /\ spectrum # <<>>
    /\ f_input_counter = Len(average)
    /\ pc_relay \in {"loop", "duration", "values", "done"}
    /\ broadcast.chunk \in SentChunk \cup {NoChunk}
    /\ pc_relay \in {"duration", "values"} => broadcast.chunk \in SentChunk

\* Run control and the writers.
ControlTypes ==
    /\ canceled \in BOOLEAN
    /\ monarch_ptr \in [Writers -> 0 .. run] /\ swrap \in [Writers -> 0 .. run]
    /\ writers \subseteq Writers
    /\ failures \in 0 .. MaxFailures
    /\ pc_run \in {"inactive", "idle", "launched", "running", "finishing",
                   "error", "crashed"}

TypesInv == FilesInv /\ SourceInv /\ StreamsInv /\ SpectraInv /\ ControlTypes

LEMMA Bounds ==
    /\ MaxChunks \in Nat /\ NumToAverage \in Nat /\ MaxFailures \in Nat
    /\ TimeLength \in Nat \ {0} /\ FreqLength \in Nat \ {0} /\ OutLength \in Nat \ {0}
  BY PathAssumption, ControlAssumption DEF PathAssumption, ControlAssumption

LEMMA LatestRun == FilesInv => Latest \in Nat /\ Latest <= run
  BY DEF FilesInv, Latest

\* Run control, the registration and the clients.
Control == Registration \/ Client \/ RunControl

LEMMA NextSteps ==
    ASSUME [Next]_vars
    PROVE  \/ Control /\ UNCHANGED path_vars
           \/ Source \/ Fft \/ Averager \/ Relay
           \/ \E w \in Writers : Writer(w)
           \/ UNCHANGED vars
  BY DEF Next, Control, Registration, Client, RunControl

LEMMA ControlRuns ==
    ASSUME Control
    PROVE  /\ UNCHANGED <<run, pc_run>>
              \/ (UNCHANGED run /\ pc_run' \in {"idle", "running", "finishing",
                                                "error", "crashed"}
                  /\ (pc_run' = "running" => pc_run = "launched"))
              \/ (run' = run + 1 /\ pc_run = "idle" /\ pc_run' = "launched")
           /\ canceled => canceled'
           /\ ~StartRun => UNCHANGED run
  <1>1. CASE Registration
    BY <1>1 DEF Registration, RegisterWriter, Activate, UnregisterWriter
  <1>2. CASE Client
    BY <1>2 DEF Client, Request, NewRequest, ApplySetting, SettingThrows, StartRun,
       StartRunThrows, DropRequest, Requesting
  <1>3. CASE RunControl
    BY <1>3 DEF RunControl, Run, StartFiles, StartFilesFails, BeginFinishing,
       FinishFile, CancelAll, FinishFileThrows, FinishNull, Running
  <1> QED BY <1>1, <1>2, <1>3 DEF Control

\* What the nodes leave alone.
LEMMA NodeSteps ==
    ASSUME Source \/ Fft \/ Averager \/ Relay
    PROVE  UNCHANGED <<control_vars, swrap, pc_writer>>
  BY DEF Source, Fft, FftPass, FftExit, FftUnchanged, Averager, AvgStart, AvgRun,
     AvgStop, AvgStopped, AvgExit, AvgUnchanged, Relay, writer_vars

LEMMA ControlVars ==
    ASSUME UNCHANGED control_vars
    PROVE  UNCHANGED <<file_infos, run_duration, extra_info, house_duration, mw_ptrs,
                       monarch_ptr, writers, streaming, request, pc_request, requests,
                       failures, run, pc_run, finishing, asked, canceled>>
  BY DEF control_vars, settings, house_vars, request_vars

LEMMA PathVars ==
    ASSUME UNCHANGED path_vars
    PROVE  UNCHANGED <<source, sent, fft_in, pc_fft, avg_in, pc_avg, average,
                       f_input_counter, spectrum, relay_in, pc_relay, broadcast,
                       writer_in, swrap, pc_writer>>
  BY DEF path_vars, source_vars, avg_vars, writer_vars

LEMMA AllVars == UNCHANGED vars => UNCHANGED control_vars /\ UNCHANGED path_vars
  BY DEF vars

LEMMA WriterSteps ==
    ASSUME NEW w \in Writers, Writer(w)
    PROVE  UNCHANGED <<file_infos, run_duration, extra_info, house_duration, mw_ptrs,
                       monarch_ptr, writers, request, pc_request, requests, failures,
                       run, pc_run, finishing, asked, source, sent, fft_in, pc_fft,
                       avg_in, pc_avg, average, f_input_counter, spectrum, relay_in,
                       pc_relay, broadcast>>
  BY DEF Writer, WriterStart, WriterRun, WriterStop, WriterExit, WriterUnchanged,
     settings, house_vars, request_vars, source_vars, avg_vars

LEMMA CanceledStays == [Next]_vars => (canceled => canceled')
  <1> SUFFICES ASSUME [Next]_vars, canceled PROVE canceled'
    OBVIOUS
  <1>1. ASSUME NEW w \in Writers, Writer(w) PROVE canceled'
    BY <1>1 DEF Writer, WriterStart, WriterRun, WriterStop, WriterExit
  <1> QED BY <1>1, NextSteps, ControlRuns, NodeSteps, ControlVars, AllVars

\* The runs with data on the way do not become fewer.
LEMMA LatestGrows ==
    ASSUME FilesInv, FilesInv', SourceInv, [Next]_vars
    PROVE  /\ Latest \in Nat /\ Latest' \in Nat
           /\ Latest <= Latest' /\ Latest' <= run' /\ run <= run'
  <1>0. /\ run \in Nat /\ (pc_run \notin {"inactive", "idle"} => run > 0)
        /\ run' \in Nat /\ (pc_run' \notin {"inactive", "idle"} => run' > 0)
    BY DEF FilesInv
  <1>1. Latest \in Nat /\ Latest' \in Nat /\ Latest' <= run' /\ run \in Nat
    <2>1. \A r \in Nat : r > 0 => r - 1 \in Nat /\ r - 1 <= r
      OBVIOUS
    <2>2. \A r \in Nat : r <= r
      OBVIOUS
    <2>3. Latest \in Nat
      BY <1>0, <2>1 DEF Latest
    <2>4. Latest' \in Nat /\ Latest' <= run'
      BY <1>0, <2>1, <2>2 DEF Latest
    <2> QED BY <1>0, <2>3, <2>4
  <1>2. CASE Control /\ UNCHANGED path_vars
    BY <1>1, <1>2, PathVars, ControlRuns DEF Latest
  <1>3. CASE UNCHANGED <<run, pc_run, source>>
    BY <1>1, <1>3 DEF Latest
  <1>4. CASE Source
    <2>1. UNCHANGED <<run, pc_run>>
      BY <1>4, NodeSteps, ControlVars
    <2>2. \/ source = 0 /\ pc_run = "running"
          \/ UNCHANGED source
          \/ pc_run # "running"
      BY <1>4 DEF Source
    <2> QED BY <1>1, <2>1, <2>2 DEF Latest
  <1>5. CASE Fft \/ Averager \/ Relay
    <2>1. UNCHANGED source
      BY <1>5 DEF Fft, FftPass, FftExit, FftUnchanged, Averager, AvgStart, AvgRun,
         AvgStop, AvgStopped, AvgExit, AvgUnchanged, Relay, source_vars
    <2> QED BY <1>3, <1>5, <2>1, NodeSteps, ControlVars
  <1>6. ASSUME NEW w \in Writers, Writer(w) PROVE UNCHANGED <<run, pc_run, source>>
    BY <1>6, WriterSteps
  <1> QED BY <1>2, <1>3, <1>4, <1>5, <1>6, NextSteps, AllVars, ControlVars, PathVars

LEMMA LargerSet ==
    ASSUME NEW S, NEW T, S \subseteq T, NEW s \in Seq(S) PROVE s \in Seq(T)
  <1>1. s \in [1 .. Len(s) -> S] /\ Len(s) \in Nat
    BY LenProperties
  <1>2. s \in [1 .. Len(s) -> T]
    BY <1>1
  <1> QED BY <1>1, <1>2, SeqDef

LEMMA MoreSent ==
    ASSUME Latest \in Nat, Latest' \in Nat, Latest <= Latest'
    PROVE  /\ SentChunk \subseteq SentChunk' /\ SentSlot \subseteq SentSlot'
           /\ Output \subseteq Output'
           /\ SentChunk \cup {NoChunk} \subseteq (SentChunk \cup {NoChunk})'
  <1>1. 1 .. Latest \subseteq 1 .. Latest'
    OBVIOUS
  <1>2. SentChunk \subseteq SentChunk'
    BY <1>1 DEF SentChunk
  <1>3. Seq(SentChunk) \subseteq Seq(SentChunk')
    BY <1>2, LargerSet
  <1>4. NoChunk' = NoChunk
    BY DEF NoChunk
  <1> QED BY <1>2, <1>3, <1>4 DEF SentSlot, Output

LEMMA TypesInit == Init => TypesInv
  <1> SUFFICES ASSUME Init PROVE TypesInv
    OBVIOUS
  <1> USE Bounds
  <1>1. FilesInv
    BY FilesInit
  <1>2. \A S : <<>> \in Seq(S) /\ Len(<<>>) = 0
    BY EmptySeq
  <1>3. StreamsInv
    BY <1>2 DEF Init, PathInit, StreamsInv
  <1>4. SourceInv
    <2>1. source = 0 /\ sent = NoChunk /\ Latest = 0
      BY DEF Init, PathInit, ControlInit, Latest
    <2> QED BY <2>1 DEF SourceInv
  <1>5. SpectraInv
    <2>1. spectrum \in Seq(SentChunk \cup {NoChunk}) /\ spectrum # <<>>
      BY DEF Init, PathInit
    <2> QED BY <1>2, <2>1 DEF Init, PathInit, SpectraInv
  <1>6. ControlTypes
    <2>1. /\ run = 0 /\ monarch_ptr = [w \in Writers |-> 0]
          /\ swrap = [w \in Writers |-> 0] /\ writers = {} /\ failures = 0
          /\ canceled = FALSE /\ pc_run = "inactive"
      BY DEF Init, PathInit, ControlInit
    <2>2. 0 \in 0 .. 0 /\ 0 \in 0 .. MaxFailures
      OBVIOUS
    <2> QED BY <2>1, <2>2 DEF ControlTypes
  <1> QED BY <1>1, <1>3, <1>4, <1>5, <1>6 DEF TypesInv

\* A stream that loses its first slot, and one that gets another.
LEMMA Taken ==
    ASSUME NEW S, NEW q \in Seq(S), q # <<>>, NEW n \in Nat, Len(q) <= n
    PROVE  Head(q) \in S /\ Tail(q) \in Seq(S) /\ Len(Tail(q)) <= n
  BY HeadTailProperties, LenProperties

LEMMA Pushed ==
    ASSUME NEW S, NEW q \in Seq(S), NEW x \in S, NEW n \in Nat, Len(q) < n
    PROVE  Append(q, x) \in Seq(S) /\ Len(Append(q, x)) <= n
  BY AppendProperties, LenProperties

\* The sets may have grown by a step.
LEMMA StreamsGrow ==
    ASSUME Latest \in Nat, Latest' \in Nat, Latest <= Latest',
           fft_in' \in Seq(SentSlot) /\ Len(fft_in') <= TimeLength,
           avg_in' \in Seq(SentSlot) /\ Len(avg_in') <= FreqLength,
           relay_in' \in Seq(Output) /\ Len(relay_in') <= OutLength,
           writer_in' \in [Writers -> Seq(SentSlot)],
           \A w \in Writers : Len(writer_in'[w]) <= FreqLength
    PROVE  StreamsInv'
  <1>1. SentSlot \subseteq SentSlot' /\ Output \subseteq Output'
    BY MoreSent
  <1>2. /\ fft_in' \in Seq(SentSlot') /\ avg_in' \in Seq(SentSlot')
        /\ relay_in' \in Seq(Output')
    BY <1>1, LargerSet
  <1>3. Seq(SentSlot) \subseteq Seq(SentSlot')
    BY <1>1, LargerSet
  <1>4. writer_in' \in [Writers -> Seq(SentSlot')]
    BY <1>3
  <1> QED BY <1>2, <1>4 DEF StreamsInv

LEMMA SpectraGrow ==
    ASSUME Latest \in Nat, Latest' \in Nat, Latest <= Latest',
           average' \in Seq(SentChunk),
           spectrum' \in Seq(SentChunk \cup {NoChunk}), spectrum' # <<>>,
           f_input_counter' = Len(average'),
           pc_relay' \in {"loop", "duration", "values", "done"},
           broadcast'.chunk \in SentChunk \cup {NoChunk},
           pc_relay' \in {"duration", "values"} => broadcast'.chunk \in SentChunk
    PROVE  SpectraInv'
  <1>1. SentChunk \subseteq SentChunk'
        /\ SentChunk \cup {NoChunk} \subseteq (SentChunk \cup {NoChunk})'
    BY MoreSent
  <1>2. average' \in Seq(SentChunk') /\ spectrum' \in Seq((SentChunk \cup {NoChunk})')
    BY <1>1, LargerSet
  <1> QED BY <1>1, <1>2 DEF SpectraInv

LEMMA ControlTypesStep ==
    ASSUME TypesInv, FilesInv', [Next]_vars PROVE ControlTypes'
  <1> USE Bounds DEF ControlTypes
  <1>1. run \in Nat /\ run' \in Nat /\ run <= run' /\ ControlTypes
    BY LatestGrows DEF TypesInv, FilesInv
  <1>2. /\ monarch_ptr \in [Writers -> 0 .. run'] /\ swrap \in [Writers -> 0 .. run']
        /\ run \in 0 .. run'
    BY <1>1
  <1>3. CASE Registration \/ Client
    <2>1. UNCHANGED <<monarch_ptr, swrap>>
      BY <1>3, PathVars DEF Registration, RegisterWriter, UnregisterWriter, Activate,
         Client, Request, NewRequest, ApplySetting, SettingThrows, StartRun,
         StartRunThrows, DropRequest, Requesting, house_vars
    <2>2. writers' \subseteq Writers /\ canceled' \in BOOLEAN
      BY <1>1, <1>3 DEF Registration, RegisterWriter, UnregisterWriter, Activate, Client,
         Request, NewRequest, ApplySetting, SettingThrows, StartRun, StartRunThrows,
         DropRequest, Requesting
    <2>3. failures' \in 0 .. MaxFailures
      BY <1>1, <1>3 DEF Registration, RegisterWriter, UnregisterWriter, Activate, Client,
         Request, NewRequest, ApplySetting, SettingThrows, StartRun, StartRunThrows,
         DropRequest, Fails
    <2>4. pc_run' = pc_run \/ pc_run' \in {"idle", "launched"}
      BY <1>3 DEF Registration, RegisterWriter, UnregisterWriter, Activate, Client,
         Request, NewRequest, ApplySetting, SettingThrows, StartRun, StartRunThrows,
         DropRequest
    <2> QED BY <1>1, <1>2, <2>1, <2>2, <2>3, <2>4
  <1>4. CASE RunControl
    <2>1. UNCHANGED <<swrap, writers, run>>
      BY <1>4, PathVars DEF RunControl, Run, StartFiles, StartFilesFails,
         BeginFinishing, FinishFile, CancelAll, FinishFileThrows, FinishNull, Running
    <2>2. /\ pc_run' \in {"running", "finishing", "idle", "error", "crashed"}
          /\ canceled' \in BOOLEAN
      BY <1>1, <1>4 DEF RunControl, Run, StartFiles, StartFilesFails, BeginFinishing,
         FinishFile, CancelAll, FinishFileThrows, FinishNull
    <2>3. failures' \in 0 .. MaxFailures
      BY <1>1, <1>4 DEF RunControl, Run, StartFiles, StartFilesFails, BeginFinishing,
         FinishFile, CancelAll, FinishFileThrows, FinishNull, Fails
    <2>4. monarch_ptr' \in [Writers -> 0 .. run]
      <3>1. \A n : Prepared(n) \in [Writers -> 0 .. run]
        BY <1>1 DEF Prepared
      <3>2. UNCHANGED monarch_ptr \/ \E n : monarch_ptr' = Prepared(n)
        BY <1>4 DEF RunControl, Run, StartFiles, StartFilesFails, BeginFinishing,
           FinishFile, CancelAll, FinishFileThrows, FinishNull, house_vars
      <3> QED BY <1>1, <3>1, <3>2
    <2> QED BY <1>1, <1>2, <2>1, <2>2, <2>3, <2>4
  <1>5. CASE Source \/ Fft \/ Averager \/ Relay \/ UNCHANGED vars
    BY <1>1, <1>2, <1>5, NodeSteps, AllVars, ControlVars, PathVars
  <1>6. ASSUME NEW w \in Writers, Writer(w) PROVE ControlTypes'
    <2>1. UNCHANGED <<monarch_ptr, writers, failures, pc_run, run>>
      BY <1>6, WriterSteps
    <2>2. swrap' \in [Writers -> 0 .. run]
      BY <1>1, <1>6 DEF Writer, WriterStart, WriterRun, WriterStop, WriterExit,
         FinishStream
    <2>3. canceled' \in BOOLEAN
      BY <1>1, <1>6 DEF Writer, WriterStart, WriterRun, WriterStop, WriterExit
    <2> QED BY <1>1, <2>1, <2>2, <2>3
  <1> QED BY <1>3, <1>4, <1>5, <1>6, NextSteps DEF Control

LEMMA NoCommandChunk ==
    /\ Command("s_start") \in SentSlot /\ Command("s_stop") \in SentSlot
    /\ Command("s_exit") \in SentSlot
    /\ Command("s_start") \in Output /\ Command("s_stop") \in Output
  BY DEF Command, SentSlot, Output

Grows == Latest \in Nat /\ Latest' \in Nat /\ Latest <= Latest' /\ run \in Nat

LEMMA SourceTypes ==
    ASSUME TypesInv, Grows, Source
    PROVE  SourceInv' /\ StreamsInv' /\ SpectraInv'
  <1> USE Bounds
  <1>1. SourceInv /\ StreamsInv /\ SpectraInv /\ FilesInv
    BY DEF TypesInv
  <1>2. UNCHANGED <<run, pc_run>>
    BY NodeSteps, ControlVars
  <1>3. /\ UNCHANGED <<avg_in, relay_in, pc_relay, broadcast, writer_in, average,
                       spectrum, f_input_counter>>
        /\ ~canceled
    BY DEF Source, avg_vars
  <1>4. SpectraInv'
    BY <1>1, <1>3, SpectraGrow DEF Grows, SpectraInv
  <1>5. SentChunk \cup {NoChunk} \subseteq (SentChunk \cup {NoChunk})'
    BY MoreSent DEF Grows
  <1>6. ASSUME NEW x \in SentSlot, PushIn(x) PROVE StreamsInv'
    <2>1. fft_in' \in Seq(SentSlot) /\ Len(fft_in') <= TimeLength
      BY <1>1, <1>6, Pushed DEF PushIn, StreamsInv
    <2> QED BY <1>1, <1>3, <2>1, StreamsGrow DEF Grows, StreamsInv
  <1>7. CASE /\ source = 0 /\ pc_run = "running" /\ source' = run
             /\ PushIn(Command("s_start")) /\ UNCHANGED sent
    <2>1. run > 0 /\ Latest' = run
      BY <1>1, <1>2, <1>7 DEF FilesInv, Latest
    <2>2. SourceInv'
      BY <1>1, <1>5, <1>7, <2>1 DEF SourceInv, Grows
    <2> QED BY <1>4, <1>6, <1>7, <2>2, NoCommandChunk
  <1>8. CASE /\ source # 0 /\ NextNumber <= MaxChunks
             /\ sent' = [run |-> source, number |-> NextNumber]
             /\ PushIn(Data(sent')) /\ UNCHANGED source
    <2>1. NextNumber \in 1 .. MaxChunks
      <3>1. sent.number \in Nat
        BY <1>1 DEF SourceInv, SentChunk, NoChunk
      <3> QED BY <1>8, <3>1 DEF NextNumber
    <2>2. source \in 1 .. Latest
      BY <1>1, <1>8 DEF SourceInv, Grows
    <2>3. sent' \in SentChunk
      BY <1>8, <2>1, <2>2 DEF SentChunk
    <2>4. Data(sent') \in SentSlot
      BY <2>3 DEF Data, SentSlot
    <2>5. StreamsInv'
      BY <1>6, <1>8, <2>4
    <2>6. source' \in 0 .. Latest'
      BY <1>8, <2>2 DEF Grows
    <2> QED BY <1>4, <1>5, <2>3, <2>5, <2>6 DEF SourceInv
  <1>9. CASE /\ source # 0 /\ pc_run # "running" /\ source' = 0
             /\ PushIn(Command("s_stop")) /\ UNCHANGED sent
    <2>1. SourceInv'
      BY <1>1, <1>5, <1>9 DEF SourceInv, Grows
    <2> QED BY <1>4, <1>6, <1>9, <2>1, NoCommandChunk
  <1> QED BY <1>7, <1>8, <1>9 DEF Source

LEMMA SourceKept ==
    ASSUME SourceInv, Grows, UNCHANGED <<source, sent>> PROVE SourceInv'
  <1>1. SentChunk \cup {NoChunk} \subseteq (SentChunk \cup {NoChunk})'
    BY MoreSent DEF Grows
  <1> QED BY <1>1 DEF SourceInv, Grows

LEMMA FftTypes ==
    ASSUME TypesInv, Grows, Fft
    PROVE  SourceInv' /\ StreamsInv' /\ SpectraInv'
  <1> USE Bounds
  <1>1. SourceInv /\ StreamsInv /\ SpectraInv
    BY DEF TypesInv
  <1>2. UNCHANGED <<source, sent, relay_in, pc_relay, broadcast, average, spectrum,
                    f_input_counter>>
    BY DEF Fft, FftPass, FftExit, FftUnchanged, source_vars, avg_vars
  <1>3. SourceInv' /\ SpectraInv'
    BY <1>1, <1>2, SpectraGrow, SourceKept DEF Grows, SpectraInv
  <1>4. ASSUME fft_in' \in Seq(SentSlot) /\ Len(fft_in') <= TimeLength,
               avg_in' \in Seq(SentSlot) /\ Len(avg_in') <= FreqLength,
               writer_in' \in [Writers -> Seq(SentSlot)],
               \A w \in Writers : Len(writer_in'[w]) <= FreqLength
        PROVE  StreamsInv'
    BY <1>1, <1>2, <1>4, StreamsGrow DEF Grows, StreamsInv
  <1>5. ASSUME NEW x \in SentSlot, PushSpectrum(x)
        PROVE  /\ avg_in' \in Seq(SentSlot) /\ Len(avg_in') <= FreqLength
               /\ writer_in' \in [Writers -> Seq(SentSlot)]
               /\ \A w \in Writers : Len(writer_in'[w]) <= FreqLength
    <2>1. avg_in' \in Seq(SentSlot) /\ Len(avg_in') <= FreqLength
      BY <1>1, <1>5, Pushed DEF PushSpectrum, StreamsInv
    <2>2. ASSUME NEW w \in Writers
          PROVE  /\ Append(writer_in[w], x) \in Seq(SentSlot)
                 /\ Len(Append(writer_in[w], x)) <= FreqLength
      <3>1. writer_in[w] \in Seq(SentSlot) /\ Len(writer_in[w]) < FreqLength
        BY <1>1, <1>5 DEF PushSpectrum, StreamsInv
      <3> QED BY <1>5, <3>1, Pushed
    <2>3. writer_in' = [w \in Writers |-> Append(writer_in[w], x)]
      BY <1>5 DEF PushSpectrum
    <2> QED BY <2>1, <2>2, <2>3
  <1>6. CASE FftPass
    <2>1. /\ Head(fft_in) \in SentSlot /\ fft_in' \in Seq(SentSlot)
          /\ Len(fft_in') <= TimeLength
      BY <1>1, <1>6, Taken DEF FftPass, StreamsInv
    <2>2. PushSpectrum(Head(fft_in))
      BY <1>6 DEF FftPass
    <2> QED BY <1>3, <1>4, <1>5, <2>1, <2>2
  <1>7. CASE FftExit
    <2>1. UNCHANGED fft_in /\ fft_in \in Seq(SentSlot) /\ Len(fft_in) <= TimeLength
      BY <1>1, <1>7 DEF FftExit, StreamsInv
    <2>2. CASE UNCHANGED <<avg_in, writer_in>>
      BY <1>1, <1>3, <1>4, <2>1, <2>2 DEF StreamsInv
    <2>3. CASE PushSpectrum(Command("s_stop"))
      BY <1>3, <1>4, <1>5, <2>1, <2>3, NoCommandChunk
    <2> DEFINE two == <<Command("s_stop"), Command("s_exit")>>
    <2>4. two \in Seq(SentSlot) /\ Len(two) = 2
      BY NoCommandChunk
    <2> HIDE DEF two
    <2>5. ASSUME NEW q \in Seq(SentSlot), Len(q) + 1 < FreqLength
          PROVE  q \o two \in Seq(SentSlot) /\ Len(q \o two) <= FreqLength
      <3>1. q \o two \in Seq(SentSlot) /\ Len(q \o two) = Len(q) + Len(two)
            /\ Len(q) \in Nat
        BY <2>4, ConcatProperties, LenProperties
      <3> QED BY <2>4, <2>5, <3>1
    <2>6. CASE /\ Len(avg_in) + 1 < FreqLength
               /\ \A w \in Writers : Len(writer_in[w]) + 1 < FreqLength
               /\ avg_in' = avg_in \o two
               /\ writer_in' = [w \in Writers |-> writer_in[w] \o two]
      <3>1. avg_in \in Seq(SentSlot) /\ \A w \in Writers : writer_in[w] \in Seq(SentSlot)
        BY <1>1 DEF StreamsInv
      <3>2. avg_in' \in Seq(SentSlot) /\ Len(avg_in') <= FreqLength
        BY <2>5, <2>6, <3>1
      <3>3. \A w \in Writers : /\ writer_in[w] \o two \in Seq(SentSlot)
                               /\ Len(writer_in[w] \o two) <= FreqLength
        BY <2>5, <2>6, <3>1
      <3>4. /\ writer_in' \in [Writers -> Seq(SentSlot)]
            /\ \A w \in Writers : Len(writer_in'[w]) <= FreqLength
        BY <2>6, <3>3
      <3> QED BY <1>3, <1>4, <2>1, <3>2, <3>4
    <2> QED BY <1>7, <2>2, <2>3, <2>6 DEF FftExit, two
  <1> QED BY <1>6, <1>7 DEF Fft

LEMMA AveragerTypes ==
    ASSUME TypesInv, Grows, Averager
    PROVE  SourceInv' /\ StreamsInv' /\ SpectraInv'
  <1> USE Bounds
  <1>1. SourceInv /\ StreamsInv /\ SpectraInv
    BY DEF TypesInv
  <1>2. UNCHANGED <<source, sent, fft_in, writer_in, pc_relay, broadcast>>
    BY DEF Averager, AvgStart, AvgRun, AvgStop, AvgStopped, AvgExit, AvgUnchanged,
       source_vars
  <1>3. SourceInv'
    BY <1>1, <1>2, SourceKept
  <1>4. avg_in' \in Seq(SentSlot) /\ Len(avg_in') <= FreqLength
    BY <1>1, Taken DEF StreamsInv, Averager, AvgStart, AvgRun, AvgStop, AvgStopped,
       AvgExit, AvgTakes
  <1>5. ASSUME relay_in' \in Seq(Output) /\ Len(relay_in') <= OutLength,
               average' \in Seq(SentChunk),
               spectrum' \in Seq(SentChunk \cup {NoChunk}), spectrum' # <<>>,
               f_input_counter' = Len(average')
        PROVE  StreamsInv' /\ SpectraInv'
    BY <1>1, <1>2, <1>4, <1>5, StreamsGrow, SpectraGrow DEF Grows, StreamsInv, SpectraInv
  <1>6. ASSUME NEW x \in Output, PushOut(x)
        PROVE  relay_in' \in Seq(Output) /\ Len(relay_in') <= OutLength
    BY <1>1, <1>6, Pushed DEF PushOut, StreamsInv
  <1>7. <<>> \in Seq(SentChunk) /\ Len(<<>>) = 0
    BY EmptySeq
  <1>8. relay_in \in Seq(Output) /\ Len(relay_in) <= OutLength
    BY <1>1 DEF StreamsInv
  <1>9. ASSUME NEW group \in Seq(SentChunk), group # <<>>, SendOutput(group)
        PROVE  StreamsInv' /\ SpectraInv'
    <2>1. [command |-> "s_run", group |-> group] \in Output
      BY <1>9 DEF Output
    <2>2. group \in Seq(SentChunk \cup {NoChunk})
      BY LargerSet
    <2>3. relay_in' \in Seq(Output) /\ Len(relay_in') <= OutLength
      BY <1>6, <1>9, <2>1 DEF SendOutput
    <2>4. spectrum' = group /\ average' = <<>> /\ f_input_counter' = 0
      BY <1>9 DEF SendOutput
    <2> QED BY <1>5, <1>7, <1>9, <2>2, <2>3, <2>4
  <1>10. CASE AvgStart
    <2>1. PushOut(Command("s_start")) /\ average' = <<>> /\ f_input_counter' = 0
          /\ UNCHANGED spectrum
      BY <1>10 DEF AvgStart
    <2> QED BY <1>1, <1>3, <1>5, <1>6, <1>7, <2>1, NoCommandChunk DEF SpectraInv
  <1>11. CASE AvgRun
    <2> DEFINE group == Append(average, Head(avg_in).chunk)
    <2>1. Head(avg_in) \in SentSlot /\ Head(avg_in).command = "s_run"
      BY <1>1, <1>11, Taken DEF AvgRun, AvgTakes, StreamsInv
    <2>2. Head(avg_in).chunk \in SentChunk
      BY <2>1 DEF SentSlot
    <2>3. /\ group \in Seq(SentChunk) /\ group # <<>> /\ Len(group) = Len(average) + 1
          /\ f_input_counter = Len(average)
      BY <1>1, <2>2, AppendProperties DEF SpectraInv
    <2>4. CASE f_input_counter + 1 = NumToAverage
      <3>1. SendOutput(group)
        BY <1>11, <2>4 DEF AvgRun
      <3> QED BY <1>3, <1>9, <2>3, <3>1
    <2>5. CASE f_input_counter + 1 # NumToAverage
      <3>1. average' = group /\ f_input_counter' = f_input_counter + 1
            /\ UNCHANGED <<relay_in, spectrum>>
        BY <1>11, <2>5 DEF AvgRun
      <3> HIDE DEF group
      <3> QED BY <1>1, <1>3, <1>5, <1>8, <2>3, <3>1 DEF SpectraInv
    <2> QED BY <2>4, <2>5
  <1>12. CASE AvgStop
    <2>1. CASE f_input_counter > 0
      <3>1. SendOutput(average)
        BY <1>12, <2>1 DEF AvgStop
      <3>2. average \in Seq(SentChunk) /\ average # <<>>
        BY <1>1, <1>7, <2>1 DEF SpectraInv
      <3> QED BY <1>3, <1>9, <3>1, <3>2
    <2>2. CASE ~(f_input_counter > 0)
      <3>1. UNCHANGED <<relay_in, average, f_input_counter, spectrum>>
        BY <1>12, <2>2 DEF AvgStop
      <3> QED BY <1>1, <1>3, <1>5, <1>8, <3>1 DEF SpectraInv
    <2> QED BY <2>1, <2>2
  <1>13. CASE AvgStopped
    <2>1. PushOut(Command("s_stop")) /\ UNCHANGED <<average, f_input_counter, spectrum>>
      BY <1>13 DEF AvgStopped
    <2> QED BY <1>1, <1>3, <1>5, <1>6, <2>1, NoCommandChunk DEF SpectraInv
  <1>14. CASE AvgExit
    BY <1>1, <1>3, <1>5, <1>8, <1>14 DEF AvgExit, SpectraInv
  <1> QED BY <1>10, <1>11, <1>12, <1>13, <1>14 DEF Averager

LEMMA RelayTypes ==
    ASSUME TypesInv, Grows, Relay
    PROVE  SourceInv' /\ StreamsInv' /\ SpectraInv'
  <1> USE Bounds
  <1>1. SourceInv /\ StreamsInv /\ SpectraInv
    BY DEF TypesInv
  <1>2. UNCHANGED <<source, sent, fft_in, avg_in, writer_in, average, f_input_counter,
                    spectrum>>
    BY DEF Relay, source_vars, avg_vars
  <1>3. SourceInv'
    BY <1>1, <1>2, SourceKept
  <1>4. relay_in' \in Seq(Output) /\ Len(relay_in') <= OutLength
    <2>1. UNCHANGED relay_in \/ (relay_in # <<>> /\ relay_in' = Tail(relay_in))
      BY DEF Relay, RelayDescription, RelayDuration, RelayValues, RelayOther, RelayExit,
         RelayTakes
    <2> QED BY <1>1, <2>1, Taken DEF StreamsInv
  <1>5. StreamsInv'
    BY <1>1, <1>2, <1>4, StreamsGrow DEF Grows, StreamsInv
  <1>6. ASSUME pc_relay' \in {"loop", "duration", "values", "done"},
               broadcast'.chunk \in SentChunk \cup {NoChunk},
               pc_relay' \in {"duration", "values"} => broadcast'.chunk \in SentChunk
        PROVE  SpectraInv'
    BY <1>1, <1>2, <1>6, SpectraGrow DEF Grows, SpectraInv
  <1>7. CASE RelayDescription
    <2>1. /\ relay_in # <<>> /\ Head(relay_in).command = "s_run" /\ pc_relay' = "duration"
          /\ broadcast'.chunk = Head(relay_in).group[Len(Head(relay_in).group)]
      BY <1>7 DEF RelayDescription
    <2>2. Head(relay_in) \in Output
      BY <1>1, <2>1, Taken DEF StreamsInv
    <2>3. Head(relay_in).group \in Seq(SentChunk) /\ Head(relay_in).group # <<>>
      BY <2>1, <2>2 DEF Output
    <2>4. Head(relay_in).group[Len(Head(relay_in).group)] \in SentChunk
      BY <2>3, EmptySeq, ElementOfSeq, LenProperties
    <2> QED BY <1>3, <1>5, <1>6, <2>1, <2>4
  <1>8. CASE RelayDuration
    <2>1. broadcast'.chunk = broadcast.chunk /\ pc_relay = "duration" /\ pc_relay' = "values"
      BY <1>8 DEF RelayDuration
    <2> QED BY <1>1, <1>3, <1>5, <1>6, <2>1 DEF SpectraInv
  <1>9. CASE RelayValues \/ RelayOther \/ RelayExit
    <2>1. broadcast'.chunk = broadcast.chunk
      <3>1. CASE RelayValues
        BY <3>1 DEF RelayValues
      <3>2. CASE RelayOther \/ RelayExit
        BY <3>2 DEF RelayOther, RelayExit
      <3> QED BY <1>9, <3>1, <3>2
    <2>2. pc_relay' \in {"loop", "done"}
      BY <1>9 DEF RelayValues, RelayOther, RelayExit, RelayTakes
    <2> QED BY <1>1, <1>3, <1>5, <1>6, <2>1, <2>2 DEF SpectraInv
  <1> QED BY <1>7, <1>8, <1>9 DEF Relay

LEMMA WriterTypes ==
    ASSUME TypesInv, Grows, NEW w \in Writers, Writer(w)
    PROVE  SourceInv' /\ StreamsInv' /\ SpectraInv'
  <1> USE Bounds
  <1>1. SourceInv /\ StreamsInv /\ SpectraInv
    BY DEF TypesInv
  <1>2. SourceInv' /\ SpectraInv'
    BY <1>1, WriterSteps, SourceKept, SpectraGrow DEF Grows, SpectraInv
  <1>3. /\ writer_in' \in [Writers -> Seq(SentSlot)]
        /\ \A v \in Writers : Len(writer_in'[v]) <= FreqLength
    <2>1. ASSUME NEW c, WriterTakes(w, c)
          PROVE  /\ writer_in' \in [Writers -> Seq(SentSlot)]
                 /\ \A v \in Writers : Len(writer_in'[v]) <= FreqLength
      <3>1. /\ writer_in' = [writer_in EXCEPT ![w] = Tail(writer_in[w])]
            /\ writer_in[w] # <<>> /\ writer_in[w] \in Seq(SentSlot)
            /\ Len(writer_in[w]) <= FreqLength
        BY <1>1, <2>1 DEF WriterTakes, StreamsInv
      <3>2. Tail(writer_in[w]) \in Seq(SentSlot) /\ Len(Tail(writer_in[w])) <= FreqLength
        BY <3>1, Taken
      <3> QED BY <1>1, <3>1, <3>2 DEF StreamsInv
    <2> QED BY <1>1, <2>1 DEF StreamsInv, Writer, WriterStart, WriterRun, WriterStop,
            WriterExit
  <1>4. StreamsInv'
    BY <1>1, <1>3, WriterSteps, StreamsGrow DEF Grows, StreamsInv
  <1> QED BY <1>2, <1>4

LEMMA TypesStep == ASSUME TypesInv, [Next]_vars PROVE TypesInv' /\ Grows /\ run <= run'
  <1>1. FilesInv /\ SourceInv /\ StreamsInv /\ SpectraInv
    BY DEF TypesInv
  <1>2. FilesInv'
    BY <1>1, EveryStep DEF FilesStep
  <1>3. ControlTypes'
    BY <1>2, ControlTypesStep
  <1>4. Grows /\ run <= run'
    BY <1>1, <1>2, LatestGrows DEF Grows, FilesInv
  <1>5. CASE UNCHANGED path_vars
    <2>1. SourceInv'
      BY <1>1, <1>4, <1>5, PathVars, SourceKept
    <2>2. StreamsInv'
      BY <1>1, <1>4, <1>5, PathVars, StreamsGrow DEF Grows, StreamsInv
    <2>3. SpectraInv'
      BY <1>1, <1>4, <1>5, PathVars, SpectraGrow DEF Grows, SpectraInv
    <2> QED BY <2>1, <2>2, <2>3, <1>2, <1>3, <1>4 DEF TypesInv
  <1>6. CASE Source \/ Fft \/ Averager \/ Relay \/ \E w \in Writers : Writer(w)
    BY <1>2, <1>3, <1>4, <1>6, SourceTypes, FftTypes, AveragerTypes, RelayTypes,
       WriterTypes DEF TypesInv
  <1> QED BY <1>5, <1>6, NextSteps, AllVars

-----------------------------------------------------------------------------
(* The order of the data.                                                  *)

\* What the digitizer would send next.
Coming ==
    IF source = 0 THEN Command("s_start")
    ELSE Data([run |-> source, number |-> NextNumber])

Behind(q) == Line(q, fft_in, Coming)

\* The last chunk that the averager has taken.
LastTaken == IF average = <<>> THEN spectrum[Len(spectrum)] ELSE average[Len(average)]

\* Chunk c goes on where spectrum s ends, or begins a later run.
AfterSpectrum(s, c) ==
    \/ /\ c.run = s[Len(s)].run /\ c.number = s[Len(s)].number + 1
       /\ Len(s) = NumToAverage
    \/ c.run > s[Len(s)].run /\ c.number = 1

\* Chunk c goes on where the sum a after spectrum s ends.
Joins(a, s, c) ==
    IF a = <<>> THEN AfterSpectrum(s, c)
    ELSE c.run = a[Len(a)].run /\ c.number = a[Len(a)].number + 1

\* What is summed up is a row of chunks of one run, and less than a spectrum.
SumInv ==
    /\ \A i \in 1 .. Len(spectrum) : spectrum[i].run = spectrum[Len(spectrum)].run
    /\ \A i \in 1 .. Len(average) :
           /\ average[i].run = average[1].run
           /\ average[i].number = average[1].number + (i - 1)
    /\ average # <<>> => AfterSpectrum(spectrum, average[1])
    /\ NumToAverage > 0 => Len(average) < NumToAverage

AverageOrder ==
    LET b == Behind(avg_in) IN
    /\ Orderly(b, Latest) /\ Later(b, LastTaken.run)
    /\ IsData(b[1]) => Joins(average, spectrum, b[1].chunk)
    /\ b[1].command = "s_start" => average = <<>>

\* A writer has a stream in a file of the run when data come.
WriterOrder(w) ==
    LET b == Behind(writer_in[w]) IN
    /\ Orderly(b, Latest)
    /\ IsData(b[1]) => swrap[w] = run /\ run # 0
    /\ swrap[w] # 0 =>
           swrap[w] = run /\ monarch_ptr[w] = run /\ <<w, run>> \in streaming

\* Chunk c is the last in the slots t, or the one before them if t has none.
Ends(t, before, c) ==
    \/ \E i \in 1 .. Len(t) :
           /\ IsData(t[i]) /\ t[i].chunk = c
           /\ \A j \in i + 1 .. Len(t) : ~IsData(t[j])
    \/ (\A j \in 1 .. Len(t) : ~IsData(t[j])) /\ before = c

\* The averager has taken, or has before it, all chunks up to the last sent.
SentOrder == Ends(avg_in \o fft_in, LastTaken, sent)

OrderInv ==
    ~canceled => AverageOrder /\ SentOrder /\ \A w \in Writers : WriterOrder(w)

RunsInv == TypesInv /\ SumInv /\ OrderInv

-----------------------------------------------------------------------------
LEMMA Slots ==
    ASSUME TypesInv
    PROVE  /\ fft_in \in Seq(Slot) /\ avg_in \in Seq(Slot)
           /\ \A w \in Writers : writer_in[w] \in Seq(Slot)
           /\ Coming \in Slot /\ sent \in SomeChunk
           /\ NextNumber \in Nat \ {0} /\ source \in 0 .. Latest /\ Latest \in Nat
           /\ sent.run <= Latest
  <1>1. SentChunk \subseteq SomeChunk
    BY Bounds DEF SentChunk, SomeChunk
  <1>2. SentSlot \subseteq Slot
    BY <1>1 DEF SentSlot, Slot
  <1>3. fft_in \in Seq(Slot) /\ avg_in \in Seq(Slot)
        /\ \A w \in Writers : writer_in[w] \in Seq(Slot)
    BY <1>2, LargerSet DEF TypesInv, StreamsInv
  <1>4. Latest \in Nat /\ source \in 0 .. Latest /\ sent \in SentChunk \cup {NoChunk}
    BY LatestRun DEF TypesInv, SourceInv
  <1>5. sent \in SomeChunk /\ sent.run <= Latest
    BY <1>1, <1>4 DEF NoChunk, SomeChunk, SentChunk
  <1>6. NextNumber \in Nat \ {0}
    BY <1>5 DEF NextNumber, SomeChunk
  <1>7. [run |-> source, number |-> NextNumber] \in SomeChunk
    BY <1>4, <1>6 DEF SomeChunk
  <1>8. Coming \in Slot
    BY <1>7 DEF Coming, Command, Data, Slot
  <1> QED BY <1>3, <1>4, <1>5, <1>6, <1>8

LEMMA Taking ==
    ASSUME TypesInv
    PROVE  /\ LastTaken \in SomeChunk /\ LastTaken.run <= Latest
           /\ spectrum \in Seq(SomeChunk) /\ spectrum # <<>>
           /\ spectrum[Len(spectrum)] \in SomeChunk
           /\ average \in Seq(SomeChunk) /\ f_input_counter = Len(average)
           /\ Len(average) \in Nat /\ (average = <<>> <=> Len(average) = 0)
           /\ average # <<>> => average[Len(average)] \in SomeChunk
  <1>1. /\ average \in Seq(SentChunk) /\ spectrum \in Seq(SentChunk \cup {NoChunk})
        /\ spectrum # <<>> /\ f_input_counter = Len(average) /\ Latest \in Nat
    BY LatestRun DEF TypesInv, SpectraInv
  <1>2. SentChunk \subseteq SomeChunk /\ SentChunk \cup {NoChunk} \subseteq SomeChunk
    BY Bounds DEF SentChunk, SomeChunk, NoChunk
  <1>3. average \in Seq(SomeChunk) /\ spectrum \in Seq(SomeChunk)
    BY <1>1, <1>2, LargerSet
  <1>4. /\ Len(average) \in Nat /\ (average = <<>> <=> Len(average) = 0)
        /\ Len(spectrum) \in 1 .. Len(spectrum)
        /\ average # <<>> => Len(average) \in 1 .. Len(average)
    BY <1>1, EmptySeq, LenProperties
  <1>5. /\ spectrum[Len(spectrum)] \in SentChunk \cup {NoChunk}
        /\ average # <<>> => average[Len(average)] \in SentChunk
    BY <1>1, <1>4, ElementOfSeq
  <1>6. LastTaken \in SentChunk \cup {NoChunk}
    BY <1>5 DEF LastTaken
  <1>7. \A c \in SentChunk \cup {NoChunk} : c.run <= Latest
    BY <1>1 DEF SentChunk, NoChunk
  <1> QED BY <1>1, <1>2, <1>3, <1>4, <1>5, <1>6, <1>7

-----------------------------------------------------------------------------
(* The last chunk of a line.                                               *)

LEMMA EndsAppend ==
    ASSUME NEW t \in Seq(Slot), NEW x \in Slot, NEW b, NEW c
    PROVE  /\ IsData(x) => Ends(Append(t, x), b, x.chunk)
           /\ ~IsData(x) /\ Ends(t, b, c) => Ends(Append(t, x), b, c)
  <1> DEFINE a == Append(t, x)
  <1>1. /\ Len(t) \in Nat /\ Len(a) = Len(t) + 1
        /\ \A i \in 1 .. Len(t) : a[i] = t[i]
        /\ a[Len(t) + 1] = x
    BY Appended
  <1> HIDE DEF a
  <1>2. ASSUME IsData(x) PROVE Ends(a, b, x.chunk)
    <2>1. Len(t) + 1 \in 1 .. Len(a) /\ \A j \in (Len(t) + 1) + 1 .. Len(a) : FALSE
      BY <1>1
    <2> QED BY <1>1, <1>2, <2>1 DEF Ends
  <1>3. ASSUME ~IsData(x), Ends(t, b, c) PROVE Ends(a, b, c)
    <2>1. \A j \in 1 .. Len(a) : j \in 1 .. Len(t) \/ j = Len(t) + 1
      BY <1>1
    <2>2. CASE \A j \in 1 .. Len(t) : ~IsData(t[j])
      <3>1. \A j \in 1 .. Len(a) : ~IsData(a[j])
        BY <1>1, <1>3, <2>1, <2>2
      <3>3. b = c
        BY <1>3, <2>2 DEF Ends
      <3> QED BY <3>1, <3>3 DEF Ends
    <2>3. CASE ~(\A j \in 1 .. Len(t) : ~IsData(t[j]))
      <3>1. PICK i \in 1 .. Len(t) : /\ IsData(t[i]) /\ t[i].chunk = c
                                     /\ \A j \in i + 1 .. Len(t) : ~IsData(t[j])
        BY <1>3, <2>3 DEF Ends
      <3>2. i \in 1 .. Len(a) /\ a[i] = t[i]
        BY <1>1
      <3>3. ASSUME NEW j \in i + 1 .. Len(a) PROVE ~IsData(a[j])
        <4>1. j \in i + 1 .. Len(t) \/ j = Len(t) + 1
          BY <1>1
        <4>2. j \in i + 1 .. Len(t) => a[j] = t[j]
          BY <1>1
        <4> QED BY <1>1, <1>3, <3>1, <4>1, <4>2
      <3> QED BY <3>1, <3>2, <3>3 DEF Ends
    <2> QED BY <2>2, <2>3
  <1> QED BY <1>2, <1>3 DEF a

LEMMA EndsTail ==
    ASSUME NEW t \in Seq(Slot), t # <<>>, NEW b, NEW c, Ends(t, b, c)
    PROVE  Ends(Tail(t), IF IsData(t[1]) THEN t[1].chunk ELSE b, c)
  <1> DEFINE u == Tail(t)
             d == IF IsData(t[1]) THEN t[1].chunk ELSE b
  <1>0. /\ Len(t) \in Nat \ {0} /\ Len(u) = Len(t) - 1
        /\ \A i \in 1 .. Len(t) - 1 : u[i] = t[i + 1]
    BY HeadIsFirst
  <1>1. /\ Len(t) \in Nat \ {0} /\ Len(u) = Len(t) - 1
        /\ \A i \in 1 .. Len(u) : u[i] = t[i + 1] /\ i + 1 \in 1 .. Len(t)
        /\ 1 \in 1 .. Len(t)
    BY <1>0
  <1> HIDE DEF u
  <1>2. CASE \A j \in 1 .. Len(t) : ~IsData(t[j])
    <2>1. \A j \in 1 .. Len(u) : ~IsData(u[j])
      BY <1>1, <1>2
    <2>2. d = b /\ b = c
      BY <1>1, <1>2 DEF Ends
    <2> QED BY <2>1, <2>2 DEF Ends, u
  <1>3. CASE ~(\A j \in 1 .. Len(t) : ~IsData(t[j]))
    <2>1. PICK i \in 1 .. Len(t) : /\ IsData(t[i]) /\ t[i].chunk = c
                                   /\ \A j \in i + 1 .. Len(t) : ~IsData(t[j])
      BY <1>3 DEF Ends
    <2>2. CASE i = 1
      <3>1. d = c
        BY <2>1, <2>2
      <3>2. \A j \in 1 .. Len(u) : j + 1 \in i + 1 .. Len(t)
        BY <1>1, <2>2
      <3>3. \A j \in 1 .. Len(u) : ~IsData(u[j])
        BY <1>1, <2>1, <3>2
      <3> QED BY <3>1, <3>3 DEF Ends, u
    <2>3. CASE i # 1
      <3>1. i - 1 \in 1 .. Len(u) /\ (i - 1) + 1 = i
        BY <1>1, <2>3
      <3>2. u[i - 1] = t[i]
        BY <1>1, <3>1
      <3>3. ASSUME NEW j \in (i - 1) + 1 .. Len(u) PROVE ~IsData(u[j])
        <4>1. j \in 1 .. Len(u) /\ j + 1 \in i + 1 .. Len(t)
          BY <1>1, <3>1
        <4> QED BY <1>1, <2>1, <4>1
      <3>4. \E k \in 1 .. Len(u) : /\ IsData(u[k]) /\ u[k].chunk = c
                                   /\ \A j \in k + 1 .. Len(u) : ~IsData(u[j])
        BY <2>1, <3>1, <3>2, <3>3
      <3>5. Ends(u, d, c)
        BY <3>4 DEF Ends
      <3> QED BY <3>5 DEF u
    <2> QED BY <2>2, <2>3
  <1> QED BY <1>2, <1>3

-----------------------------------------------------------------------------
(* Run control changes nothing in the streams, and a run is launched and   *)
(* gets its files when no writer has a stream.                             *)

LEMMA ControlOrder ==
    ASSUME RunsInv, Grows, Control, UNCHANGED path_vars PROVE OrderInv'
  <1> SUFFICES ASSUME ~canceled' PROVE OrderInv'
    BY DEF OrderInv
  <1>1. ~canceled /\ TypesInv /\ FilesInv
    BY ControlRuns DEF RunsInv, TypesInv
  <1>2. AverageOrder /\ SentOrder /\ \A w \in Writers : WriterOrder(w)
    BY <1>1 DEF RunsInv, OrderInv
  <1>3. UNCHANGED <<source, sent, fft_in, avg_in, average, spectrum, writer_in, swrap>>
    BY PathVars
  <1>4. UNCHANGED <<Coming, LastTaken>>
    BY <1>3 DEF Coming, LastTaken, NextNumber
  <1>5. ASSUME NEW q \in Seq(Slot)
        PROVE  /\ Behind(q)' = Behind(q)
               /\ Orderly(Behind(q), Latest) => Orderly(Behind(q), Latest')
    <2>1. Behind(q) \in Seq(Slot)
      BY <1>1, Slots, LineSlots DEF Behind
    <2> QED BY <1>3, <1>4, <2>1, OrderlyGrows DEF Behind, Grows
  <1>6. AverageOrder'
    <2>1. avg_in \in Seq(Slot)
      BY <1>1, Slots
    <2>2. /\ Orderly(Behind(avg_in), Latest') /\ Behind(avg_in)' = Behind(avg_in)
      BY <1>2, <1>3, <1>4, <1>5, <2>1 DEF AverageOrder, Behind
    <2> QED BY <1>2, <1>3, <1>4, <2>2 DEF AverageOrder
  <1>7. SentOrder'
    BY <1>2, <1>3, <1>4 DEF SentOrder
  <1>8. \/ UNCHANGED <<run, monarch_ptr, streaming>>
        \/ UNCHANGED streaming /\ streaming = {}
    <2>1. CASE Registration
      BY <2>1 DEF Registration, RegisterWriter, UnregisterWriter, Activate, house_vars
    <2>2. CASE Client
      <3>1. CASE StartRun
        BY <1>1, <3>1 DEF StartRun, Requesting, FilesInv, Without
      <3>2. CASE NewRequest \/ ApplySetting \/ SettingThrows \/ StartRunThrows
        BY <3>2 DEF NewRequest, ApplySetting, SettingThrows, StartRunThrows,
           DropRequest, Requesting, house_vars
      <3> QED BY <2>2, <3>1, <3>2 DEF Client, Request
    <2>3. CASE RunControl
      <3>1. CASE StartFiles
        BY <1>1, <3>1 DEF StartFiles, FilesInv, Without
      <3>2. CASE BeginFinishing \/ FinishFile \/ FinishNull
        BY <3>2 DEF BeginFinishing, FinishFile, FinishNull, Running, house_vars
      <3>3. CASE StartFilesFails \/ CancelAll \/ FinishFileThrows
        BY <3>3 DEF StartFilesFails, CancelAll, FinishFileThrows
      <3> QED BY <2>3, <3>1, <3>2, <3>3 DEF RunControl, Run
    <2> QED BY <2>1, <2>2, <2>3 DEF Control
  <1>9. ASSUME NEW w \in Writers PROVE WriterOrder(w)'
    <2>1. writer_in[w] \in Seq(Slot) /\ WriterOrder(w)
      BY <1>1, <1>2, Slots
    <2>2. /\ Orderly(Behind(writer_in[w]), Latest')
          /\ Behind(writer_in[w])' = Behind(writer_in[w])
      BY <1>3, <1>4, <1>5, <2>1 DEF WriterOrder, Behind
    <2>3. CASE UNCHANGED <<run, monarch_ptr, streaming>>
      BY <1>3, <2>1, <2>2, <2>3 DEF WriterOrder
    <2>4. CASE UNCHANGED streaming /\ streaming = {}
      <3>1. swrap[w] = 0
        BY <2>1, <2>4 DEF WriterOrder
      <3>2. ~IsData(Behind(writer_in[w])[1])
        BY <2>1, <3>1 DEF WriterOrder
      <3> QED BY <1>3, <2>2, <3>1, <3>2 DEF WriterOrder
    <2> QED BY <1>8, <2>3, <2>4
  <1> QED BY <1>6, <1>7, <1>9 DEF OrderInv

-----------------------------------------------------------------------------
(* The digitizer appends to every line.                                    *)

\* The line q, f, x becomes line b: it is in order still, and begins the same
\* unless x, that was not sent, was all.
LEMMA LineStart ==
    ASSUME NEW q \in Seq(Slot), NEW f \in Seq(Slot), NEW x \in Slot, NEW y \in Slot,
           NEW r \in Nat, NEW n \in Int, n <= r,
           x.command = "s_start", IsFirst(y), y.chunk.run = r + 1,
           Orderly(Line(q, f, x), r), Later(Line(q, f, x), n)
    PROVE  LET b == Line(q, Append(f, x), y) IN
           /\ Orderly(b, r + 1) /\ Later(b, n)
           /\ b[1] = Line(q, f, x)[1]
  <1> DEFINE a == Line(q, f, x)
  <1>1. Line(q, Append(f, x), y) = Append(a, y)
    BY LineSend
  <1>2. /\ a \in Seq(Slot) /\ a # <<>> /\ a[Len(a)] = x /\ Len(a) \in Nat
    BY LineSlots
  <1>3. Orderly(a, r) /\ Later(a, n)
    OBVIOUS
  <1> HIDE DEF a
  <1>4. Orderly(a, r + 1)
    BY <1>2, <1>3, OrderlyGrows
  <1>5. May(a[Len(a)], y) /\ IsData(y)
    BY <1>2 DEF May, IsFirst, IsData
  <1>6. \A i \in 1 .. Len(a) : IsData(a[i]) => a[i].chunk.run < y.chunk.run
    <2> SUFFICES ASSUME NEW i \in 1 .. Len(a), IsData(a[i])
                 PROVE  a[i].chunk.run < r + 1
      OBVIOUS
    <2>1. a[i].chunk.run <= r /\ a[i] \in Slot
      BY <1>2, <1>3, ElementOfSeq DEF Orderly
    <2>2. a[i].chunk.run \in Nat
      BY <2>1 DEF Slot, SomeChunk, IsData
    <2> QED BY <2>1, <2>2
  <1>7. y.chunk.run <= r + 1 /\ y.chunk.run > n
    OBVIOUS
  <1>8. Orderly(Append(a, y), r + 1)
    BY <1>2, <1>4, <1>5, <1>6, <1>7, OrderlyAppend
  <1>9. Later(Append(a, y), n)
    BY <1>2, <1>3, <1>7, LaterAppend
  <1>10. Append(a, y)[1] = a[1]
    BY <1>2, Appended
  <1> QED BY <1>1, <1>8, <1>9, <1>10 DEF a

LEMMA LineData ==
    ASSUME NEW q \in Seq(Slot), NEW f \in Seq(Slot), NEW x \in Slot, NEW y \in Slot,
           NEW r, NEW n, IsData(x), IsData(y), ~IsFirst(y),
           y.chunk.run = x.chunk.run, y.chunk.number = x.chunk.number + 1,
           x.chunk.run <= r,
           Orderly(Line(q, f, x), r), Later(Line(q, f, x), n)
    PROVE  LET b == Line(q, Append(f, x), y) IN
           /\ Orderly(b, r) /\ Later(b, n)
           /\ b[1] = Line(q, f, x)[1]
  <1> DEFINE a == Line(q, f, x)
  <1>1. Line(q, Append(f, x), y) = Append(a, y)
    BY LineSend
  <1>2. /\ a \in Seq(Slot) /\ a # <<>> /\ a[Len(a)] = x /\ Len(a) \in Nat
    BY LineSlots
  <1>3. Orderly(a, r) /\ Later(a, n)
    OBVIOUS
  <1> HIDE DEF a
  <1>4. May(a[Len(a)], y)
    BY <1>2 DEF May, IsData
  <1>5. Orderly(Append(a, y), r)
    BY <1>2, <1>3, <1>4, OrderlyAppend
  <1>6. Later(Append(a, y), n)
    BY <1>2, <1>3, LaterAppend
  <1>7. Append(a, y)[1] = a[1]
    BY <1>2, Appended
  <1> QED BY <1>1, <1>5, <1>6, <1>7 DEF a

LEMMA LineStop ==
    ASSUME NEW q \in Seq(Slot), NEW f \in Seq(Slot), NEW x \in Slot, NEW z \in Slot,
           NEW y \in Slot, NEW r, NEW n,
           z.command = "s_stop", y.command = "s_start",
           Orderly(Line(q, f, x), r), Later(Line(q, f, x), n)
    PROVE  LET b == Line(q, Append(f, z), y) IN
           /\ Orderly(b, r) /\ Later(b, n)
           /\ b[1] = Line(q, f, x)[1] \/ b[1] = z
  <1> DEFINE t == q \o f
             c == Append(t, z)
  <1>1. t \in Seq(Slot) /\ Line(q, f, x) = Append(t, x)
        /\ Line(q, Append(f, z), y) = Append(c, y)
    <2>1. t \in Seq(Slot)
      BY ConcatProperties
    <2>2. Line(q, Append(f, z), y) = Append(Line(q, f, z), y)
      BY LineSend
    <2> QED BY <2>1, <2>2 DEF Line
  <1>2. Orderly(Append(t, x), r) /\ Later(Append(t, x), n)
    BY <1>1
  <1> HIDE DEF t
  <1>3. Orderly(t, r) /\ Later(t, n)
    BY <1>1, <1>2, OrderlyFront, LaterAppend
  <1>4. ~IsData(z) /\ ~IsFirst(z) /\ ~IsData(y) /\ ~IsFirst(y)
        /\ \A s : May(s, z)
        /\ May(z, y)
    BY DEF IsData, IsFirst, May
  <1>5. Orderly(c, r) /\ Later(c, n)
    BY <1>1, <1>3, <1>4, OrderlyAppend, LaterAppend
  <1>6. c \in Seq(Slot) /\ c # <<>> /\ c[Len(c)] = z
    BY <1>1, Appended
  <1>7. c[1] = Append(t, x)[1] \/ c[1] = z
    BY <1>1, Appended
  <1> HIDE DEF c
  <1>8. Orderly(Append(c, y), r) /\ Later(Append(c, y), n)
    BY <1>4, <1>5, <1>6, OrderlyAppend, LaterAppend
  <1>9. Append(c, y)[1] = c[1]
    BY <1>6, Appended
  <1> QED BY <1>1, <1>7, <1>8, <1>9

\* What the digitizer does to any line, and to the last chunk of one.
LEMMA SourceLine ==
    ASSUME TypesInv, Grows, Source,
           NEW q \in Seq(Slot), NEW n \in Int, n <= Latest,
           Orderly(Behind(q), Latest), Later(Behind(q), n)
    PROVE  LET b == Line(q, fft_in', Coming') IN
           /\ Orderly(b, Latest') /\ Later(b, n)
           /\ b[1] = Behind(q)[1] \/ b[1].command = "s_stop"
  <1>1. /\ fft_in \in Seq(Slot) /\ Coming \in Slot /\ sent \in SomeChunk
        /\ NextNumber \in Nat \ {0} /\ source \in 0 .. Latest /\ Latest \in Nat
        /\ sent.run <= Latest
    BY Slots
  <1>2. UNCHANGED <<run, pc_run>>
    BY NodeSteps, ControlVars
  <1>3. /\ Command("s_start") \in Slot /\ Command("s_stop") \in Slot
        /\ Command("s_start").command = "s_start" /\ Command("s_stop").command = "s_stop"
    BY DEF Command, Slot
  <1>4. Behind(q) = Line(q, fft_in, Coming)
    BY DEF Behind
  <1>5. CASE /\ source = 0 /\ pc_run = "running" /\ source' = run
             /\ PushIn(Command("s_start")) /\ UNCHANGED sent
    <2> DEFINE y == Data([run |-> run, number |-> 1])
    <2>1. run > 0 /\ run \in Nat /\ Latest = run - 1 /\ Latest' = run
      BY <1>2, <1>5 DEF TypesInv, FilesInv, Latest
    <2>2. Coming' = y
      <3>1. sent'.run # source' /\ source' # 0
        BY <1>1, <1>5, <2>1 DEF SomeChunk
      <3> QED BY <1>5, <3>1 DEF Coming, NextNumber
    <2>3. y \in Slot /\ IsFirst(y) /\ y.chunk.run = Latest + 1
      BY <2>1 DEF Data, Slot, SomeChunk, IsFirst, IsData
    <2>4. Coming = Command("s_start") /\ fft_in' = Append(fft_in, Command("s_start"))
      BY <1>5 DEF Coming, PushIn
    <2> HIDE DEF y
    <2>5. Latest' = Latest + 1
      BY <2>1
    <2>6. LET b == Line(q, Append(fft_in, Command("s_start")), y) IN
          /\ Orderly(b, Latest + 1) /\ Later(b, n)
          /\ b[1] = Line(q, fft_in, Command("s_start"))[1]
      BY <1>1, <1>3, <1>4, <2>3, <2>4, LineStart
    <2> QED BY <1>4, <2>2, <2>4, <2>5, <2>6
  <1>6. CASE /\ source # 0 /\ NextNumber <= MaxChunks
             /\ sent' = [run |-> source, number |-> NextNumber]
             /\ PushIn(Data(sent')) /\ UNCHANGED source
    <2> DEFINE x == Data([run |-> source, number |-> NextNumber])
               y == Data([run |-> source, number |-> NextNumber + 1])
    <2>1. Latest' = Latest
      BY <1>2, <1>6 DEF Latest
    <2>2. Coming = x /\ fft_in' = Append(fft_in, x)
      BY <1>6 DEF Coming, PushIn
    <2>3. Coming' = y
      BY <1>6 DEF Coming, NextNumber
    <2>4. /\ x \in Slot /\ y \in Slot /\ IsData(x) /\ IsData(y) /\ ~IsFirst(y)
          /\ y.chunk.run = x.chunk.run /\ y.chunk.number = x.chunk.number + 1
          /\ x.chunk.run <= Latest
      BY <1>1 DEF Data, Slot, SomeChunk, IsData, IsFirst
    <2> HIDE DEF x, y
    <2>5. LET b == Line(q, Append(fft_in, x), y) IN
          /\ Orderly(b, Latest) /\ Later(b, n) /\ b[1] = Line(q, fft_in, x)[1]
      BY <1>1, <1>4, <2>2, <2>4, LineData
    <2> QED BY <1>4, <2>1, <2>2, <2>3, <2>5
  <1>7. CASE /\ source # 0 /\ pc_run # "running" /\ source' = 0
             /\ PushIn(Command("s_stop")) /\ UNCHANGED sent
    <2>1. Latest' = Latest
      BY <1>2, <1>7 DEF Latest
    <2>2. Coming' = Command("s_start") /\ fft_in' = Append(fft_in, Command("s_stop"))
      BY <1>7 DEF Coming, PushIn
    <2> QED BY <1>1, <1>3, <1>4, <2>1, <2>2, LineStop
  <1> QED BY <1>5, <1>6, <1>7 DEF Source

LEMMA SourceOrder ==
    ASSUME RunsInv, Grows, Source PROVE OrderInv'
  <1>1. /\ UNCHANGED <<run, canceled, streaming, monarch_ptr, avg_in, writer_in, average,
                       spectrum, swrap>>
        /\ ~canceled /\ TypesInv
    BY NodeSteps, ControlVars DEF Source, control_vars, avg_vars, RunsInv
  <1>2. AverageOrder /\ SentOrder /\ \A w \in Writers : WriterOrder(w)
    BY <1>1 DEF RunsInv, OrderInv
  <1>3. /\ fft_in \in Seq(Slot) /\ avg_in \in Seq(Slot)
        /\ \A w \in Writers : writer_in[w] \in Seq(Slot)
    BY <1>1, Slots
  <1>4. LastTaken' = LastTaken /\ LastTaken \in SomeChunk /\ LastTaken.run <= Latest
    BY <1>1, Taking DEF LastTaken
  <1>5. AverageOrder'
    <2>1. LET b == Line(avg_in, fft_in', Coming') IN
          /\ Orderly(b, Latest') /\ Later(b, LastTaken.run)
          /\ b[1] = Behind(avg_in)[1] \/ b[1].command = "s_stop"
      <3>1. LastTaken.run \in Nat
        BY <1>4 DEF SomeChunk
      <3> QED BY <1>1, <1>2, <1>3, <1>4, <3>1, SourceLine DEF AverageOrder
    <2>2. Behind(avg_in)' = Line(avg_in, fft_in', Coming')
      BY <1>1 DEF Behind
    <2> QED BY <1>1, <1>2, <1>4, <2>1, <2>2 DEF AverageOrder, IsData
  <1>6. ASSUME NEW w \in Writers PROVE WriterOrder(w)'
    <2>1. WriterOrder(w) /\ writer_in[w] \in Seq(Slot)
      BY <1>2, <1>3
    <2>2. LET b == Line(writer_in[w], fft_in', Coming') IN
          /\ Orderly(b, Latest')
          /\ b[1] = Behind(writer_in[w])[1] \/ b[1].command = "s_stop"
      <3>1. Later(Behind(writer_in[w]), -1)
        <4>1. Behind(writer_in[w]) \in Seq(Slot)
          BY <1>1, <2>1, Slots, LineSlots DEF Behind
        <4>2. \A x \in Slot : IsFirst(x) => x.chunk.run > -1
          BY DEF Slot, SomeChunk, IsFirst, IsData
        <4> QED BY <4>1, <4>2, ElementOfSeq DEF Later
      <3>2. -1 \in Int /\ -1 <= Latest
        BY DEF Grows
      <3> QED BY <1>1, <2>1, <3>1, <3>2, SourceLine DEF WriterOrder
    <2>3. Behind(writer_in[w])' = Line(writer_in[w], fft_in', Coming')
      BY <1>1 DEF Behind
    <2> QED BY <1>1, <2>1, <2>2, <2>3 DEF WriterOrder, IsData
  <1>7. SentOrder'
    <2> DEFINE t == avg_in \o fft_in
    <2>1. t \in Seq(Slot)
      BY <1>3, ConcatProperties
    <2>2. ASSUME NEW x \in Slot, PushIn(x)
          PROVE  (avg_in \o fft_in)' = Append(t, x)
      BY <1>1, <1>3, <2>2, AppendBehind DEF PushIn
    <2> HIDE DEF t
    <2>3. Ends(t, LastTaken, sent)
      BY <1>2 DEF SentOrder, t
    <2>4. CASE UNCHANGED sent /\ \E c \in {"s_start", "s_stop"} : PushIn(Command(c))
      <3>1. PICK c \in {"s_start", "s_stop"} : PushIn(Command(c))
        BY <2>4
      <3>2. Command(c) \in Slot /\ ~IsData(Command(c))
        BY DEF Command, Slot, IsData
      <3> QED BY <1>4, <2>1, <2>2, <2>3, <2>4, <3>1, <3>2, EndsAppend DEF SentOrder
    <2>5. CASE PushIn(Data(sent')) /\ sent' = [run |-> source, number |-> NextNumber]
      <3>1. Data(sent') \in Slot /\ IsData(Data(sent')) /\ Data(sent').chunk = sent'
        <4>1. sent' \in SomeChunk
          BY <1>1, <2>5, Slots DEF SomeChunk
        <4> QED BY <4>1 DEF Data, Slot, IsData
      <3>2. (avg_in \o fft_in)' = Append(t, Data(sent'))
        BY <2>2, <2>5, <3>1
      <3>3. Ends(Append(t, Data(sent')), LastTaken, sent')
        BY <2>1, <3>1, EndsAppend
      <3> QED BY <1>4, <3>2, <3>3 DEF SentOrder
    <2> QED BY <2>4, <2>5 DEF Source
  <1> QED BY <1>5, <1>6, <1>7 DEF OrderInv

-----------------------------------------------------------------------------
(* The transform and the relay leave every line as it is.                  *)

LEMMA FftOrder ==
    ASSUME RunsInv, Fft PROVE OrderInv'
  <1> SUFFICES ASSUME ~canceled' PROVE OrderInv'
    BY DEF OrderInv
  <1>1. /\ FftPass /\ ~canceled /\ fft_in # <<>> /\ fft_in' = Tail(fft_in)
        /\ avg_in' = Append(avg_in, Head(fft_in))
        /\ writer_in' = [w \in Writers |-> Append(writer_in[w], Head(fft_in))]
        /\ UNCHANGED <<run, pc_run, streaming, monarch_ptr, source, sent, average,
                       spectrum, swrap>>
    BY NodeSteps, ControlVars DEF Fft, FftPass, FftExit, PushSpectrum, FftUnchanged,
       control_vars, source_vars, avg_vars
  <1>2. TypesInv /\ AverageOrder /\ SentOrder /\ \A w \in Writers : WriterOrder(w)
    BY <1>1 DEF RunsInv, OrderInv
  <1>3. /\ fft_in \in Seq(Slot) /\ avg_in \in Seq(Slot)
        /\ \A w \in Writers : writer_in[w] \in Seq(Slot)
    BY <1>2, Slots
  <1>4. UNCHANGED <<Coming, LastTaken, Latest>>
    BY <1>1 DEF Coming, NextNumber, LastTaken, Latest
  <1>5. Behind(avg_in)' = Behind(avg_in)
    BY <1>1, <1>3, <1>4, LineMove DEF Behind
  <1>6. AverageOrder'
    BY <1>1, <1>2, <1>4, <1>5 DEF AverageOrder
  <1>7. ASSUME NEW w \in Writers PROVE WriterOrder(w)'
    <2>1. writer_in[w] \in Seq(Slot) /\ writer_in'[w] = Append(writer_in[w], Head(fft_in))
      BY <1>1, <1>3
    <2>2. Behind(writer_in[w])' = Behind(writer_in[w])
      BY <1>1, <1>3, <1>4, <2>1, LineMove DEF Behind
    <2> QED BY <1>1, <1>2, <1>4, <2>2 DEF WriterOrder
  <1>8. SentOrder'
    <2>1. (avg_in \o fft_in)' = avg_in \o fft_in
      BY <1>1, <1>3, MoveOn
    <2> QED BY <1>1, <1>2, <1>4, <2>1 DEF SentOrder
  <1> QED BY <1>6, <1>7, <1>8 DEF OrderInv

\* Steps that change none of what the lines and the averager hold.
LEMMA OrderKept ==
    ASSUME OrderInv,
           UNCHANGED <<run, pc_run, streaming, monarch_ptr, source, sent, fft_in, avg_in,
                       average, spectrum, writer_in, swrap, canceled>>
    PROVE  OrderInv'
  <1>1. UNCHANGED <<Coming, LastTaken, Latest>>
    BY DEF Coming, NextNumber, LastTaken, Latest
  <1>2. ~canceled => AverageOrder' /\ SentOrder'
    BY <1>1 DEF OrderInv, AverageOrder, SentOrder, Behind
  <1>3. ASSUME NEW w \in Writers, ~canceled PROVE WriterOrder(w)'
    BY <1>1, <1>3 DEF OrderInv, WriterOrder, Behind
  <1> QED BY <1>2, <1>3 DEF OrderInv

-----------------------------------------------------------------------------
(* The averager.                                                           *)

\* A node takes the first slot of its line.
LEMMA TakeOrder ==
    ASSUME TypesInv, NEW q \in Seq(Slot), q # <<>>, Orderly(Behind(q), Latest)
    PROVE  /\ Behind(q)[1] = Head(q) /\ Head(q) \in Slot
           /\ Behind(Tail(q)) \in Seq(Slot)
           /\ 1 \in 1 .. Len(Behind(Tail(q)))
           /\ Orderly(Behind(Tail(q)), Latest)
           /\ May(Head(q), Behind(Tail(q))[1])
           /\ IsData(Head(q)) => /\ Head(q).chunk.run <= Latest
                                 /\ Later(Behind(Tail(q)), Head(q).chunk.run)
           /\ \A n : Later(Behind(q), n) => Later(Behind(Tail(q)), n)
  <1> DEFINE a == Line(q, fft_in, Coming)
             b == Line(Tail(q), fft_in, Coming)
  <1>1. fft_in \in Seq(Slot) /\ Coming \in Slot /\ Tail(q) \in Seq(Slot)
    BY Slots, HeadIsFirst
  <1>2. /\ a \in Seq(Slot) /\ a # <<>> /\ a[1] = Head(q) /\ Head(q) \in Slot
        /\ b = Tail(a) /\ b # <<>> /\ b \in Seq(Slot)
    <2> DEFINE u == Tail(q)
    <2>1. a \in Seq(Slot) /\ a # <<>>
      BY <1>1, LineSlots
    <2>2. /\ a[1] = Head(q) /\ Head(q) \in Slot /\ b = Tail(a) /\ b # <<>>
      BY <1>1, LineTake
    <2> HIDE DEF u
    <2>3. Line(u, fft_in, Coming) \in Seq(Slot)
      <3>1. u \in Seq(Slot)
        BY <1>1 DEF u
      <3> QED BY <1>1, <3>1, LineSlots
    <2> QED BY <2>1, <2>2, <2>3 DEF u
  <1>3. Orderly(a, Latest) /\ Behind(q) = a /\ Behind(Tail(q)) = b
    BY DEF Behind
  <1> HIDE DEF a, b
  <1>4. /\ Orderly(b, Latest) /\ May(a[1], b[1])
        /\ IsData(a[1]) => a[1].chunk.run <= Latest /\ Later(b, a[1].chunk.run)
    BY <1>2, <1>3, OrderlyTail
  <1>5. \A n : Later(a, n) => Later(b, n)
    BY <1>2, LaterTail
  <1>6. 1 \in 1 .. Len(b)
    BY <1>2, EmptySeq
  <1> QED BY <1>2, <1>3, <1>4, <1>5, <1>6

\* The next chunk makes the sum a longer row.
LEMMA Sum ==
    ASSUME TypesInv, SumInv, NEW c \in SomeChunk, Joins(average, spectrum, c)
    PROVE  LET group == Append(average, c) IN
           /\ group \in Seq(SomeChunk) /\ group # <<>>
           /\ Len(group) = Len(average) + 1 /\ group[Len(group)] = c
           /\ \A i \in 1 .. Len(group) :
                  /\ group[i].run = group[1].run
                  /\ group[i].number = group[1].number + (i - 1)
           /\ AfterSpectrum(spectrum, group[1])
  <1> DEFINE group == Append(average, c)
  <1>0. average \in Seq(SomeChunk)
    BY Taking
  <1>1. /\ Len(average) \in Nat
        /\ group \in Seq(SomeChunk) /\ group # <<>>
        /\ Len(group) = Len(average) + 1 /\ group[Len(average) + 1] = c
        /\ \A i \in 1 .. Len(average) : group[i] = average[i]
        /\ average = <<>> <=> Len(average) = 0
    BY <1>0, Appended
  <1> HIDE DEF group
  <1>2. \A i \in 1 .. Len(average) :
            /\ average[i] \in SomeChunk /\ average[i].run = average[1].run
            /\ average[i].number = average[1].number + (i - 1)
    BY <1>0, <1>1, ElementOfSeq DEF SumInv
  <1>3. CASE average = <<>>
    <2>1. Len(group) = 1 /\ group[1] = c
      BY <1>1, <1>3
    <2>2. c.number = c.number + (1 - 1)
      BY DEF SomeChunk
    <2>3. AfterSpectrum(spectrum, c)
      BY <1>3 DEF Joins
    <2>4. \A i \in 1 .. Len(group) :
              group[i].run = group[1].run /\ group[i].number = group[1].number + (i - 1)
      BY <2>1, <2>2
    <2> QED BY <1>1, <2>1, <2>3, <2>4 DEF group
  <1>4. CASE average # <<>>
    <2>1. Len(average) \in 1 .. Len(average) /\ 1 \in 1 .. Len(average)
      BY <1>1, <1>4
    <2>2. group[1] = average[1] /\ AfterSpectrum(spectrum, average[1]) /\ average[1].number \in Nat
      BY <1>1, <1>2, <1>4, <2>1 DEF SumInv, SomeChunk
    <2>3. /\ c.run = average[1].run
          /\ c.number = average[1].number + ((Len(average) + 1) - 1)
      <3>1. c.run = average[Len(average)].run /\ c.number = average[Len(average)].number + 1
        BY <1>4 DEF Joins
      <3>2. /\ average[Len(average)].run = average[1].run
            /\ average[Len(average)].number = average[1].number + (Len(average) - 1)
        BY <1>2, <2>1
      <3> QED BY <1>1, <2>2, <3>1, <3>2
    <2>4. ASSUME NEW i \in 1 .. Len(group)
          PROVE  group[i].run = group[1].run /\ group[i].number = group[1].number + (i - 1)
      <3>1. CASE i = Len(average) + 1
        BY <1>1, <2>2, <2>3, <3>1
      <3>2. CASE i # Len(average) + 1
        <4>1. i \in 1 .. Len(average)
          BY <1>1, <3>2
        <4> QED BY <1>1, <1>2, <2>2, <4>1
      <3> QED BY <3>1, <3>2
    <2> QED BY <1>1, <2>2, <2>4 DEF group
  <1> QED BY <1>3, <1>4

\* A row of chunks that goes on where the last spectrum ends is a spectrum that
\* may follow it.
LEMMA RowFollows ==
    ASSUME TypesInv, SumInv, NEW group \in Seq(SomeChunk), group # <<>>,
           \A i \in 1 .. Len(group) :
               group[i].run = group[1].run /\ group[i].number = group[1].number + (i - 1),
           AfterSpectrum(spectrum, group[1]),
           NumToAverage > 0 => Len(group) <= NumToAverage
    PROVE  Follows(spectrum, group)
  <1>1. Consecutive(group)
    <2> SUFFICES ASSUME NEW i \in 2 .. Len(group)
                 PROVE  /\ group[i].run = group[i - 1].run
                        /\ group[i].number = group[i - 1].number + 1
      BY DEF Consecutive
    <2>1. /\ i \in 1 .. Len(group) /\ i - 1 \in 1 .. Len(group)
          /\ 1 \in 1 .. Len(group) /\ Len(group) \in Nat
      BY LenProperties
    <2>2. group[1].number \in Nat
      <3>1. group[1] \in SomeChunk
        BY <2>1, ElementOfSeq
      <3> QED BY <3>1 DEF SomeChunk
    <2>3. group[i].number = group[1].number + (i - 1)
          /\ group[i - 1].number = group[1].number + ((i - 1) - 1)
          /\ group[i].run = group[i - 1].run
      <3> HIDE DEF SomeChunk
      <3>1. group[i].run = group[1].run /\ group[i].number = group[1].number + (i - 1)
        BY <2>1
      <3>2. group[i - 1].run = group[1].run
            /\ group[i - 1].number = group[1].number + ((i - 1) - 1)
        BY <2>1
      <3> QED BY <3>1, <3>2
    <2>4. \A n \in Nat : n + (i - 1) = n + ((i - 1) - 1) + 1
      BY <2>1
    <2> QED BY <2>2, <2>3, <2>4
  <1>2. 1 \in 1 .. Len(spectrum)
    BY Taking, EmptySeq, LenProperties
  <1>3. spectrum[1].run = spectrum[Len(spectrum)].run
    BY <1>2 DEF SumInv
  <1> QED BY <1>1, <1>3 DEF Follows, AfterSpectrum

Tile == spectrum' # spectrum => Follows(spectrum, spectrum')

LEMMA AveragerStep ==
    ASSUME RunsInv, Averager
    PROVE  OrderInv' /\ SumInv' /\ Tile
  <1> DEFINE head == Head(avg_in)
             rest == Behind(Tail(avg_in))
  <1>1. /\ UNCHANGED <<run, pc_run, canceled, streaming, monarch_ptr, source, sent, fft_in,
                       writer_in, swrap>>
        /\ TypesInv /\ SumInv /\ OrderInv
    BY NodeSteps, ControlVars DEF Averager, AvgStart, AvgRun, AvgStop, AvgStopped, AvgExit,
       AvgUnchanged, control_vars, source_vars, RunsInv
  <1>2. CASE AvgExit \/ AvgStopped
    <2>1. CASE AvgExit
      BY <1>1, <2>1, OrderKept DEF AvgExit, OrderInv, SumInv, AfterSpectrum, Tile
    <2>2. CASE AvgStopped
      BY <1>1, <2>2, OrderKept DEF AvgStopped, SumInv, AfterSpectrum, Tile
    <2> QED BY <1>2, <2>1, <2>2
  <1>3. CASE AvgStart \/ AvgRun \/ AvgStop
    <2>1. ~canceled /\ avg_in # <<>> /\ avg_in' = Tail(avg_in)
      BY <1>3 DEF AvgStart, AvgRun, AvgStop, AvgTakes
    <2>2. AverageOrder /\ SentOrder /\ \A w \in Writers : WriterOrder(w)
      BY <1>1, <2>1 DEF OrderInv
    <2>3. avg_in \in Seq(Slot) /\ fft_in \in Seq(Slot)
      BY <1>1, Slots
    <2>4. /\ Behind(avg_in)[1] = head /\ head \in Slot
          /\ rest \in Seq(Slot) /\ 1 \in 1 .. Len(rest)
          /\ Orderly(rest, Latest) /\ May(head, rest[1])
          /\ IsData(head) => /\ head.chunk.run <= Latest
                             /\ Later(rest, head.chunk.run)
          /\ Later(rest, LastTaken.run)
      BY <1>1, <2>1, <2>2, <2>3, TakeOrder DEF AverageOrder
    <2>5. /\ IsData(head) => Joins(average, spectrum, head.chunk)
          /\ head.command = "s_start" => average = <<>>
      BY <2>2, <2>4 DEF AverageOrder
    <2>6. UNCHANGED <<Coming, Latest>> /\ Behind(avg_in)' = rest
      BY <1>1, <2>1 DEF Coming, NextNumber, Latest, Behind
    <2>7. \A w \in Writers : WriterOrder(w)'
      BY <1>1, <2>2, <2>6 DEF WriterOrder, Behind
    <2>8. Ends((avg_in \o fft_in)', IF IsData(head) THEN head.chunk ELSE LastTaken, sent)
      <3> DEFINE t == avg_in \o fft_in
      <3>1. t \in Seq(Slot) /\ t # <<>> /\ t[1] = head /\ (avg_in \o fft_in)' = Tail(t)
        BY <1>1, <2>1, <2>3, TakeFirst, ConcatProperties
      <3>2. Ends(t, LastTaken, sent)
        BY <2>2 DEF SentOrder
      <3> HIDE DEF t, head
      <3> QED BY <3>1, <3>2, EndsTail
    <2>9. ASSUME LastTaken' = IF IsData(head) THEN head.chunk ELSE LastTaken,
                 IsData(rest[1]) => Joins(average', spectrum', rest[1].chunk),
                 rest[1].command = "s_start" => average' = <<>>
          PROVE  OrderInv'
      <3> HIDE DEF rest, head
      <3>1. Later(rest, LastTaken'.run)
        BY <2>4, <2>9
      <3>2. AverageOrder'
        BY <2>4, <2>6, <2>9, <3>1 DEF AverageOrder
      <3>3. SentOrder'
        BY <1>1, <2>8, <2>9 DEF SentOrder
      <3> QED BY <2>7, <3>2, <3>3 DEF OrderInv
    <2>10. /\ Len(average) \in Nat /\ f_input_counter = Len(average)
           /\ (average = <<>> <=> Len(average) = 0)
           /\ average \in Seq(SomeChunk)
      BY <1>1, Taking
    <2>11. Len(<<>>) = 0 /\ ~(NumToAverage > 0 /\ ~(0 < NumToAverage))
      BY EmptySeq
    <2> HIDE DEF head, rest
    <2>12. CASE AvgStart
      <3>1. average' = <<>> /\ UNCHANGED spectrum /\ head.command = "s_start" /\ ~IsData(head)
        BY <2>12 DEF AvgStart, AvgTakes, head, IsData
      <3>2. average = <<>> /\ LastTaken = spectrum[Len(spectrum)] /\ LastTaken' = LastTaken
        BY <2>5, <3>1 DEF LastTaken
      <3>3. SumInv' /\ Tile
        BY <1>1, <2>11, <3>1 DEF SumInv, Tile
      <3>4. IsData(rest[1]) => Joins(average', spectrum', rest[1].chunk)
        <4>1. IsData(rest[1]) => IsFirst(rest[1])
          BY <2>4, <3>1 DEF May
        <4>2. IsFirst(rest[1]) => rest[1].chunk.run > LastTaken.run
          BY <2>4 DEF Later
        <4> QED BY <3>1, <3>2, <4>1, <4>2 DEF Joins, AfterSpectrum, IsFirst
      <3> QED BY <2>9, <3>1, <3>2, <3>3, <3>4
    <2>13. CASE AvgRun
      <3> DEFINE c == head.chunk
                 group == Append(average, c)
      <3>1. head.command = "s_run" /\ IsData(head)
        BY <2>13 DEF AvgRun, AvgTakes, head, IsData
      <3>2. c \in SomeChunk /\ Joins(average, spectrum, c)
        BY <2>4, <2>5, <3>1 DEF Slot
      <3>3. /\ group \in Seq(SomeChunk) /\ group # <<>>
            /\ Len(group) = Len(average) + 1 /\ group[Len(group)] = c
            /\ \A i \in 1 .. Len(group) :
                   /\ group[i].run = group[1].run
                   /\ group[i].number = group[1].number + (i - 1)
            /\ AfterSpectrum(spectrum, group[1])
        BY <1>1, <3>2, Sum
      <3>4. /\ IsData(rest[1]) =>
                   rest[1].chunk.run = c.run /\ rest[1].chunk.number = c.number + 1
            /\ rest[1].command # "s_start"
        BY <2>4, <3>1 DEF May
      <3>5. Len(group) \in 1 .. Len(group)
        BY <2>10, <3>3
      <3>6. CASE f_input_counter + 1 = NumToAverage
        <4>1. spectrum' = group /\ average' = <<>>
          BY <2>13, <3>6 DEF AvgRun, SendOutput, head
        <4>2. Len(group) = NumToAverage
          BY <2>10, <3>3, <3>6
        <4> HIDE DEF c, group
        <4>3. Follows(spectrum, group)
          BY <1>1, <3>3, <4>2, RowFollows
        <4>4. \A i \in 1 .. Len(group) : group[i].run = group[Len(group)].run
          BY <3>3, <3>5
        <4>5. SumInv'
          BY <2>11, <4>1, <4>4 DEF SumInv
        <4>6. LastTaken' = c
          BY <3>3, <4>1 DEF LastTaken
        <4>7. IsData(rest[1]) => Joins(average', spectrum', rest[1].chunk)
          BY <3>3, <3>4, <4>1, <4>2 DEF Joins, AfterSpectrum
        <4> QED BY <2>9, <3>1, <3>4, <4>1, <4>3, <4>5, <4>6, <4>7 DEF Tile, c
      <3>7. CASE f_input_counter + 1 # NumToAverage
        <4>1. average' = group /\ UNCHANGED spectrum
          BY <2>13, <3>7 DEF AvgRun, head
        <4> HIDE DEF c, group
        <4>2. NumToAverage > 0 => Len(group) < NumToAverage
          <5>1. NumToAverage > 0 => Len(average) < NumToAverage
            BY <1>1 DEF SumInv
          <5> QED BY <2>10, <3>3, <3>7, <5>1, Bounds
        <4>3. SumInv' /\ Tile
          BY <1>1, <3>3, <4>1, <4>2 DEF SumInv, Tile, AfterSpectrum
        <4>4. LastTaken' = c
          BY <3>3, <4>1 DEF LastTaken
        <4>5. IsData(rest[1]) => Joins(average', spectrum', rest[1].chunk)
          BY <3>3, <3>4, <4>1 DEF Joins
        <4> QED BY <2>9, <3>1, <3>4, <4>3, <4>4, <4>5 DEF c
      <3> QED BY <3>6, <3>7
    <2>14. CASE AvgStop
      <3>1. head.command = "s_stop" /\ ~IsData(head)
        BY <2>14 DEF AvgStop, AvgTakes, head, IsData
      <3>2. ~IsData(rest[1])
        BY <2>4, <3>1 DEF May
      <3>3. CASE f_input_counter > 0
        <4>1. spectrum' = average /\ average' = <<>>
          BY <2>14, <3>3 DEF AvgStop, SendOutput
        <4>2. /\ average # <<>> /\ Len(average) \in 1 .. Len(average)
              /\ NumToAverage > 0 => Len(average) <= NumToAverage
          <5>1. NumToAverage > 0 => Len(average) < NumToAverage
            BY <1>1 DEF SumInv
          <5> QED BY <2>10, <3>3, <5>1, Bounds
        <4>3. Follows(spectrum, average)
          BY <1>1, <2>10, <4>2, RowFollows DEF SumInv
        <4>4. \A i \in 1 .. Len(average) : average[i].run = average[Len(average)].run
          BY <1>1, <4>2 DEF SumInv
        <4>5. SumInv'
          BY <2>11, <4>1, <4>4 DEF SumInv
        <4>6. LastTaken' = LastTaken
          BY <4>1, <4>2 DEF LastTaken
        <4> QED BY <2>9, <3>1, <3>2, <4>1, <4>3, <4>5, <4>6 DEF Tile
      <3>4. CASE ~(f_input_counter > 0)
        <4>1. UNCHANGED <<average, spectrum>> /\ average = <<>>
          BY <2>10, <2>14, <3>4 DEF AvgStop
        <4>2. LastTaken' = LastTaken
          BY <4>1 DEF LastTaken
        <4>3. SumInv' /\ Tile
          BY <1>1, <4>1 DEF SumInv, Tile, AfterSpectrum
        <4> QED BY <2>9, <3>1, <3>2, <4>1, <4>2, <4>3
      <3> QED BY <3>3, <3>4
    <2> QED BY <1>3, <2>12, <2>13, <2>14
  <1> QED BY <1>2, <1>3 DEF Averager


-----------------------------------------------------------------------------
(* The writers.                                                            *)

LEMMA WriterStepOrder ==
    ASSUME RunsInv, Grows, NEW w \in Writers, Writer(w) PROVE OrderInv'
  <1> SUFFICES ASSUME ~canceled' PROVE OrderInv'
    BY DEF OrderInv
  <1>1. /\ UNCHANGED <<run, pc_run, monarch_ptr, source, sent, fft_in, avg_in, average,
                       spectrum>>
        /\ UNCHANGED canceled
    BY WriterSteps DEF Writer, WriterStart, WriterRun, WriterStop, WriterExit
  <1>2. /\ writer_in[w] # <<>> /\ writer_in' = [writer_in EXCEPT ![w] = Tail(@)]
        /\ WriterStart(w) \/ WriterRun(w) \/ WriterStop(w)
    BY <1>1 DEF Writer, WriterStart, WriterRun, WriterStop, WriterExit, WriterTakes
  <1>3. /\ TypesInv /\ AverageOrder /\ SentOrder
        /\ \A v \in Writers : WriterOrder(v)
        /\ writer_in \in [Writers -> Seq(SentSlot)] /\ swrap \in [Writers -> 0 .. run]
    BY <1>1 DEF RunsInv, OrderInv, TypesInv, StreamsInv, ControlTypes
  <1>4. UNCHANGED <<Coming, LastTaken, Latest>>
    BY <1>1 DEF Coming, NextNumber, LastTaken, Latest
  <1>5. AverageOrder' /\ SentOrder'
    BY <1>1, <1>3, <1>4 DEF AverageOrder, SentOrder, Behind
  <1>6. /\ \A v \in Writers \ {w} : swrap'[v] = swrap[v] /\ writer_in'[v] = writer_in[v]
        /\ writer_in'[w] = Tail(writer_in[w])
        /\ \A v \in Writers \ {w} :
               <<v, run>> \in streaming => <<v, run>> \in streaming'
    BY <1>1, <1>2, <1>3 DEF WriterStart, WriterRun, WriterStop, FinishStream
  <1>7. ASSUME NEW v \in Writers \ {w} PROVE WriterOrder(v)'
    <2>1. WriterOrder(v)
      BY <1>3
    <2> QED BY <1>1, <1>4, <1>6, <2>1 DEF WriterOrder, Behind
  <1>8. WriterOrder(w)'
    <2> DEFINE head == Head(writer_in[w])
               rest == Behind(Tail(writer_in[w]))
    <2>1. /\ Behind(writer_in[w])[1] = head
          /\ Orderly(rest, Latest) /\ May(head, rest[1])
      <3>1. writer_in[w] \in Seq(Slot)
        BY <1>3, Slots
      <3> QED BY <1>2, <1>3, <3>1, TakeOrder DEF WriterOrder
    <2>2. Behind(writer_in[w])' = rest
      BY <1>1, <1>4, <1>6 DEF Behind
    <2>3. WriterOrder(w)
      BY <1>3
    <2> HIDE DEF head, rest
    <2>4. CASE WriterStart(w)
      <3>1. /\ FileIsOpen(w, monarch_ptr[w])
            /\ swrap'[w] = monarch_ptr[w]
            /\ streaming' = streaming \cup {<<w, monarch_ptr[w]>>}
        BY <1>1, <1>3, <2>4 DEF WriterStart
      <3>2. monarch_ptr[w] = run /\ run # 0
        BY <3>1 DEF FileIsOpen
      <3> QED BY <1>1, <1>4, <2>1, <2>2, <3>1, <3>2 DEF WriterOrder
    <2>5. CASE WriterRun(w)
      <3>1. head.command = "s_run" /\ UNCHANGED <<swrap, streaming>>
        BY <2>5 DEF WriterRun, WriterTakes, head
      <3>2. swrap[w] = run /\ run # 0
        BY <2>1, <2>3, <3>1 DEF WriterOrder, IsData
      <3> QED BY <1>1, <1>4, <2>1, <2>2, <2>3, <3>1, <3>2 DEF WriterOrder
    <2>6. CASE WriterStop(w)
      <3>1. head.command = "s_stop" /\ swrap'[w] = 0
        BY <1>3, <2>6 DEF WriterStop, WriterTakes, FinishStream, head
      <3>2. ~IsData(rest[1])
        BY <2>1, <3>1 DEF May, IsData
      <3> QED BY <1>1, <1>4, <2>1, <2>2, <3>1, <3>2 DEF WriterOrder
    <2> QED BY <1>2, <2>4, <2>5, <2>6
  <1> QED BY <1>5, <1>7, <1>8 DEF OrderInv

-----------------------------------------------------------------------------
(* The invariant of the runs.                                              *)

LEMMA RunsInvInit == Init => RunsInv
  <1> SUFFICES ASSUME Init PROVE RunsInv
    OBVIOUS
  <1>1. TypesInv
    BY TypesInit
  <1>2. /\ source = 0 /\ sent = NoChunk /\ fft_in = <<>> /\ avg_in = <<>>
        /\ average = <<>> /\ spectrum = <<NoChunk>>
        /\ writer_in = [w \in Writers |-> <<>>] /\ swrap = [w \in Writers |-> 0]
    BY DEF Init, PathInit
  <1>3. /\ Len(spectrum) = 1 /\ spectrum[1] = NoChunk /\ NoChunk.run = 0
        /\ Len(average) = 0
    BY <1>2 DEF NoChunk
  <1>4. LastTaken = NoChunk
    BY <1>2, <1>3 DEF LastTaken
  <1>5. SumInv
    BY <1>2, <1>3, Bounds DEF SumInv
  <1>6. /\ Coming = Command("s_start") /\ Coming.command = "s_start"
        /\ ~IsData(Coming) /\ ~IsFirst(Coming)
    BY <1>2 DEF Coming, Command, IsData, IsFirst
  <1>7. Behind(<<>>) = <<Coming>>
    <2>1. <<>> \o <<>> = <<>> /\ Append(<<>>, Coming) = <<Coming>>
      OBVIOUS
    <2> QED BY <1>2, <2>1 DEF Behind, Line
  <1>8. Orderly(<<Coming>>, Latest) /\ Later(<<Coming>>, 0) /\ <<Coming>>[1] = Coming
    <2>1. /\ Len(<<Coming>>) = 1 /\ <<Coming>>[1] = Coming
          /\ \A i \in 1 .. 1 : i = 1 /\ \A j \in 1 .. i - 1 : FALSE
          /\ \A i \in 2 .. 1 : FALSE
      OBVIOUS
    <2> QED BY <1>6, <2>1 DEF Orderly, Later
  <1>9. AverageOrder
    BY <1>2, <1>3, <1>4, <1>6, <1>7, <1>8 DEF AverageOrder
  <1>10. SentOrder
    <2>1. <<>> \o <<>> = <<>> /\ Len(<<>>) = 0
      OBVIOUS
    <2> QED BY <1>2, <1>4, <2>1 DEF SentOrder, Ends
  <1>11. ASSUME NEW w \in Writers PROVE WriterOrder(w)
    BY <1>2, <1>6, <1>7, <1>8 DEF WriterOrder
  <1> QED BY <1>1, <1>5, <1>9, <1>10, <1>11 DEF RunsInv, OrderInv

LEMMA RunsInvStep == RunsInv /\ [Next]_vars => RunsInv' /\ Tile
  <1> SUFFICES ASSUME RunsInv, [Next]_vars PROVE RunsInv' /\ Tile
    OBVIOUS
  <1>1. TypesInv' /\ Grows /\ TypesInv /\ SumInv /\ OrderInv
    BY TypesStep DEF RunsInv
  <1>2. CASE UNCHANGED <<average, spectrum>>
    <2>1. SumInv' /\ Tile
      BY <1>1, <1>2 DEF SumInv, AfterSpectrum, Tile
    <2>2. CASE Control /\ UNCHANGED path_vars
      BY <1>1, <2>1, <2>2, ControlOrder DEF RunsInv
    <2>3. CASE Source
      BY <1>1, <2>1, <2>3, SourceOrder DEF RunsInv
    <2>4. CASE Fft
      BY <1>1, <2>1, <2>4, FftOrder DEF RunsInv
    <2>5. CASE Averager
      BY <1>1, <2>5, AveragerStep DEF RunsInv
    <2>6. CASE Relay
      <3>1. UNCHANGED <<run, pc_run, streaming, monarch_ptr, source, sent, fft_in, avg_in,
                        average, spectrum, writer_in, swrap, canceled>>
        BY <1>2, <2>6, NodeSteps, ControlVars DEF Relay, source_vars, writer_vars
      <3> QED BY <1>1, <2>1, <3>1, OrderKept DEF RunsInv
    <2>7. ASSUME NEW w \in Writers, Writer(w) PROVE RunsInv' /\ Tile
      BY <1>1, <2>1, <2>7, WriterStepOrder DEF RunsInv
    <2>8. CASE UNCHANGED vars
      <3>1. UNCHANGED <<run, pc_run, streaming, monarch_ptr, source, sent, fft_in, avg_in,
                        average, spectrum, writer_in, swrap, canceled>>
        BY <2>8, AllVars, ControlVars, PathVars
      <3> QED BY <1>1, <2>1, <3>1, OrderKept DEF RunsInv
    <2> QED BY <2>2, <2>3, <2>4, <2>5, <2>6, <2>7, <2>8, NextSteps
  <1>3. CASE Averager
    BY <1>1, <1>3, AveragerStep DEF RunsInv
  <1>4. UNCHANGED <<average, spectrum>> \/ Averager
    <2>1. Source \/ Fft \/ Relay => UNCHANGED <<average, spectrum>>
      BY DEF Source, Fft, FftPass, FftExit, FftUnchanged, Relay, avg_vars
    <2> QED BY <2>1, NextSteps, AllVars, PathVars, WriterSteps
  <1> QED BY <1>2, <1>3, <1>4

LEMMA RunsInvariant == Spec => []RunsInv
  BY RunsInvInit, RunsInvStep, PTL DEF Spec

-----------------------------------------------------------------------------
(* The theorems.                                                           *)

\* For any number of chunks, any slots and any averaging, at whatever moment a
\* run is ended and the next begun: each spectrum goes on where the last ended.
THEOREM SpectraTiled == Spec => SpectraTile
  <1>1. RunsInv /\ [Next]_vars => [spectrum' # spectrum => Follows(spectrum, spectrum')]_vars
    BY RunsInvStep DEF Tile
  <1> QED BY <1>1, RunsInvariant, PTL DEF Spec, SpectraTile

\* What a writer gets to write finds it with a stream in an open file, of the
\* run the data are of or of a later one, also when data of the last run are
\* still on their way in the next.
THEOREM DataGoToOpenFile == Spec => []DataInOpenFile
  <1>1. RunsInv => DataInOpenFile
    <2> SUFFICES ASSUME RunsInv, NEW w \in Writers, ~canceled, writer_in[w] # <<>>,
                        Head(writer_in[w]).command = "s_run"
                 PROVE  swrap[w] >= Head(writer_in[w]).chunk.run
                        /\ FileIsOpen(w, swrap[w])
      BY DEF DataInOpenFile
    <2>1. TypesInv /\ FilesInv /\ WriterOrder(w) /\ writer_in[w] \in Seq(Slot)
      BY Slots DEF RunsInv, TypesInv, OrderInv
    <2>2. /\ Behind(writer_in[w])[1] = Head(writer_in[w])
          /\ IsData(Head(writer_in[w])) /\ Head(writer_in[w]) \in Slot
          /\ Head(writer_in[w]).chunk.run <= Latest
      BY <2>1, TakeOrder DEF WriterOrder, IsData
    <2>3. /\ swrap[w] = run /\ run # 0 /\ <<w, run>> \in streaming
      BY <2>1, <2>2 DEF WriterOrder
    <2>4. /\ Head(writer_in[w]).chunk.run \in Nat
          /\ Latest \in Nat /\ Latest <= run /\ run \in Nat
      BY <2>1, <2>2, LatestRun DEF Slot, SomeChunk, IsData, FilesInv
    <2>5. swrap[w] >= Head(writer_in[w]).chunk.run
      BY <2>2, <2>3, <2>4
    <2>6. FileNum[w] \in OpenFiles
      <3>1. PICK v \in Writers : <<w, run>> = <<v, run>> /\ FileNum[v] \in OpenFiles
        BY <2>1, <2>3 DEF FilesInv
      <3> QED BY <3>1
    <2>7. FileIsOpen(w, swrap[w])
      BY <2>3, <2>6 DEF FileIsOpen, OpenFiles
    <2> QED BY <2>5, <2>7
  <1> QED BY <1>1, RunsInvariant, PTL

\* Whenever a run is ended, the spectra have come to the last chunk once its
\* end has passed the averager.
THEOREM RunAveragedWhole == Spec => []RunAveraged
  <1>1. RunsInv => RunAveraged
    <2> SUFFICES ASSUME RunsInv, source = 0, fft_in = <<>>, avg_in = <<>>, ~canceled
                 PROVE  spectrum[Len(spectrum)] = sent
      BY DEF RunAveraged
    <2>1. AverageOrder /\ SentOrder
      BY DEF RunsInv, OrderInv
    <2>2. <<>> \o <<>> = <<>> /\ Len(<<>>) = 0
      OBVIOUS
    <2>3. Behind(avg_in)[1] = Command("s_start")
      BY <2>2 DEF Behind, Line, Coming
    <2>4. average = <<>>
      BY <2>1, <2>3 DEF AverageOrder, Command
    <2>5. LastTaken = sent
      BY <2>1, <2>2 DEF SentOrder, Ends
    <2> QED BY <2>4, <2>5 DEF LastTaken
  <1> QED BY <1>1, RunsInvariant, PTL

-----------------------------------------------------------------------------
(* Requests and settings.                                                  *)

USE ControlAssumption

Setting == [field : {"filename", "description"}, file : Files, to : Nat] \cup
           [field : {"values", "duration"}, to : Nat]

\* What the house and run control have for setting s.
Now(s) ==
    IF s.field = "values" THEN extra_info
    ELSE IF s.field = "duration" THEN run_duration
    ELSE file_infos[s.file][s.field]

\* The first n settings of request q are in force.
InForce(q, n) ==
    \A i \in 1 .. n : (\A j \in i + 1 .. n : ~Replaces(q[j], q[i])) => Now(q[i]) = q[i].to

\* What is left of the last request is its end, and it comes after those of the
\* runs.
AskedInv ==
    /\ requests \in 0 .. Len(Requests) /\ request \in Seq(Setting)
    /\ pc_request \in {"idle", "setting"}
    /\ asked \in Seq(1 .. requests) /\ Len(asked) = run /\ run <= requests
    /\ pc_request = "setting" =>
           /\ requests > 0 /\ run < requests
           /\ \A r \in 1 .. run : asked[r] < requests
           /\ Len(request) <= Len(Requests[requests])
           /\ \A i \in 1 .. Len(request) :
                  request[i] =
                      Requests[requests][Len(Requests[requests]) - Len(request) + i]

\* The runs that have got their files.
Begun == IF pc_run = "launched" THEN run - 1 ELSE run

Asked(r) == Requests[asked[r]]

\* A setting that the request of run r makes last.
Last(r, i) == r \in 1 .. run /\ i \in DOMAIN Asked(r) /\ Made(asked[r], i)

\* What a request has set so far is in force; every setting of the request of
\* a run has been made, or replaced by a later request; and the house has the
\* duration of the last run begun, or a later one.
SettingsInv ==
    /\ file_infos \in [Files -> [filename : Nat, description : Nat]]
    /\ pc_request = "setting" =>
           InForce(Requests[requests], Len(Requests[requests]) - Len(request))
    /\ \A r, i : Last(r, i) => SetFor(r, i, Now(Asked(r)[i]))
    /\ \A r, i : Last(r, i) /\ r <= Begun /\ Asked(r)[i].field = "duration" =>
           SetFor(r, i, house_duration)

\* The labels that broadcast_spectrum has asked for are not older than the run.
LabelsInv ==
    broadcast.chunk # NoChunk =>
        LET r == broadcast.chunk.run IN
        \A i : Last(r, i) =>
            /\ Asked(r)[i].field = "description" /\ Asked(r)[i].file = 0 =>
                   SetFor(r, i, broadcast.notes)
            /\ Asked(r)[i].field = "duration" /\ pc_relay # "duration" =>
                   SetFor(r, i, broadcast.duration)
            /\ Asked(r)[i].field = "values" /\ pc_relay \notin {"duration", "values"} =>
                   SetFor(r, i, broadcast.freq_lo)

RequestsInv == AskedInv /\ SettingsInv /\ FilesAsRequested /\ LabelsInv

-----------------------------------------------------------------------------
LEMMA RequestsType ==
    /\ Requests \in Seq(Seq(Setting)) /\ Len(Requests) \in Nat
    /\ \A k \in 1 .. Len(Requests) :
           /\ Requests[k] \in Seq(Setting) /\ Len(Requests[k]) \in Nat
           /\ DOMAIN Requests[k] = 1 .. Len(Requests[k])
           /\ \A i \in 1 .. Len(Requests[k]) : Requests[k][i] \in Setting
  <1>1. Requests \in Seq(Seq(Setting))
    BY DEF ControlAssumption, Setting
  <1>2. Len(Requests) \in Nat
    BY <1>1, LenProperties
  <1>3. ASSUME NEW k \in 1 .. Len(Requests) PROVE Requests[k] \in Seq(Setting)
    BY <1>1, ElementOfSeq
  <1>4. ASSUME NEW k \in 1 .. Len(Requests)
        PROVE  /\ Len(Requests[k]) \in Nat /\ DOMAIN Requests[k] = 1 .. Len(Requests[k])
               /\ \A i \in 1 .. Len(Requests[k]) : Requests[k][i] \in Setting
    BY <1>3, ElementOfSeq, LenProperties
  <1> QED BY <1>1, <1>2, <1>3, <1>4

LEMMA AskedSetting ==
    ASSUME AskedInv, NEW r, NEW i, Last(r, i)
    PROVE  asked[r] \in 1 .. requests /\ asked[r] \in 1 .. Len(Requests)
           /\ i \in 1 .. Len(Asked(r)) /\ Asked(r)[i] \in Setting /\ Len(Asked(r)) \in Nat
  <1>1. asked[r] \in 1 .. requests
    BY ElementOfSeq DEF AskedInv, Last
  <1>2. asked[r] \in 1 .. Len(Requests)
    BY <1>1, RequestsType DEF AskedInv
  <1> QED BY <1>1, <1>2, RequestsType DEF Last, Asked

LEMMA AskedInit == Init => AskedInv
  <1> SUFFICES ASSUME Init PROVE AskedInv
    OBVIOUS
  <1>1. /\ run = 0 /\ asked = <<>> /\ request = <<>> /\ requests = 0
        /\ pc_request = "idle"
    BY DEF Init, ControlInit
  <1>2. Len(<<>>) = 0 /\ <<>> \in Seq(Setting) /\ <<>> \in Seq(1 .. 0)
    BY EmptySeq
  <1> QED BY <1>1, <1>2, RequestsType DEF AskedInv

\* The steps that make no request.
LEMMA NoRequest ==
    ASSUME [Next]_vars
    PROVE  Client \/ UNCHANGED <<run, asked, request, pc_request, requests, file_infos,
                                 run_duration, extra_info>>
  <1>1. CASE Registration
    BY <1>1 DEF Registration, RegisterWriter, UnregisterWriter, Activate, request_vars,
       settings
  <1>2. CASE RunControl
    BY <1>2 DEF RunControl, Run, StartFiles, StartFilesFails, BeginFinishing, FinishFile,
       CancelAll, FinishFileThrows, FinishNull, Running, request_vars, settings
  <1> QED BY <1>1, <1>2, NextSteps, NodeSteps, ControlVars, WriterSteps, AllVars DEF Control

LEMMA AskedStep == ASSUME FilesInv, AskedInv, [Next]_vars PROVE AskedInv'
  <1> USE DEF AskedInv
  <1>0. run \in Nat
    BY DEF FilesInv
  <1>1. CASE NewRequest
    <2>1. /\ pc_request = "idle" /\ pc_request' = "setting" /\ UNCHANGED <<run, asked>>
          /\ requests < Len(Requests) /\ requests' = requests + 1
          /\ request' = Requests[requests + 1]
      BY <1>1 DEF NewRequest
    <2>2. /\ requests + 1 \in 1 .. Len(Requests) /\ requests' \in 0 .. Len(Requests)
          /\ 1 .. requests \subseteq 1 .. requests' /\ run < requests'
      BY <1>0, <2>1, RequestsType
    <2>3. request' \in Seq(Setting) /\ Len(request') \in Nat
      BY <2>1, <2>2, RequestsType
    <2>4. asked' \in Seq(1 .. requests')
      BY <2>1, <2>2, LargerSet
    <2>5. \A r \in 1 .. run : asked[r] \in 1 .. requests
      BY ElementOfSeq
    <2>6. \A i \in 1 .. Len(request') : Len(request') - Len(request') + i = i
      BY <2>3
    <2> QED BY <1>0, <2>1, <2>2, <2>3, <2>4, <2>5, <2>6
  <1>2. CASE ApplySetting
    <2>1. /\ pc_request = "setting" /\ request # <<>> /\ request' = Tail(request)
          /\ UNCHANGED <<pc_request, requests, asked, run>>
      BY <1>2 DEF ApplySetting
    <2> DEFINE q == Requests[requests]
    <2>2. /\ Len(request) \in Nat \ {0} /\ request' \in Seq(Setting)
          /\ Len(request') = Len(request) - 1
          /\ \A i \in 1 .. Len(request) - 1 : request'[i] = request[i + 1]
      BY <2>1, HeadIsFirst
    <2>3. Len(q) \in Nat
      BY <2>1, RequestsType
    <2>4. ASSUME NEW i \in 1 .. Len(request')
          PROVE  request'[i] = q[Len(q) - Len(request') + i]
      <3>1. i + 1 \in 1 .. Len(request) /\ i \in 1 .. Len(request) - 1
        BY <2>2
      <3>2. request'[i] = q[Len(q) - Len(request) + (i + 1)]
        BY <2>1, <2>2, <3>1
      <3> HIDE DEF q
      <3>3. Len(q) - Len(request) + (i + 1) = Len(q) - Len(request') + i
        BY <2>2, <2>3
      <3> QED BY <3>2, <3>3, Zenon
    <2>5. Len(request') <= Len(q)
      BY <2>1, <2>2, <2>3
    <2> QED BY <2>1, <2>2, <2>4, <2>5
  <1>3. CASE SettingThrows \/ StartRunThrows
    <2>1. /\ pc_request' = "idle" /\ request' = <<>> /\ UNCHANGED <<requests, run, asked>>
      BY <1>3 DEF SettingThrows, StartRunThrows, DropRequest
    <2> QED BY <2>1, EmptySeq
  <1>4. CASE StartRun
    <2>1. /\ pc_request = "setting" /\ pc_request' = "idle" /\ run' = run + 1
          /\ UNCHANGED <<request, requests>> /\ asked' = Append(asked, requests)
      BY <1>4 DEF StartRun
    <2>2. requests \in 1 .. requests /\ run + 1 <= requests
      BY <1>0, <2>1, RequestsType
    <2>3. asked' \in Seq(1 .. requests) /\ Len(asked') = run + 1
      BY <2>1, <2>2, AppendProperties
    <2> QED BY <2>1, <2>2, <2>3
  <1>5. CASE UNCHANGED <<run, asked, request, pc_request, requests>>
    BY <1>5
  <1> QED BY <1>1, <1>2, <1>3, <1>4, <1>5, NoRequest DEF Client, Request

\* The requests of the runs there have been stay, and what is set for a run is
\* set for it when more requests come.
LEMMA AskedStays ==
    ASSUME FilesInv, AskedInv, [Next]_vars
    PROVE  /\ requests <= requests' /\ run <= run'
           /\ \A r \in 1 .. run : asked'[r] = asked[r] /\ r \in 1 .. run'
           /\ \A r \in 1 .. run : \A i, v : SetFor(r, i, v) => SetFor(r, i, v)'
           /\ \A r, i : r \in 1 .. run => (Last(r, i)' <=> Last(r, i)) /\ Asked(r)' = Asked(r)
  <1>0. run \in Nat /\ requests \in Nat /\ asked \in Seq(Nat) /\ Len(asked) = run
    <2>1. requests \in Nat
      BY RequestsType DEF AskedInv
    <2>2. 1 .. requests \subseteq Nat
      BY <2>1
    <2> QED BY <2>1, <2>2, LargerSet DEF AskedInv, FilesInv
  <1>1. /\ requests <= requests' /\ requests' \in Nat /\ run <= run' /\ run' \in Nat
        /\ \A r \in 1 .. run : asked'[r] = asked[r]
    <2>1. CASE NewRequest \/ ApplySetting \/ SettingThrows \/ StartRunThrows
      <3>1. UNCHANGED <<run, asked>> /\ (UNCHANGED requests \/ requests' = requests + 1)
        BY <2>1 DEF NewRequest, ApplySetting, SettingThrows, StartRunThrows, DropRequest
      <3> QED BY <1>0, <3>1
    <2>2. CASE StartRun
      <3>1. run' = run + 1 /\ asked' = Append(asked, requests) /\ UNCHANGED requests
        BY <2>2 DEF StartRun
      <3> QED BY <1>0, <3>1, AppendProperties
    <2>3. CASE UNCHANGED <<run, asked, requests>>
      BY <1>0, <2>3
    <2> QED BY <2>1, <2>2, <2>3, NoRequest DEF Client, Request
  <1>2. \A r \in 1 .. run : r \in 1 .. run'
    BY <1>0, <1>1
  <1>3. ASSUME NEW r \in 1 .. run, NEW i, NEW v, SetFor(r, i, v) PROVE SetFor(r, i, v)'
    <2>1. asked[r] \in Nat
      BY <1>0, ElementOfSeq
    <2>2. asked[r] + 1 .. requests \subseteq asked[r] + 1 .. requests'
      BY <1>0, <1>1, <2>1
    <2> QED BY <1>1, <1>3, <2>2 DEF SetFor
  <1>4. ASSUME NEW r \in 1 .. run, NEW i
        PROVE  (Last(r, i)' <=> Last(r, i)) /\ Asked(r)' = Asked(r)
    BY <1>1, <1>2 DEF Last, Asked, Made
  <1> QED BY <1>1, <1>2, <1>3, <1>4

-----------------------------------------------------------------------------
(* Making a setting.                                                       *)

LEMMA OneSetting ==
    ASSUME AskedInv, file_infos \in [Files -> [filename : Nat, description : Nat]],
           ApplySetting, NEW s, s = Head(request)
    PROVE  /\ s \in Setting
           /\ file_infos' \in [Files -> [filename : Nat, description : Nat]]
           /\ \A t \in Setting :
                  /\ Replaces(s, t) => Now(t)' = s.to
                  /\ ~Replaces(s, t) => Now(t)' = Now(t)
  <1>1. s \in Setting
    BY HeadIsFirst DEF AskedInv, ApplySetting
  <1>2. \/ /\ s.field = "filename"
           /\ file_infos' = [file_infos EXCEPT ![s.file] = [@ EXCEPT !.filename = s.to]]
           /\ UNCHANGED <<run_duration, extra_info>>
        \/ /\ s.field = "description"
           /\ file_infos' = [file_infos EXCEPT ![s.file] = [@ EXCEPT !.description = s.to]]
           /\ UNCHANGED <<run_duration, extra_info>>
        \/ /\ s.field = "values" /\ extra_info' = s.to
           /\ UNCHANGED <<file_infos, run_duration>>
        \/ /\ s.field = "duration" /\ run_duration' = s.to
           /\ UNCHANGED <<file_infos, extra_info>>
    BY DEF ApplySetting
  <1>3. s.field \in {"filename", "description"} => s.file \in Files /\ s.to \in Nat
    BY <1>1 DEF Setting
  <1>4. ASSUME NEW t \in Setting, Replaces(s, t) PROVE Now(t)' = s.to
    <2>1. s.field = t.field /\ (s.field \in {"filename", "description"} => s.file = t.file)
      BY <1>4 DEF Replaces
    <2>2. CASE s.field = "filename"
      <3>1. file_infos' = [file_infos EXCEPT ![s.file] = [@ EXCEPT !.filename = s.to]]
        BY <1>2, <2>2
      <3>2. file_infos'[s.file].filename = s.to
        BY <1>3, <2>2, <3>1
      <3> QED BY <2>1, <2>2, <3>2 DEF Now
    <2>3. CASE s.field = "description"
      <3>1. file_infos' = [file_infos EXCEPT ![s.file] = [@ EXCEPT !.description = s.to]]
        BY <1>2, <2>3
      <3>2. file_infos'[s.file].description = s.to
        BY <1>3, <2>3, <3>1
      <3> QED BY <2>1, <2>3, <3>2 DEF Now
    <2>4. CASE s.field = "values"
      BY <1>2, <2>1, <2>4 DEF Now
    <2>5. CASE s.field = "duration"
      BY <1>2, <2>1, <2>5 DEF Now
    <2> QED BY <1>2, <2>2, <2>3, <2>4, <2>5
  <1>5. ASSUME NEW f \in Files
        PROVE  /\ s.field # "filename" \/ s.file # f =>
                      file_infos'[f].filename = file_infos[f].filename
               /\ s.field # "description" \/ s.file # f =>
                      file_infos'[f].description = file_infos[f].description
    <2>1. CASE s.field = "filename"
      <3>1. file_infos' = [file_infos EXCEPT ![s.file] = [@ EXCEPT !.filename = s.to]]
        BY <1>2, <2>1
      <3> QED BY <1>3, <2>1, <3>1
    <2>2. CASE s.field = "description"
      <3>1. file_infos' = [file_infos EXCEPT ![s.file] = [@ EXCEPT !.description = s.to]]
        BY <1>2, <2>2
      <3> QED BY <1>3, <2>2, <3>1
    <2>3. CASE s.field \notin {"filename", "description"}
      BY <1>2, <2>3
    <2> QED BY <2>1, <2>2, <2>3
  <1>6. ASSUME NEW t \in Setting, ~Replaces(s, t) PROVE Now(t)' = Now(t)
    <2>1. t.field \in {"filename", "description"} => t.file \in Files
      BY DEF Setting
    <2>2. CASE t.field = "filename"
      <3>1. s.field # "filename" \/ s.file # t.file
        BY <1>6, <2>2 DEF Replaces
      <3>2. file_infos'[t.file].filename = file_infos[t.file].filename
        BY <1>5, <2>1, <2>2, <3>1
      <3> QED BY <2>2, <3>2 DEF Now
    <2>3. CASE t.field = "description"
      <3>1. s.field # "description" \/ s.file # t.file
        BY <1>6, <2>3 DEF Replaces
      <3>2. file_infos'[t.file].description = file_infos[t.file].description
        BY <1>5, <2>1, <2>3, <3>1
      <3> QED BY <2>3, <3>2 DEF Now
    <2>4. CASE t.field \in {"values", "duration"}
      <3>1. s.field # t.field
        BY <1>1, <1>6, <2>4 DEF Replaces
      <3>2. t.field = "values" => extra_info' = extra_info
        BY <1>2, <3>1
      <3>3. t.field = "duration" => run_duration' = run_duration
        BY <1>2, <3>1
      <3> QED BY <2>4, <3>2, <3>3 DEF Now
    <2> QED BY <2>2, <2>3, <2>4 DEF Setting
  <1>7. file_infos' \in [Files -> [filename : Nat, description : Nat]]
    <2> DEFINE Info == [filename : Nat, description : Nat]
    <2>1. CASE s.field = "filename"
      <3>1. file_infos' = [file_infos EXCEPT ![s.file] = [@ EXCEPT !.filename = s.to]]
        BY <1>2, <2>1
      <3>2. [file_infos[s.file] EXCEPT !.filename = s.to] \in Info
        BY <1>3, <2>1
      <3> HIDE DEF Info
      <3> QED BY <1>3, <2>1, <3>1, <3>2 DEF Info
    <2>2. CASE s.field = "description"
      <3>1. file_infos' = [file_infos EXCEPT ![s.file] = [@ EXCEPT !.description = s.to]]
        BY <1>2, <2>2
      <3>2. [file_infos[s.file] EXCEPT !.description = s.to] \in Info
        BY <1>3, <2>2
      <3> QED BY <1>3, <2>2, <3>1, <3>2
    <2>3. CASE s.field \notin {"filename", "description"}
      BY <1>2, <2>3
    <2> QED BY <2>1, <2>2, <2>3
  <1> QED BY <1>1, <1>4, <1>6, <1>7

\* One more setting of the request is in force.
LEMMA OneMore ==
    ASSUME AskedInv, file_infos \in [Files -> [filename : Nat, description : Nat]],
           ApplySetting, NEW q \in Seq(Setting), NEW n \in Nat, n + 1 <= Len(q),
           InForce(q, n), Head(request) = q[n + 1]
    PROVE  InForce(q, n + 1)'
  <1> SUFFICES ASSUME NEW i \in 1 .. n + 1,
                      \A j \in i + 1 .. n + 1 : ~Replaces(q[j], q[i])
               PROVE  Now(q[i])' = q[i].to
    BY DEF InForce
  <1>1. q[n + 1] \in Setting /\ \A k \in 1 .. n : q[k] \in Setting
    BY LenProperties, ElementOfSeq
  <1>2. CASE i = n + 1
    <2>1. PICK s \in Setting : s = q[n + 1]
      BY <1>1
    <2>2. Replaces(s, s) /\ s = Head(request) /\ q[i] = s
      BY <1>2, <2>1 DEF Replaces
    <2>3. Now(s)' = s.to
      BY <2>2, OneSetting
    <2> QED BY <2>2, <2>3
  <1>3. CASE i # n + 1
    <2>1. i \in 1 .. n /\ n + 1 \in i + 1 .. n + 1
          /\ \A j \in i + 1 .. n : j \in i + 1 .. n + 1
      BY <1>3
    <2>2. Now(q[i]) = q[i].to /\ ~Replaces(q[n + 1], q[i])
      BY <2>1 DEF InForce
    <2> QED BY <1>1, <2>1, <2>2, OneSetting
  <1> QED BY <1>2, <1>3

\* What has been set for a run is set for it still when no setting is made.
LEMMA SettingKept ==
    ASSUME SettingsInv, UNCHANGED <<file_infos, run_duration, extra_info>>,
           NEW r \in 1 .. run, NEW i, Last(r, i)',
           \A v : SetFor(r, i, v) => SetFor(r, i, v)',
           \A k : r \in 1 .. run => (Last(r, k)' <=> Last(r, k)) /\ Asked(r)' = Asked(r)
    PROVE  SetFor(r, i, Now(Asked(r)[i]))'
  <1>1. Last(r, i) /\ Asked(r)' = Asked(r)
    OBVIOUS
  <1>2. PICK v : v = Now(Asked(r)[i])
    OBVIOUS
  <1>3. SetFor(r, i, v)
    BY <1>1, <1>2 DEF SettingsInv
  <1>4. SetFor(r, i, v)'
    BY <1>3
  <1>5. Now(Asked(r)[i])' = v
    BY <1>1, <1>2 DEF Now
  <1> QED BY <1>4, <1>5 DEF SetFor

LEMMA RequestSettings ==
    ASSUME FilesInv, AskedInv, SettingsInv, Client, [Next]_vars
    PROVE  SettingsInv'
  <1>1. UNCHANGED house_duration
    BY DEF Client, Request, NewRequest, ApplySetting, SettingThrows, StartRun,
       StartRunThrows, DropRequest, Requesting, house_vars
  <1>2. /\ requests <= requests' /\ run <= run' /\ run \in Nat /\ run' \in Nat
        /\ \A r \in 1 .. run : asked'[r] = asked[r] /\ r \in 1 .. run'
        /\ \A r \in 1 .. run : \A i, v : SetFor(r, i, v) => SetFor(r, i, v)'
        /\ \A r, i : r \in 1 .. run => (Last(r, i)' <=> Last(r, i)) /\ Asked(r)' = Asked(r)
        /\ AskedInv'
    <2>1. FilesInv'
      BY EveryStep DEF FilesStep
    <2> QED BY <2>1, AskedStays, AskedStep DEF FilesInv
  <1>3. /\ file_infos \in [Files -> [filename : Nat, description : Nat]]
        /\ pc_request = "setting" =>
               InForce(Requests[requests], Len(Requests[requests]) - Len(request))
        /\ \A r, i : Last(r, i) => SetFor(r, i, Now(Asked(r)[i]))
        /\ \A r, i : Last(r, i) /\ r <= Begun /\ Asked(r)[i].field = "duration" =>
               SetFor(r, i, house_duration)
    BY DEF SettingsInv
  <1>4. Begun' = Begun /\ Begun <= run
    <2>1. \/ UNCHANGED <<run, pc_run>>
          \/ run' = run + 1 /\ pc_run = "idle" /\ pc_run' = "launched"
      BY DEF Client, Request, NewRequest, ApplySetting, SettingThrows, StartRun,
         StartRunThrows, DropRequest
    <2>2. \A n \in Nat : n - 1 <= n /\ n <= n /\ (n + 1) - 1 = n
      OBVIOUS
    <2>3. CASE UNCHANGED <<run, pc_run>>
      BY <1>2, <2>2, <2>3 DEF Begun
    <2>4. CASE run' = run + 1 /\ pc_run = "idle" /\ pc_run' = "launched"
      BY <1>2, <2>2, <2>4 DEF Begun
    <2> QED BY <2>1, <2>3, <2>4
  <1>5. \A r, i : Last(r, i)' /\ r <= Begun' /\ Asked(r)'[i].field = "duration" =>
               SetFor(r, i, house_duration)'
    <2> SUFFICES ASSUME NEW r, NEW i, Last(r, i)', r <= Begun',
                        Asked(r)'[i].field = "duration"
                 PROVE  SetFor(r, i, house_duration)'
      OBVIOUS
    <2>1. r \in 1 .. run
      <3>1. r \in 1 .. run' /\ r <= Begun /\ Begun <= run
        BY <1>4 DEF Last
      <3>2. Begun \in Int
        BY <1>2 DEF Begun
      <3> QED BY <1>2, <3>1, <3>2
    <2>2. SetFor(r, i, house_duration)
      <3>1. Last(r, i) /\ Asked(r)' = Asked(r)
        BY <1>2, <2>1
      <3> QED BY <1>3, <1>4, <3>1
    <2> QED BY <1>1, <1>2, <2>1, <2>2
  <1>6. CASE NewRequest
    <2>1. /\ pc_request' = "setting" /\ UNCHANGED <<run, asked>> /\ UNCHANGED settings
          /\ request' = Requests[requests'] /\ requests + 1 \in 1 .. Len(Requests)
          /\ requests' = requests + 1
      BY <1>6, RequestsType DEF NewRequest, AskedInv
    <2>2. UNCHANGED <<file_infos, run_duration, extra_info>>
      BY <2>1 DEF settings
    <2>4. InForce(Requests[requests], Len(Requests[requests]) - Len(request))'
      <3>1. Len(Requests[requests']) - Len(request') = 0
        BY <2>1, RequestsType
      <3>2. 1 .. 0 = {}
        OBVIOUS
      <3> QED BY <3>1, <3>2 DEF InForce
    <2>5. ASSUME NEW r, NEW i, Last(r, i)' PROVE SetFor(r, i, Now(Asked(r)[i]))'
      <3>1. r \in 1 .. run
        BY <2>1, <2>5 DEF Last
      <3> QED BY <1>2, <2>2, <2>5, <3>1, SettingKept
    <2> QED BY <1>3, <1>5, <2>2, <2>4, <2>5 DEF SettingsInv
  <1>7. CASE ApplySetting
    <2>1. /\ pc_request = "setting" /\ request # <<>> /\ request' = Tail(request)
          /\ UNCHANGED <<pc_request, requests, asked, run>>
      BY <1>7 DEF ApplySetting
    <2> DEFINE s == Head(request)
               q == Requests[requests]
               n == Len(q) - Len(request)
    <2>2. /\ requests \in 1 .. Len(Requests) /\ q \in Seq(Setting) /\ Len(q) \in Nat
          /\ DOMAIN q = 1 .. Len(q)
      BY <2>1, RequestsType DEF AskedInv
    <2>3. Len(request) \in Nat \ {0} /\ Len(request') = Len(request) - 1
          /\ s = request[1] /\ Len(request) <= Len(q)
      BY <2>1, HeadIsFirst DEF AskedInv
    <2>4. n \in Nat /\ n + 1 <= Len(q) /\ Len(q) - Len(request') = n + 1
          /\ n + 1 \in DOMAIN q
      BY <2>2, <2>3
    <2>5. s = q[n + 1]
      BY <2>1, <2>3 DEF AskedInv
    <2>6. InForce(q, n)
      BY <1>3, <2>1
    <2>7. \A p \in Seq(Setting), m \in Nat :
              p = q /\ m = n => InForce(p, m + 1)'
      <3> HIDE DEF s, n, q
      <3> SUFFICES ASSUME NEW p \in Seq(Setting), NEW m \in Nat, p = q, m = n
                   PROVE  InForce(p, m + 1)'
        OBVIOUS
      <3>1. InForce(p, m) /\ m + 1 <= Len(p) /\ Head(request) = p[m + 1]
        BY <2>4, <2>5, <2>6 DEF s
      <3> QED BY <1>3, <1>7, <3>1, OneMore
    <2>8. InForce(Requests[requests], Len(Requests[requests]) - Len(request))'
      <3>1. PICK p \in Seq(Setting), m \in Nat : p = q /\ m = n
        BY <2>2, <2>4
      <3>2. InForce(p, m + 1)'
        BY <2>7, <3>1
      <3>3. Requests[requests'] = p /\ Len(p) - Len(request') = m + 1
        BY <2>1, <2>4, <3>1
      <3> QED BY <3>2, <3>3 DEF InForce
    <2> HIDE DEF s, n, q
    <2>9. ASSUME NEW r, NEW i, Last(r, i)' PROVE SetFor(r, i, Now(Asked(r)[i]))'
      <3>1. Last(r, i) /\ SetFor(r, i, Now(Asked(r)[i])) /\ r \in 1 .. run
            /\ Asked(r)' = Asked(r)
        <4>1. r \in 1 .. run
          BY <2>1, <2>9 DEF Last
        <4> QED BY <1>2, <1>3, <2>9, <4>1
      <3>2. PICK t \in Setting, v \in Setting :
                   t = Asked(r)[i] /\ v = s /\ v = Head(request)
        <4>1. s \in Setting /\ s = Head(request)
          BY <1>3, <1>7, OneSetting DEF s
        <4> QED BY <3>1, <4>1, AskedSetting
      <3>3. Now(Asked(r)[i])' = Now(t)'
        BY <3>1, <3>2 DEF Now
      <3>4. CASE Replaces(v, t)
        <4>1. asked[r] < requests
          BY <2>1, <3>1 DEF AskedInv
        <4>2. requests \in asked[r] + 1 .. requests
          <5>1. asked[r] \in 1 .. requests
            BY <3>1, AskedSetting
          <5> QED BY <2>2, <4>1, <5>1
        <4>3. Now(t)' = v.to
          BY <1>3, <1>7, <3>2, <3>4, OneSetting
        <4>4. SetFor(r, i, v.to)
          BY <2>4, <2>5, <3>2, <3>4, <4>2 DEF q, SetFor, Asked
        <4> QED BY <2>1, <3>3, <4>3, <4>4 DEF SetFor
      <3>5. CASE ~Replaces(v, t)
        <4>1. Now(t)' = Now(t)
          BY <1>3, <1>7, <3>2, <3>5, OneSetting
        <4>2. SetFor(r, i, Now(t))
          BY <3>1, <3>2
        <4> QED BY <2>1, <3>3, <4>1, <4>2 DEF SetFor
      <3> QED BY <3>4, <3>5
    <2>10. file_infos' \in [Files -> [filename : Nat, description : Nat]]
      BY <1>3, <1>7, OneSetting
    <2> QED BY <1>5, <2>1, <2>8, <2>9, <2>10 DEF SettingsInv
  <1>8. CASE SettingThrows \/ StartRunThrows
    <2>1. /\ pc_request' = "idle" /\ UNCHANGED <<settings, run, asked>>
      BY <1>8 DEF SettingThrows, StartRunThrows, DropRequest
    <2>2. UNCHANGED <<file_infos, run_duration, extra_info>>
      BY <2>1 DEF settings
    <2>4. ASSUME NEW r, NEW i, Last(r, i)' PROVE SetFor(r, i, Now(Asked(r)[i]))'
      <3>1. r \in 1 .. run
        BY <2>1, <2>4 DEF Last
      <3> QED BY <1>2, <2>2, <2>4, <3>1, SettingKept
    <2> QED BY <1>3, <1>5, <2>1, <2>2, <2>4 DEF SettingsInv
  <1>9. CASE StartRun
    <2>1. /\ pc_request = "setting" /\ pc_request' = "idle" /\ run' = run + 1
          /\ request = <<>> /\ UNCHANGED <<settings, requests>>
          /\ asked' = Append(asked, requests)
      BY <1>9 DEF StartRun
    <2>2. UNCHANGED <<file_infos, run_duration, extra_info>>
      BY <2>1 DEF settings
    <2>4. asked'[run + 1] = requests
      <3>1. requests \in 1 .. requests
        BY <2>1, RequestsType DEF AskedInv
      <3> QED BY <2>1, <3>1, AppendProperties DEF AskedInv
    <2>5. ASSUME NEW r, NEW i, Last(r, i)' PROVE SetFor(r, i, Now(Asked(r)[i]))'
      <3>1. CASE r \in 1 .. run
        BY <1>2, <2>2, <2>5, <3>1, SettingKept
      <3>2. CASE r \notin 1 .. run
        <4>1. r = run + 1
          BY <1>2, <2>1, <2>5, <3>2 DEF Last
        <4> DEFINE q == Requests[requests]
        <4>2. Asked(r)' = q /\ i \in DOMAIN q /\ Made(requests, i)
          BY <2>4, <2>5, <4>1 DEF Asked, Last
        <4>3. requests \in 1 .. Len(Requests) /\ Len(q) \in Nat /\ DOMAIN q = 1 .. Len(q)
          BY <2>1, RequestsType DEF AskedInv
        <4>4. InForce(q, Len(q))
          <5>1. Len(q) - Len(request) = Len(q)
            BY <2>1, <4>3, EmptySeq
          <5> QED BY <1>3, <2>1, <5>1
        <4>5. Now(q[i]) = q[i].to
          BY <4>2, <4>3, <4>4 DEF InForce, Made
        <4>6. Now(Asked(r)[i])' = q[i].to
          BY <2>2, <4>2, <4>5 DEF Now
        <4>7. Requests[asked'[r]][i].to = q[i].to
          BY <2>4, <4>1
        <4> QED BY <4>6, <4>7 DEF SetFor
      <3> QED BY <3>1, <3>2
    <2> QED BY <1>3, <1>5, <2>1, <2>2, <2>5 DEF SettingsInv
  <1> QED BY <1>6, <1>7, <1>8, <1>9 DEF Client, Request

LEMMA SettingsStep ==
    ASSUME FilesInv, AskedInv, SettingsInv, [Next]_vars PROVE SettingsInv'
  <1>1. CASE Client
    BY <1>1, RequestSettings
  <1>2. CASE UNCHANGED <<run, asked, request, pc_request, requests, file_infos,
                         run_duration, extra_info>>
    <2>1. /\ \A r, i : (Last(r, i)' <=> Last(r, i)) /\ Asked(r)' = Asked(r)
          /\ \A r, i, v : SetFor(r, i, v)' <=> SetFor(r, i, v)
          /\ \A r, i : Last(r, i) => r \in 1 .. run
      BY <1>2 DEF Last, Asked, SetFor
    <2>2. /\ file_infos' \in [Files -> [filename : Nat, description : Nat]]
          /\ pc_request' = "setting" =>
                 InForce(Requests[requests], Len(Requests[requests]) - Len(request))'
          /\ \A r, i : Last(r, i)' => SetFor(r, i, Now(Asked(r)[i]))'
      <3>1. pc_request' = "setting" =>
                InForce(Requests[requests], Len(Requests[requests]) - Len(request))'
        BY <1>2 DEF SettingsInv, InForce, Now
      <3>2. ASSUME NEW r, NEW i, Last(r, i)' PROVE SetFor(r, i, Now(Asked(r)[i]))'
        BY <1>2, <2>1, <3>2, SettingKept
      <3> QED BY <1>2, <3>1, <3>2 DEF SettingsInv
    <2>3. CASE UNCHANGED house_duration /\ Begun' = Begun
      <3>1. ASSUME NEW r, NEW i, Last(r, i)', r <= Begun', Asked(r)'[i].field = "duration"
            PROVE  SetFor(r, i, house_duration)'
        <4>1. Last(r, i) /\ r <= Begun /\ Asked(r)[i].field = "duration"
          BY <2>1, <2>3, <3>1
        <4>2. SetFor(r, i, house_duration)
          BY <4>1 DEF SettingsInv
        <4> QED BY <1>2, <2>3, <4>2 DEF SetFor
      <3> QED BY <2>2, <3>1 DEF SettingsInv
    <2>4. CASE house_duration' = run_duration
      <3>1. ASSUME NEW r, NEW i, Last(r, i)', r <= Begun', Asked(r)'[i].field = "duration"
            PROVE  SetFor(r, i, house_duration)'
        <4>1. SetFor(r, i, Now(Asked(r)[i])) /\ Asked(r)[i].field = "duration"
          BY <2>1, <3>1 DEF SettingsInv
        <4>2. Now(Asked(r)[i]) = house_duration'
          BY <2>4, <4>1 DEF Now
        <4> QED BY <1>2, <4>1, <4>2 DEF SetFor
      <3> QED BY <2>2, <3>1 DEF SettingsInv
    <2>5. \/ UNCHANGED house_duration /\ Begun' = Begun
          \/ house_duration' = run_duration
      <3>1. CASE Registration
        BY <1>2, <3>1 DEF Registration, RegisterWriter, UnregisterWriter, Activate,
           house_vars, Begun
      <3>2. CASE Client
        BY <1>2, <3>2 DEF Client, Request, NewRequest, ApplySetting, SettingThrows, StartRun,
           StartRunThrows, DropRequest, Requesting, house_vars, Begun
      <3>3. CASE RunControl
        BY <1>2, <3>3 DEF RunControl, Run, StartFiles, StartFilesFails, BeginFinishing,
           FinishFile, CancelAll, FinishFileThrows, FinishNull, house_vars, Begun
      <3>4. CASE UNCHANGED <<house_duration, pc_run>>
        BY <1>2, <3>4 DEF Begun
      <3> QED BY <3>1, <3>2, <3>3, <3>4, NextSteps, NodeSteps, ControlVars, WriterSteps,
              AllVars DEF Control
    <2> QED BY <2>3, <2>4, <2>5
  <1> QED BY <1>1, <1>2, NoRequest

-----------------------------------------------------------------------------
(* The headers of the files, and the labels of the spectra.                *)

\* SetFor, for setting i of request k when n requests have been made.
SetBy(k, n, i, v) ==
    \/ v = Requests[k][i].to
    \/ \E m \in k + 1 .. n :
           \E j \in DOMAIN Requests[m] :
               Replaces(Requests[m][j], Requests[k][i]) /\ v = Requests[m][j].to

\* A setting that request k makes last.
MadeBy(k, i) == i \in DOMAIN Requests[k] /\ Made(k, i)

LEMMA MoreRequests ==
    ASSUME NEW k \in Nat, NEW n \in Nat, NEW m \in Nat, n <= m, NEW i, NEW v,
           SetBy(k, n, i, v)
    PROVE  SetBy(k, m, i, v)
  <1>1. k + 1 .. n \subseteq k + 1 .. m
    OBVIOUS
  <1> QED BY <1>1 DEF SetBy

LEMMA SettingsMade ==
    ASSUME AskedInv, SettingsInv, NEW r \in 1 .. run, NEW i, MadeBy(asked[r], i)
    PROVE  LET s == Requests[asked[r]][i] IN
           /\ s \in Setting /\ asked[r] \in Nat /\ requests \in Nat
           /\ s.field \in {"filename", "description"} =>
                  s.file \in Files /\ SetBy(asked[r], requests, i, file_infos[s.file][s.field])
           /\ s.field = "values" => SetBy(asked[r], requests, i, extra_info)
           /\ s.field = "duration" =>
                  /\ SetBy(asked[r], requests, i, run_duration)
                  /\ r <= Begun => SetBy(asked[r], requests, i, house_duration)
  <1> DEFINE s == Requests[asked[r]][i]
  <1>1. Last(r, i) /\ Asked(r)[i] = s
    BY DEF Last, Asked, MadeBy
  <1>2. s \in Setting /\ asked[r] \in 1 .. requests /\ requests \in Nat
    <2>1. Asked(r)[i] \in Setting /\ asked[r] \in 1 .. requests
      BY <1>1, AskedSetting
    <2>2. requests \in Nat
      BY RequestsType DEF AskedInv
    <2> QED BY <1>1, <2>1, <2>2
  <1>3. SetFor(r, i, Now(s))
    BY <1>1 DEF SettingsInv
  <1>4. s.field = "duration" /\ r <= Begun => SetFor(r, i, house_duration)
    BY <1>1 DEF SettingsInv
  <1>5. /\ s.field \in {"filename", "description"} =>
               s.file \in Files /\ Now(s) = file_infos[s.file][s.field]
        /\ s.field = "values" => Now(s) = extra_info
        /\ s.field = "duration" => Now(s) = run_duration
    BY <1>2 DEF Setting, Now
  <1>6. \A v : SetFor(r, i, v) => SetBy(asked[r], requests, i, v)
    BY DEF SetFor, SetBy
  <1> HIDE DEF s
  <1>7. asked[r] \in Nat
    BY <1>2
  <1> QED BY <1>2, <1>3, <1>4, <1>5, <1>6, <1>7 DEF s

LEMMA HeadersStep ==
    ASSUME FilesInv, AskedInv, SettingsInv, FilesAsRequested, [Next]_vars
    PROVE  FilesAsRequested'
  <1> SUFFICES ASSUME pc_run' = "running", ~canceled',
                      NEW i, MadeBy(asked'[run'], i)
               PROVE  LET s == Requests[asked'[run']][i] IN
                      /\ s.field \in {"filename", "description"} =>
                             SetBy(asked'[run'], requests', i, mw_ptrs'[s.file][s.field])
                      /\ s.field = "duration" => \A f \in Files :
                             SetBy(asked'[run'], requests', i, mw_ptrs'[f].duration)
    BY DEF FilesAsRequested, SetFor, SetBy, MadeBy
  <1>1. ~canceled /\ UNCHANGED run
    <2>1. pc_run' # "launched"
      OBVIOUS
    <2>2. Control => UNCHANGED run
      BY <2>1, ControlRuns
    <2> QED BY <2>2, CanceledStays, NextSteps, NodeSteps, ControlVars, WriterSteps, AllVars
  <1>2. \/ pc_run = "running" /\ UNCHANGED mw_ptrs
        \/ /\ pc_run = "launched" /\ mw_ptrs' = [f \in Files |-> Header(f)]
           /\ UNCHANGED requests
    <2>1. CASE Registration
      BY <2>1 DEF Registration, RegisterWriter, UnregisterWriter, Activate, house_vars
    <2>2. CASE Client
      BY <2>2 DEF Client, Request, NewRequest, ApplySetting, SettingThrows, StartRun,
         StartRunThrows, DropRequest, Requesting, house_vars
    <2>3. CASE RunControl
      <3>1. CASE StartFiles
        BY <3>1 DEF StartFiles, Running, request_vars
      <3>2. ~StartFilesFails
        BY DEF StartFilesFails
      <3>3. CASE BeginFinishing \/ FinishFile \/ CancelAll \/ FinishFileThrows \/ FinishNull
        BY <3>3 DEF BeginFinishing, FinishFile, CancelAll, FinishFileThrows, FinishNull,
           house_vars
      <3> QED BY <2>3, <3>1, <3>2, <3>3 DEF RunControl, Run
    <2>4. CASE UNCHANGED <<pc_run, mw_ptrs>>
      BY <2>4
    <2> QED BY <2>1, <2>2, <2>3, <2>4, NextSteps, NodeSteps, ControlVars, WriterSteps,
            AllVars DEF Control
  <1>3. PICK r \in Nat : r = run /\ r \in 1 .. run
    <2>1. run > 0 /\ run \in Nat
      BY <1>2 DEF FilesInv
    <2> QED BY <2>1
  <1>4. asked'[r] = asked[r] /\ requests <= requests' /\ requests' \in Nat
    <2>1. requests' \in Nat
      BY AskedStep, RequestsType DEF AskedInv
    <2> QED BY <1>3, <2>1, AskedStays
  <1>5. PICK k : k = asked[r]
    OBVIOUS
  <1>6. PICK s : s = Requests[k][i]
    OBVIOUS
  <1>7. MadeBy(k, i) /\ asked'[run'] = k
    BY <1>1, <1>3, <1>4, <1>5
  <1>8. /\ k \in Nat /\ requests \in Nat
        /\ s.field \in {"filename", "description"} =>
               s.file \in Files /\ SetBy(k, requests, i, file_infos[s.file][s.field])
        /\ s.field = "duration" => SetBy(k, requests, i, run_duration)
    BY <1>3, <1>5, <1>6, <1>7, SettingsMade
  <1>9. CASE pc_run = "running" /\ UNCHANGED mw_ptrs
    <2>1. /\ s.field \in {"filename", "description"} =>
                 SetBy(k, requests, i, mw_ptrs[s.file][s.field])
          /\ s.field = "duration" => \A f \in Files : SetBy(k, requests, i, mw_ptrs[f].duration)
      <3>1. \A v : SetFor(run, i, v) <=> SetBy(k, requests, i, v)
        BY <1>3, <1>5 DEF SetFor, SetBy
      <3>2. /\ s.field \in {"filename", "description"} =>
                   SetFor(run, i, mw_ptrs[s.file][s.field])
            /\ s.field = "duration" => \A f \in Files : SetFor(run, i, mw_ptrs[f].duration)
        <4>1. /\ i \in DOMAIN Requests[asked[run]] /\ Made(asked[run], i)
              /\ s = Requests[asked[run]][i]
          BY <1>3, <1>5, <1>6, <1>7 DEF MadeBy
        <4> QED BY <1>1, <1>9, <4>1 DEF FilesAsRequested
      <3> QED BY <3>1, <3>2
    <2> QED BY <1>4, <1>6, <1>7, <1>8, <1>9, <2>1, MoreRequests
  <1>10. CASE /\ pc_run = "launched" /\ mw_ptrs' = [f \in Files |-> Header(f)]
              /\ UNCHANGED requests
    <2>1. \A f \in Files : /\ mw_ptrs'[f].filename = file_infos[f].filename
                           /\ mw_ptrs'[f].description = file_infos[f].description
                           /\ mw_ptrs'[f].duration = run_duration
      BY <1>10 DEF Header
    <2>2. s.field \in {"filename", "description"} =>
              mw_ptrs'[s.file][s.field] = file_infos[s.file][s.field]
      <3>1. CASE s.field = "filename"
        <4>1. mw_ptrs'[s.file].filename = file_infos[s.file].filename
          BY <1>8, <2>1, <3>1
        <4> QED BY <3>1, <4>1
      <3>2. CASE s.field = "description"
        <4>1. mw_ptrs'[s.file].description = file_infos[s.file].description
          BY <1>8, <2>1, <3>2
        <4> QED BY <3>2, <4>1
      <3> QED BY <3>1, <3>2
    <2> QED BY <1>6, <1>7, <1>8, <1>10, <2>1, <2>2
  <1> QED BY <1>2, <1>9, <1>10

LEMMA LabelsStep ==
    ASSUME TypesInv, TypesInv', AskedInv, SettingsInv, LabelsInv, [Next]_vars
    PROVE  LabelsInv'
  <1> SUFFICES ASSUME broadcast'.chunk # NoChunk,
                      NEW r, r = broadcast'.chunk.run, r \in 1 .. run',
                      NEW i, MadeBy(asked'[r], i)
               PROVE  LET t == Requests[asked'[r]][i] IN
                      /\ t.field = "description" /\ t.file = 0 =>
                             SetBy(asked'[r], requests', i, broadcast'.notes)
                      /\ t.field = "duration" /\ pc_relay' # "duration" =>
                             SetBy(asked'[r], requests', i, broadcast'.duration)
                      /\ t.field = "values" /\ pc_relay' \notin {"duration", "values"} =>
                             SetBy(asked'[r], requests', i, broadcast'.freq_lo)
    <2>1. NoChunk' = NoChunk
      BY DEF NoChunk
    <2> QED BY <2>1 DEF LabelsInv, SetFor, SetBy, MadeBy, Last, Asked
  <1>1. SpectraInv /\ FilesInv /\ Latest \in Nat /\ Latest <= run /\ run \in Nat
    BY LatestRun DEF TypesInv, FilesInv
  <1>2. r \in 1 .. run
    <2>1. CASE Relay
      <3>1. UNCHANGED run
        BY <2>1, NodeSteps, ControlVars
      <3> QED BY <3>1
    <2>2. CASE UNCHANGED broadcast
      <3>1. broadcast.chunk \in SentChunk
        BY <1>1, <2>2 DEF SpectraInv
      <3>2. broadcast.chunk.run \in 1 .. Latest
        BY <3>1 DEF SentChunk
      <3> QED BY <1>1, <2>2, <3>2
    <2>3. Source \/ Fft \/ Averager => UNCHANGED broadcast
      BY DEF Source, Fft, FftPass, FftExit, FftUnchanged, Averager, AvgStart, AvgRun,
         AvgStop, AvgStopped, AvgExit, AvgUnchanged
    <2> QED BY <2>1, <2>2, <2>3, NextSteps, PathVars, WriterSteps, AllVars
  <1>3. PICK k : k = asked[r]
    OBVIOUS
  <1>4. PICK t : t = Requests[k][i]
    OBVIOUS
  <1>5. asked'[r] = k /\ requests <= requests' /\ requests' \in Nat /\ MadeBy(k, i)
    <2>1. requests' \in Nat
      BY <1>1, AskedStep, RequestsType DEF AskedInv
    <2> QED BY <1>1, <1>2, <1>3, <2>1, AskedStays
  <1>6. /\ k \in Nat /\ requests \in Nat
        /\ t.field = "description" => SetBy(k, requests, i, file_infos[t.file].description)
        /\ t.field = "values" => SetBy(k, requests, i, extra_info)
        /\ t.field = "duration" /\ r <= Begun => SetBy(k, requests, i, house_duration)
    BY <1>2, <1>3, <1>4, <1>5, SettingsMade
  <1>7. ASSUME broadcast.chunk # NoChunk, broadcast.chunk.run = r
        PROVE  /\ t.field = "description" /\ t.file = 0 =>
                      SetBy(k, requests, i, broadcast.notes)
               /\ t.field = "duration" /\ pc_relay # "duration" =>
                      SetBy(k, requests, i, broadcast.duration)
               /\ t.field = "values" /\ pc_relay \notin {"duration", "values"} =>
                      SetBy(k, requests, i, broadcast.freq_lo)
    <2>1. \A v : SetFor(r, i, v) <=> SetBy(k, requests, i, v)
      BY <1>3 DEF SetFor, SetBy
    <2>2. Last(r, i) /\ Asked(r)[i] = t
      BY <1>2, <1>3, <1>4, <1>5 DEF Last, Asked, MadeBy
    <2> QED BY <1>7, <2>1, <2>2 DEF LabelsInv
  <1>8. CASE Relay
    <2>1. UNCHANGED requests
      BY <1>8, NodeSteps, ControlVars
    <2>2. CASE RelayDescription
      <3>1. broadcast'.notes = file_infos[0].description /\ pc_relay' = "duration"
        BY <2>2 DEF RelayDescription
      <3> QED BY <1>4, <1>5, <1>6, <2>1, <3>1
    <2>3. CASE RelayDuration
      <3>1. /\ broadcast'.chunk = broadcast.chunk /\ broadcast'.notes = broadcast.notes
            /\ broadcast'.duration = house_duration
            /\ pc_relay = "duration" /\ pc_relay' = "values"
        BY <2>3 DEF RelayDuration
      <3>2. r <= Begun
        <4>1. broadcast.chunk \in SentChunk
          BY <1>1, <3>1 DEF SpectraInv
        <4>2. r \in 1 .. Latest
          BY <3>1, <4>1 DEF SentChunk
        <4>3. Latest <= Begun
          BY <1>1 DEF Latest, Begun
        <4> QED BY <1>1, <4>2, <4>3 DEF Begun
      <3> QED BY <1>4, <1>5, <1>6, <1>7, <2>1, <3>1, <3>2
    <2>4. CASE RelayValues
      <3>1. /\ broadcast'.chunk = broadcast.chunk /\ broadcast'.notes = broadcast.notes
            /\ broadcast'.duration = broadcast.duration
            /\ broadcast'.freq_lo = extra_info /\ pc_relay = "values"
        BY <2>4 DEF RelayValues, RelayTakes
      <3> QED BY <1>4, <1>5, <1>6, <1>7, <2>1, <3>1
    <2>5. CASE RelayOther \/ RelayExit
      <3>1. UNCHANGED broadcast /\ pc_relay = "loop"
        BY <2>5 DEF RelayOther, RelayExit, RelayTakes
      <3> QED BY <1>4, <1>5, <1>7, <2>1, <3>1
    <2> QED BY <1>8, <2>2, <2>3, <2>4, <2>5 DEF Relay
  <1>9. CASE UNCHANGED <<broadcast, pc_relay>>
    BY <1>4, <1>5, <1>6, <1>7, <1>9, MoreRequests
  <1>10. Source \/ Fft \/ Averager => UNCHANGED <<broadcast, pc_relay>>
    BY DEF Source, Fft, FftPass, FftExit, FftUnchanged, Averager, AvgStart, AvgRun,
       AvgStop, AvgStopped, AvgExit, AvgUnchanged
  <1> QED BY <1>8, <1>9, <1>10, NextSteps, PathVars, WriterSteps, AllVars

-----------------------------------------------------------------------------
(* The theorems.                                                           *)

LEMMA RequestsInvInit == Init => RequestsInv
  <1> SUFFICES ASSUME Init PROVE RequestsInv
    OBVIOUS
  <1>1. /\ file_infos = [f \in Files |-> [filename |-> 0, description |-> 0]]
        /\ run = 0 /\ pc_request = "idle" /\ pc_run = "inactive"
        /\ broadcast.chunk = NoChunk
    BY DEF Init, ControlInit, PathInit
  <1>2. \A r, i : ~Last(r, i)
    BY <1>1 DEF Last
  <1>3. SettingsInv
    BY <1>1, <1>2 DEF SettingsInv
  <1> QED BY <1>1, <1>3, AskedInit DEF RequestsInv, FilesAsRequested, LabelsInv

LEMMA RequestsInvStep ==
    TypesInv /\ RequestsInv /\ [Next]_vars => TypesInv' /\ RequestsInv'
  BY TypesStep, AskedStep, SettingsStep, HeadersStep, LabelsStep DEF TypesInv, RequestsInv

LEMMA RequestsInvariant == Spec => [](TypesInv /\ RequestsInv)
  BY TypesInit, RequestsInvInit, RequestsInvStep, PTL DEF Spec

\* For any requests at any time: the files of a run have the names,
\* descriptions and duration of the request that started it, or of a later one.
THEOREM FilesOfTheRequest == Spec => []FilesAsRequested
  BY RequestsInvariant, PTL DEF RequestsInv

\* For any requests at any time, also during a run or between start_run and
\* start_files: a spectrum is never broadcast with notes, a duration or values
\* older than the request of the run its data are of, though the relay asks for
\* them one by one when it sends the spectrum.
THEOREM LabelsNeverOlder == Spec => []LabelsNotOlder
  <1>1. TypesInv /\ RequestsInv => LabelsNotOlder
    <2> SUFFICES ASSUME TypesInv, RequestsInv, broadcast.chunk # NoChunk, pc_relay = "loop",
                        NEW r, r = broadcast.chunk.run,
                        NEW i \in DOMAIN Requests[asked[r]], Made(asked[r], i)
                 PROVE  LET q == Requests[asked[r]] IN
                        /\ q[i].field = "description" /\ q[i].file = 0 =>
                               SetFor(r, i, broadcast.notes)
                        /\ q[i].field = "duration" => SetFor(r, i, broadcast.duration)
                        /\ q[i].field = "values" => SetFor(r, i, broadcast.freq_lo)
      BY DEF LabelsNotOlder
    <2>1. r \in 1 .. run
      <3>1. broadcast.chunk \in SentChunk /\ Latest \in Nat /\ Latest <= run /\ run \in Nat
        BY LatestRun DEF TypesInv, SpectraInv, FilesInv
      <3>2. r \in 1 .. Latest
        BY <3>1 DEF SentChunk
      <3> QED BY <3>1, <3>2
    <2>2. Last(r, i) /\ Asked(r) = Requests[asked[r]]
      BY <2>1 DEF Last, Asked
    <2> QED BY <2>2 DEF RequestsInv, LabelsInv
  <1> QED BY <1>1, RequestsInvariant, PTL

\* All variables keep their types and all streams their slots.
THEOREM PathTypeCorrect == Spec => []TypeOK
  <1>1. RunsInv /\ RequestsInv => TypeOK
    <2> SUFFICES ASSUME RunsInv, RequestsInv PROVE TypeOK
      OBVIOUS
    <2>1. /\ TypesInv /\ SumInv /\ AskedInv /\ FilesInv /\ SourceInv /\ StreamsInv
          /\ SpectraInv /\ ControlTypes
      BY DEF RunsInv, RequestsInv, TypesInv
    <2>2. mw_ptrs = <<>> \/ DOMAIN mw_ptrs = Files
      BY <2>1 DEF FilesInv, HasFiles
    <2>3. streaming \subseteq Writers \X (1 .. run)
      <3>1. ASSUME NEW a \in streaming PROVE a \in Writers \X (1 .. run)
        <4>1. PICK w \in Writers : a = <<w, run>>
          BY <2>1 DEF FilesInv
        <4>2. run \in 1 .. run
          BY <2>1, <3>1 DEF FilesInv, Without
        <4> QED BY <4>1, <4>2
      <3> QED BY <3>1
    <2>4. run \in 0 .. Len(Requests) /\ Len(asked) = run
      <3>1. run \in Nat /\ run <= requests /\ requests \in 0 .. Len(Requests)
            /\ Len(asked) = run
        BY <2>1 DEF AskedInv, FilesInv
      <3> QED BY <3>1, RequestsType
    <2>5. /\ Latest \in Nat /\ Latest <= run /\ SentChunk \subseteq Chunk
          /\ SentChunk \cup {NoChunk} \subseteq Chunk \cup {NoChunk}
      <3>1. Latest \in Nat /\ Latest <= run /\ run \in Nat
        BY <2>1, LatestRun DEF FilesInv
      <3>2. 1 .. Latest \subseteq 1 .. run
        BY <3>1
      <3> QED BY <3>1, <3>2 DEF SentChunk, Chunk
    <2>6. average \in Seq(Chunk) /\ spectrum \in Seq(Chunk \cup {NoChunk})
      BY <2>1, <2>5, LargerSet DEF SpectraInv
    <2>7. f_input_counter \in 0 .. MaxChunks
      <3>1. f_input_counter = Len(average) /\ Len(average) \in Nat /\ MaxChunks \in Nat
        BY <2>1, <2>6, LenProperties, Bounds DEF SpectraInv
      <3>2. CASE average = <<>>
        BY <3>1, <3>2, EmptySeq
      <3>3. CASE average # <<>>
        <4>1. Len(average) \in 1 .. Len(average) /\ 1 \in 1 .. Len(average)
          BY <2>6, <3>1, <3>3, EmptySeq
        <4>2. average[Len(average)] \in Chunk /\ average[1] \in Chunk
          BY <2>6, <4>1, ElementOfSeq
        <4>3. average[Len(average)].number = average[1].number + (Len(average) - 1)
          BY <2>1, <4>1 DEF SumInv
        <4>4. average[Len(average)].number \in 1 .. MaxChunks
              /\ average[1].number \in 1 .. MaxChunks
          BY <4>2 DEF Chunk
        <4> QED BY <3>1, <4>3, <4>4
      <3> QED BY <3>2, <3>3
    <2>8. NumToAverage > 0 => f_input_counter < NumToAverage
      BY <2>1 DEF SumInv, SpectraInv
    <2>9. source \in 0 .. run /\ sent \in Chunk \cup {NoChunk}
      <3>1. run \in Nat
        BY <2>1 DEF FilesInv
      <3> QED BY <2>1, <2>5, <3>1 DEF SourceInv
    <2>10. pc_request \in {"idle", "setting"}
      BY <2>1 DEF AskedInv
    <2>11. /\ Len(fft_in) <= TimeLength /\ Len(avg_in) <= FreqLength
           /\ Len(relay_in) <= OutLength
           /\ \A w \in Writers : Len(writer_in[w]) <= FreqLength
      BY <2>1 DEF StreamsInv
    <2> QED BY <2>1, <2>2, <2>3, <2>4, <2>6, <2>7, <2>8, <2>9, <2>10, <2>11
            DEF TypeOK, ControlTypes
  <1> QED BY <1>1, RunsInvariant, RequestsInvariant, PTL

=============================================================================
