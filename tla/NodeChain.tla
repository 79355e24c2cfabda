----------------------------- MODULE NodeChain -----------------------------
(***************************************************************************)
(* data_producer, transforms one behind the other, dead_end: the chain     *)
(* that is run without a board.  frequency_transform and                   *)
(* inverse_frequency_transform have the same loop and the same end, and    *)
(* node i of 1 .. N is either.                                             *)
(*                                                                         *)
(* Node i sets the slots of out[i] and node i + 1 takes them.  A slot is   *)
(* with its reader until the reader gets the next one, so it leaves the    *)
(* stream when the reader is done with it.  A set waits for room, and may  *)
(* be refused once the nodes are cancelled.  No node sets s_error.         *)
(***************************************************************************)
EXTENDS Naturals, Sequences

CONSTANTS
    N,          \* transforms in the chain
    Length,     \* length, freq-length, time-length: slots of a stream
    MaxChunks   \* bound: chunks the producer sends

ASSUME ChainAssumption ==
    N \in Nat /\ Length \in Nat \ {0} /\ MaxChunks \in Nat

Transforms == 1 .. N
Senders == 0 .. N       \* node 0 is the producer
Sink == N + 1
Nodes == 0 .. N + 1

VARIABLES
    out,
    pc,
    passed,     \* history: the chunks node i has sent on
    t_received, \* the sink's count
    reported,   \* the total it logged last
    canceled

vars == <<out, pc, passed, t_received, reported, canceled>>

\* A slot is known by its command and by how many chunks its sender has sent
\* when it is set, its own included: that is the number of a chunk.
Slot == [command : {"s_start", "s_run", "s_stop", "s_exit"}, number : Nat]

Command(c, n) == [command |-> c, number |-> n]

InitProducer == passed = [i \in Senders |-> 0]

InitTransforms ==
    /\ out = [i \in Senders |-> <<>>]
    /\ pc = [i \in Nodes |-> IF i = 0 THEN "start" ELSE "loop"]

InitSink == t_received = 0 /\ reported = 0

Init == InitProducer /\ InitTransforms /\ InitSink /\ canceled = FALSE

\* The node goes from one place of its loop to another.
Step(i, from, to) == pc[i] = from /\ pc' = [pc EXCEPT ![i] = to]

Room(i) == Len(out[i]) < Length

Append1(i, slot) == out' = [out EXCEPT ![i] = Append(@, slot)]

-----------------------------------------------------------------------------
(* The end of data_producer and of the transforms: s_stop and s_exit.      *)

\* Mutant: the answer of set is not looked at and a full stream waited for.
SendStopWaits(i) ==
    /\ Step(i, "stop", "exit") /\ Room(i)
    /\ Append1(i, Command("s_stop", passed[i]))
    /\ UNCHANGED <<passed, t_received, reported, canceled>>

\* A refused s_stop is the end of the node.
SendStop(i) ==
    /\ \/ /\ Step(i, "stop", "exit") /\ Room(i)
          /\ Append1(i, Command("s_stop", passed[i]))
       \/ Step(i, "stop", "done") /\ canceled /\ UNCHANGED out
    /\ UNCHANGED <<passed, t_received, reported, canceled>>

SendExit(i) ==
    /\ Step(i, "exit", "done")
    /\ \/ Room(i) /\ Append1(i, Command("s_exit", passed[i]))
       \/ canceled /\ UNCHANGED out
    /\ UNCHANGED <<passed, t_received, reported, canceled>>

SendEnd(i) == SendStop(i) \/ SendExit(i)

-----------------------------------------------------------------------------
(* data_producer::execute.                                                 *)

ProducerStart ==
    /\ \/ Step(0, "start", "loop") /\ Room(0) /\ Append1(0, Command("s_start", 0))
       \/ Step(0, "start", "done") /\ canceled /\ UNCHANGED out
    /\ UNCHANGED <<passed, t_received, reported, canceled>>

\* One round of the loop: the block is looked at, and written if it has not
\* the size yet.  The stream may show a stop condition at any time.
ProducerTest ==
    /\ \/ ~canceled /\ passed[0] < MaxChunks /\ Step(0, "loop", "set")
       \/ Step(0, "loop", "stop")
    /\ UNCHANGED <<out, passed, t_received, reported, canceled>>

ProducerSet ==
    /\ \/ /\ Step(0, "set", "loop") /\ Room(0)
          /\ Append1(0, Command("s_run", passed[0] + 1))
          /\ passed' = [passed EXCEPT ![0] = @ + 1]
       \/ Step(0, "set", "stop") /\ canceled /\ UNCHANGED <<out, passed>>
    /\ UNCHANGED <<t_received, reported, canceled>>

Producer == ProducerStart \/ ProducerTest \/ ProducerSet \/ SendEnd(0)

-----------------------------------------------------------------------------
(* frequency_transform::execute, inverse_frequency_transform::execute.     *)

Input(i) == Head(out[i - 1])

\* The loop is left when the node is cancelled.
Test(i) ==
    /\ Step(i, "loop", IF canceled THEN "stop" ELSE "get")
    /\ UNCHANGED <<out, passed, t_received, reported, canceled>>

\* s_none: nothing came, and the cancellation is looked at again.
GetNone(i) ==
    /\ Step(i, "get", "loop") /\ canceled /\ out[i - 1] = <<>>
    /\ UNCHANGED <<out, passed, t_received, reported, canceled>>

\* Mutant: s_exit is passed over, as dead_end does.
GetNoExit(i) ==
    /\ out[i - 1] # <<>>
    /\ \/ /\ Input(i).command = "s_exit" /\ Step(i, "get", "loop")
          /\ out' = [out EXCEPT ![i - 1] = Tail(@)]
       \/ Input(i).command # "s_exit" /\ Step(i, "get", "set") /\ UNCHANGED out
    /\ UNCHANGED <<passed, t_received, reported, canceled>>

\* s_exit ends the loop; everything else is to be sent on.
Get(i) ==
    /\ out[i - 1] # <<>>
    /\ \/ /\ Input(i).command = "s_exit" /\ Step(i, "get", "stop")
          /\ out' = [out EXCEPT ![i - 1] = Tail(@)]
       \/ Input(i).command # "s_exit" /\ Step(i, "get", "set") /\ UNCHANGED out
    /\ UNCHANGED <<passed, t_received, reported, canceled>>

SentOn(i) ==
    /\ passed' = IF Input(i).command = "s_run"
                 THEN [passed EXCEPT ![i] = @ + 1] ELSE passed
    /\ UNCHANGED <<t_received, reported, canceled>>

\* Mutant: what the output does not take is dropped.
SetOrDrop(i) ==
    /\ Step(i, "set", "loop")
    /\ out' = [out EXCEPT ![i - 1] = Tail(@),
                          ![i] = IF Room(i) THEN Append(@, Input(i)) ELSE @]
    /\ SentOn(i)

\* s_start, s_stop and the transformed data are sent on.
Set(i) ==
    /\ Step(i, "set", "loop") /\ Room(i)
    /\ out' = [out EXCEPT ![i - 1] = Tail(@), ![i] = Append(@, Input(i))]
    /\ SentOn(i)

\* Mutant: the s_stop is sent first and the data are tried again.
StopThenSet(i) ==
    /\ canceled
    /\ \/ /\ Step(i, "set", "set") /\ Room(i)
          /\ Append1(i, Command("s_stop", passed[i]))
       \/ /\ Step(i, "set", IF Input(i).command = "s_run" THEN "stop" ELSE "done")
          /\ UNCHANGED out
    /\ UNCHANGED <<passed, t_received, reported, canceled>>

\* Refused data end the loop, a refused s_start or s_stop throws out of it.
SetRefused(i) ==
    /\ canceled
    /\ Step(i, "set", IF Input(i).command = "s_run" THEN "stop" ELSE "done")
    /\ UNCHANGED <<out, passed, t_received, reported, canceled>>

Transform(i) ==
    Test(i) \/ GetNone(i) \/ Get(i) \/ Set(i) \/ SetRefused(i) \/ SendEnd(i)

-----------------------------------------------------------------------------
(* dead_end::execute, connected on its input-index.                        *)

SinkTest ==
    /\ Step(Sink, "loop", IF canceled THEN "done" ELSE "get")
    /\ UNCHANGED <<out, passed, t_received, reported, canceled>>

\* s_exit changes nothing.
SinkGet ==
    /\ Step(Sink, "get", "loop")
    /\ \/ /\ out[N] = <<>> /\ canceled
          /\ UNCHANGED <<out, t_received, reported>>
       \/ /\ out[N] # <<>>
          /\ out' = [out EXCEPT ![N] = Tail(@)]
          /\ LET command == Head(out[N]).command IN
             /\ t_received' = IF command = "s_start" THEN 0
                              ELSE IF command = "s_run" THEN t_received + 1
                              ELSE t_received
             /\ reported' = IF command = "s_stop" THEN t_received ELSE reported
    /\ UNCHANGED <<passed, canceled>>

DeadEnd == SinkTest \/ SinkGet

-----------------------------------------------------------------------------
Cancel ==
    /\ ~canceled /\ canceled' = TRUE
    /\ UNCHANGED <<out, pc, passed, t_received, reported>>

Next ==
    \/ Producer \/ DeadEnd \/ Cancel
    \/ \E i \in Transforms : Transform(i)

Spec == Init /\ [][Next]_vars

Node(i) ==
    \/ i = 0 /\ Producer
    \/ i \in Transforms /\ Transform(i)
    \/ i = Sink /\ DeadEnd

\* Every node has a thread of its own.  Nothing has to be cancelled, and the
\* producer may go on for ever.
FairSpec == Spec /\ \A i \in Nodes : WF_vars(Node(i))

-----------------------------------------------------------------------------
(* Properties.                                                             *)

\* Every variable takes only the values the code can give it, and no stream
\* holds more than its slots.
TypeOK ==
    /\ out \in [Senders -> Seq(Slot)]
    /\ \A i \in Senders : Len(out[i]) <= Length
    /\ pc \in [Nodes -> {"start", "loop", "get", "set", "stop", "exit", "done"}]
    /\ passed \in [Senders -> Nat]
    /\ t_received \in Nat /\ reported \in Nat /\ canceled \in BOOLEAN

\* Once an s_stop is in a stream no data follow it, wherever in the chain and
\* whether the chain ends by itself or is cancelled.
NoDataAfterStop ==
    \A i \in Senders : \A k, m \in 1 .. Len(out[i]) :
        k < m /\ out[i][k].command = "s_stop" => out[i][m].command # "s_run"

\* The sink counts every chunk once and in order, and the totals it logs are
\* the producer's unless the chain is cancelled.
Output == INSTANCE ChainOutput WITH
    sent <- passed[0],
    stopped <- pc[0] \in {"stop", "exit", "done"},
    received <- t_received
ImplementsChainOutput == Output!Spec

\* What node i may have to wait for at its place: room in its output, or a slot
\* of its input; neither once the nodes are cancelled.
CanGo(i) ==
    \/ pc[i] = "loop"
    \/ pc[i] \in {"start", "set", "stop", "exit"} /\ (canceled \/ Room(i))
    \/ pc[i] = "get" /\ (canceled \/ out[i - 1] # <<>>)

\* A node is held up by a full output or an empty input and by nothing else.
\* No property of the code but a reading of the guards above: the proofs about
\* FairSpec take it as their hypothesis.
GoesOn(i) == CanGo(i) => ENABLED <<Node(i)>>_vars

\* Cancelled nodes end, whatever the streams are full of.
EndsWhenCanceled(i) == canceled ~> pc[i] = "done"
CancelEndsNodes == \A i \in Nodes : EndsWhenCanceled(i)

\* A producer that ends by itself takes the transforms with it, and its chunks
\* are all counted and reported by then; only the sink has to be cancelled.
EndReachesAll ==
    pc[0] = "done" ~>
        canceled \/ (reported = passed[0] /\ \A i \in Senders : pc[i] = "done")

=============================================================================
