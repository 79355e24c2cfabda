--------------------------- MODULE NodeChainProofs ---------------------------
(***************************************************************************)
(* NodeChain keeps its order, and implements ChainOutput, for every number *)
(* of transforms, slots and chunks.                                        *)
(*                                                                         *)
(* Slots carry the number of chunks sent so far, so a stream in order is   *)
(* one whose numbers go on where its reader is, grow by one with every     *)
(* chunk and end where its writer is.  A node that has ended sends no more *)
(* chunks, and whatever comes after it in the chain cannot be ahead of it. *)
(***************************************************************************)
EXTENDS NodeChain, SequenceTheorems, TLAPS

USE ChainAssumption

Weight(slot) == IF slot.command = "s_run" THEN 1 ELSE 0

\* s goes on after number b and ends with number a.
Numbered(s, b, a) ==
    /\ s = <<>> => a = b
    /\ s # <<>> => s[1].number = b + Weight(s[1]) /\ s[Len(s)].number = a
    /\ \A k \in 1 .. Len(s) - 1 : s[k + 1].number = s[k].number + Weight(s[k + 1])
    /\ \A k, m \in 1 .. Len(s) : k < m => s[k].number + Weight(s[m]) <= s[m].number
    /\ \A k \in 1 .. Len(s) : s[k].number <= a

Taken(i) == IF i = Sink THEN t_received ELSE passed[i]

Ended(i) == pc[i] \in {"stop", "exit", "done"}

\* What a slot of out[i] says of the nodes it comes from.
SlotOK(i, slot) ==
    /\ slot.command = "s_start" => slot.number = 0
    /\ slot.command \in {"s_stop", "s_exit"} =>
           /\ \E j \in 0 .. i : Ended(j) /\ passed[j] = slot.number
           /\ ~canceled => Ended(0) /\ slot.number = passed[0]

InOrder == \A i \in Senders : Numbered(out[i], Taken(i + 1), passed[i])
NoneAhead == \A i, j \in Senders : j <= i => passed[i] <= passed[j]
SlotsOK == \A i \in Senders : \A k \in 1 .. Len(out[i]) : SlotOK(i, out[i][k])
EndsInOrder ==
    ~canceled => \A i \in Senders : Ended(i) => Ended(0) /\ passed[i] = passed[0]
PlacesOK ==
    /\ pc[0] = "start" => passed[0] = 0
    /\ \A i \in Transforms : pc[i] = "set" =>
           out[i - 1] # <<>> /\ Input(i).command # "s_exit"

IInv == TypeOK /\ InOrder /\ NoneAhead /\ SlotsOK /\ EndsInOrder /\ PlacesOK

-----------------------------------------------------------------------------
(* Streams.                                                                *)

\* A slot with the next number leaves a stream in order.
LEMMA AppendNumbered ==
    ASSUME NEW s \in Seq(Slot), NEW b \in Nat, NEW a \in Nat, NEW slot \in Slot,
           Numbered(s, b, a), slot.number = a + Weight(slot)
    PROVE  Numbered(Append(s, slot), b, slot.number)
  <1> DEFINE t == Append(s, slot)
  <1>1. /\ Len(s) \in Nat /\ Len(t) = Len(s) + 1 /\ t # <<>>
        /\ \A k \in 1 .. Len(s) : t[k] = s[k] /\ s[k] \in Slot
        /\ t[Len(t)] = slot
    BY AppendProperties
  <1>2. s = <<>> <=> Len(s) = 0
    OBVIOUS
  <1>3. Weight(slot) \in {0, 1} /\ slot.number \in Nat
        /\ \A k \in 1 .. Len(s) : s[k].number \in Nat /\ Weight(s[k]) \in {0, 1}
    BY <1>1 DEF Weight, Slot
  <1> HIDE DEF t
  <1> USE DEF Numbered
  <1>4. t[1].number = b + Weight(t[1]) /\ t[Len(t)].number = slot.number
    BY <1>1, <1>2, <1>3
  <1>5. ASSUME NEW k \in 1 .. Len(t) - 1
        PROVE  t[k + 1].number = t[k].number + Weight(t[k + 1])
    BY <1>1, <1>2, <1>3
  <1>6. ASSUME NEW k \in 1 .. Len(t), NEW m \in 1 .. Len(t), k < m
        PROVE  t[k].number + Weight(t[m]) <= t[m].number
    <2>1. k \in 1 .. Len(s) /\ t[k] = s[k]
      BY <1>1, <1>6
    <2>2. CASE m = Len(t)
      <3>1. t[k].number <= a /\ t[k].number \in Nat
        BY <2>1, <1>3
      <3>2. t[m] = slot
        BY <2>2, <1>1
      <3> QED BY <3>1, <3>2, <1>3
    <2>3. CASE m # Len(t)
      <3>1. m \in 1 .. Len(s) /\ t[m] = s[m]
        BY <2>3, <1>1
      <3> QED BY <2>1, <3>1, <1>6
    <2> QED BY <2>2, <2>3
  <1>7. ASSUME NEW k \in 1 .. Len(t) PROVE t[k].number <= slot.number
    <2>1. CASE k = Len(t)
      BY <2>1, <1>1, <1>3
    <2>2. CASE k # Len(t)
      <3>1. k \in 1 .. Len(s) /\ t[k] = s[k]
        BY <2>2, <1>1
      <3>2. t[k].number <= a /\ t[k].number \in Nat
        BY <3>1, <1>3
      <3> QED BY <3>2, <1>3
    <2> QED BY <2>1, <2>2
  <1> QED BY <1>1, <1>4, <1>5, <1>6, <1>7 DEF t

\* A stream in order begins with the next number, and is in order behind it.
LEMMA TailNumbered ==
    ASSUME NEW s \in Seq(Slot), NEW b \in Nat, NEW a \in Nat,
           Numbered(s, b, a), s # <<>>
    PROVE  /\ Head(s) \in Slot /\ Head(s) = s[1] /\ Head(s).number \in Nat
           /\ Head(s).number = b + Weight(Head(s))
           /\ Head(s).number <= a
           /\ Tail(s) \in Seq(Slot) /\ Len(Tail(s)) = Len(s) - 1
           /\ \A k \in 1 .. Len(Tail(s)) : Tail(s)[k] = s[k + 1]
           /\ Numbered(Tail(s), Head(s).number, a)
  <1> DEFINE t == Tail(s)
  <1>1. /\ Len(s) \in Nat \ {0} /\ t \in Seq(Slot) /\ Len(t) = Len(s) - 1
        /\ \A k \in 1 .. Len(t) : t[k] = s[k + 1]
        /\ Head(s) = s[1] /\ Head(s) \in Slot
        /\ \A k \in 1 .. Len(s) : s[k] \in Slot
    BY HeadTailProperties
  <1>2. t = <<>> <=> Len(t) = 0
    BY <1>1
  <1>3. \A k \in 1 .. Len(s) : s[k].number \in Nat /\ Weight(s[k]) \in {0, 1}
    BY <1>1 DEF Weight, Slot
  <1> HIDE DEF t
  <1>4. Numbered(t, s[1].number, a)
    <2> USE DEF Numbered
    <2>1. ASSUME t = <<>> PROVE a = s[1].number
      <3>1. Len(s) = 1
        BY <2>1, <1>1, <1>2
      <3> QED BY <3>1, <1>1
    <2>2. ASSUME t # <<>>
          PROVE  t[1].number = s[1].number + Weight(t[1]) /\ t[Len(t)].number = a
      <3>1. Len(t) \in Nat \ {0} /\ 1 \in 1 .. Len(s) - 1 /\ s # <<>>
        BY <2>2, <1>1, <1>2
      <3>2. t[1] = s[1 + 1] /\ t[Len(t)] = s[Len(s)]
        BY <3>1, <1>1
      <3> QED BY <3>1, <3>2
    <2>3. ASSUME NEW k \in 1 .. Len(t) - 1
          PROVE  t[k + 1].number = t[k].number + Weight(t[k + 1])
      <3>1. k + 1 \in 1 .. Len(s) - 1 /\ k \in 1 .. Len(t) /\ k + 1 \in 1 .. Len(t)
        BY <1>1
      <3>2. t[k] = s[k + 1] /\ t[k + 1] = s[(k + 1) + 1]
        BY <3>1, <1>1
      <3> QED BY <3>1, <3>2
    <2>4. ASSUME NEW k \in 1 .. Len(t), NEW m \in 1 .. Len(t), k < m
          PROVE  t[k].number + Weight(t[m]) <= t[m].number
      <3>1. k + 1 \in 1 .. Len(s) /\ m + 1 \in 1 .. Len(s) /\ k + 1 < m + 1
        BY <1>1, <2>4
      <3>2. t[k] = s[k + 1] /\ t[m] = s[m + 1]
        BY <1>1
      <3> QED BY <3>1, <3>2
    <2>5. ASSUME NEW k \in 1 .. Len(t) PROVE t[k].number <= a
      <3>1. k + 1 \in 1 .. Len(s) /\ t[k] = s[k + 1]
        BY <1>1
      <3> QED BY <3>1
    <2> QED BY <2>1, <2>2, <2>3, <2>4, <2>5
  <1>5. Head(s).number \in Nat /\ Head(s).number = b + Weight(Head(s)) /\ Head(s).number <= a
    BY <1>1, <1>3 DEF Numbered
  <1> QED BY <1>1, <1>4, <1>5 DEF t

-----------------------------------------------------------------------------
(* Steps.                                                                  *)

\* What the type invariant says of one stream.
LEMMA Streams ==
    ASSUME TypeOK, NEW i \in Senders
    PROVE  /\ out[i] \in Seq(Slot) /\ Len(out[i]) \in Nat
           /\ passed[i] \in Nat /\ Taken(i + 1) \in Nat
           /\ \A k \in 1 .. Len(out[i]) : out[i][k] \in Slot
  BY DEF TypeOK, Taken, Senders, Sink

\* A node that has ended stays ended, and sends no more chunks.
LEMMA EndedStays ==
    ASSUME NEW i \in Senders, SlotsOK, TypeOK,
           \A j \in Senders : Ended(j) => Ended(j)' /\ passed'[j] = passed[j],
           canceled => canceled',
           NEW slot \in Slot, SlotOK(i, slot)
    PROVE  SlotOK(i, slot)'
  <1>1. \A j \in 0 .. i : j \in Senders
    BY DEF Senders
  <1>2. 0 \in Senders
    BY DEF Senders
  <1>3. canceled \in BOOLEAN
    BY DEF TypeOK
  <1> QED BY <1>1, <1>2, <1>3 DEF SlotOK

\* The slots of a step are those there were, or say what is so after it.
LEMMA SlotsKept ==
    ASSUME SlotsOK, TypeOK,
           \A j \in Senders : Ended(j) => Ended(j)' /\ passed'[j] = passed[j],
           canceled => canceled',
           \A i \in Senders : \A k \in 1 .. Len(out'[i]) :
               \/ \E m \in 1 .. Len(out[i]) : out'[i][k] = out[i][m]
               \/ SlotOK(i, out[i][k])'
    PROVE  SlotsOK'
  <1> SUFFICES ASSUME NEW i \in Senders, NEW k \in 1 .. Len(out'[i]),
                      NEW m \in 1 .. Len(out[i]), out'[i][k] = out[i][m]
               PROVE  SlotOK(i, out[i][k])'
    BY DEF SlotsOK
  <1>1. out[i][m] \in Slot /\ SlotOK(i, out[i][m])
    BY Streams DEF SlotsOK
  <1> DEFINE slot == out[i][m]
  <1>2. ASSUME NEW s \in Slot, SlotOK(i, s) PROVE SlotOK(i, s)'
    BY <1>2, EndedStays
  <1>3. SUFFICES \A s : SlotOK(i, s) /\ s \in Slot => SlotOK(i, s)'
    BY <1>1, <1>3 DEF SlotOK
  <1> QED BY <1>2

\* A step that only moves a node on, or cancels.
LEMMA MoveKeeps ==
    ASSUME IInv, TypeOK', UNCHANGED <<out, passed, t_received>>,
           \A j \in Senders : Ended(j) => Ended(j)',
           canceled => canceled',
           EndsInOrder', PlacesOK'
    PROVE  IInv'
  <1> USE DEF IInv
  <1>1. InOrder'
    BY DEF InOrder, Taken
  <1>2. NoneAhead'
    BY DEF NoneAhead
  <1>3. SlotsOK'
    BY SlotsKept
  <1> QED BY <1>1, <1>2, <1>3

\* A step that sets a slot.
LEMMA PushKeeps ==
    ASSUME IInv, TypeOK', NEW i \in Senders, NEW slot \in Slot,
           Append1(i, slot), slot.number = passed[i] + Weight(slot),
           passed'[i] = slot.number, Weight(slot) = 1 => i = 0,
           \A j \in Senders : j # i => passed'[j] = passed[j],
           UNCHANGED <<t_received, canceled>>,
           \A j \in Senders : Ended(j) => Ended(j)' /\ passed'[j] = passed[j],
           SlotOK(i, slot)', EndsInOrder', PlacesOK'
    PROVE  IInv'
  <1> USE DEF IInv
  <1>a. slot.number \in Nat /\ Weight(slot) \in {0, 1}
        /\ \A j \in Senders : passed[j] \in Nat
    BY DEF Weight, Slot, TypeOK
  <1>b. \A j \in Senders : passed'[j] = passed[j]
                            \/ (j = 0 /\ passed'[j] = passed[j] + 1)
    BY <1>a
  <1>1. InOrder'
    <2> SUFFICES ASSUME NEW l \in Senders
                 PROVE  Numbered(out'[l], Taken(l + 1)', passed'[l])
      BY DEF InOrder
    <2>1. Taken(l + 1)' = Taken(l + 1)
      <3>1. l + 1 # 0 /\ (l + 1 # Sink => l + 1 \in Senders)
        BY DEF Senders, Sink
      <3> QED BY <3>1, <1>b DEF Taken
    <2>2. CASE l = i
      BY <2>1, <2>2, AppendNumbered, Streams DEF InOrder, Append1, TypeOK
    <2>3. CASE l # i
      BY <2>1, <2>3 DEF InOrder, Append1, TypeOK
    <2> QED BY <2>2, <2>3
  <1>2. NoneAhead'
    BY <1>a, <1>b DEF NoneAhead, Senders
  <1>3. SlotsOK'
    <2>1. ASSUME NEW l \in Senders, NEW k \in 1 .. Len(out'[l])
          PROVE  \/ \E m \in 1 .. Len(out[l]) : out'[l][k] = out[l][m]
                 \/ SlotOK(l, out[l][k])'
      BY Streams DEF Append1, TypeOK
    <2> QED BY <2>1, SlotsKept
  <1> QED BY <1>1, <1>2, <1>3

\* A step that takes a slot out of stream i.
LEMMA TakeKeeps ==
    ASSUME IInv, TypeOK', NEW i \in Senders, out[i] # <<>>,
           out' = [out EXCEPT ![i] = Tail(@)],
           Taken(i + 1)' = Head(out[i]).number,
           \A l \in Senders : l # i => Taken(l + 1)' = Taken(l + 1),
           UNCHANGED <<passed, canceled>>,
           \A j \in Senders : Ended(j) => Ended(j)',
           EndsInOrder', PlacesOK'
    PROVE  IInv'
  <1> USE DEF IInv
  <1>a. /\ \A l \in Senders : out'[l] = IF l = i THEN Tail(out[i]) ELSE out[l]
        /\ Len(Tail(out[i])) = Len(out[i]) - 1
        /\ \A k \in 1 .. Len(Tail(out[i])) : Tail(out[i])[k] = out[i][k + 1]
        /\ Numbered(Tail(out[i]), Head(out[i]).number, passed[i])
    BY TailNumbered, Streams DEF InOrder, TypeOK
  <1>1. InOrder'
    BY <1>a DEF InOrder
  <1>2. NoneAhead'
    BY DEF NoneAhead
  <1>3. SlotsOK'
    <2>1. ASSUME NEW l \in Senders, NEW k \in 1 .. Len(out'[l])
          PROVE  \E m \in 1 .. Len(out[l]) : out'[l][k] = out[l][m]
      <3>1. CASE l = i
        <4>1. Len(out[i]) \in Nat /\ Len(out'[l]) = Len(out[i]) - 1
          BY <1>a, <3>1, Streams
        <4>2. k + 1 \in 1 .. Len(out[i])
          BY <4>1
        <4>3. out'[l] = Tail(out[i]) /\ k \in 1 .. Len(Tail(out[i]))
          BY <1>a, <3>1
        <4>4. out'[l][k] = out[l][k + 1]
          BY <1>a, <3>1, <4>3
        <4> QED BY <4>2, <4>4, <3>1
      <3>2. CASE l # i
        BY <1>a, <3>2
      <3> QED BY <3>1, <3>2
    <2> QED BY <2>1, SlotsKept
  <1> QED BY <1>1, <1>2, <1>3

\* What a transform's input slot is, and where it stands with its output.
LEMMA InputOK ==
    ASSUME IInv, NEW i \in Transforms, out[i - 1] # <<>>
    PROVE  /\ i - 1 \in Senders /\ i \in Senders
           /\ Input(i) \in Slot /\ Input(i).number \in Nat
           /\ Input(i) = out[i - 1][1] /\ 1 \in 1 .. Len(out[i - 1])
           /\ Input(i).number = passed[i] + Weight(Input(i))
           /\ Input(i).number <= passed[i - 1]
           /\ SlotOK(i - 1, Input(i))
  <1>1. i - 1 \in Senders /\ i \in Senders /\ Taken((i - 1) + 1) = passed[i]
    BY DEF Transforms, Senders, Taken, Sink
  <1>2. Numbered(out[i - 1], passed[i], passed[i - 1])
    BY <1>1 DEF IInv, InOrder
  <1>3. out[i - 1] \in Seq(Slot) /\ passed[i] \in Nat /\ passed[i - 1] \in Nat
    BY <1>1, Streams DEF IInv
  <1>4. 1 \in 1 .. Len(out[i - 1])
    BY <1>3
  <1> QED BY <1>1, <1>2, <1>3, <1>4, TailNumbered DEF Input, IInv, SlotsOK

\* A slot is still right one stream on.
LEMMA SlotOneOn ==
    ASSUME NEW i \in Transforms, NEW slot \in Slot, SlotOK(i - 1, slot)
    PROVE  SlotOK(i, slot)
  BY DEF SlotOK, Transforms

-----------------------------------------------------------------------------
(* Types.                                                                  *)

LEMMA TypeInit == Init => TypeOK
  BY DEF Init, InitProducer, InitTransforms, InitSink, TypeOK, Senders, Nodes

LEMMA Commands ==
    ASSUME NEW n \in Nat, NEW c \in {"s_start", "s_run", "s_stop", "s_exit"}
    PROVE  Command(c, n) \in Slot
  BY DEF Command, Slot

\* A slot is set only where there is room.
LEMMA PushType ==
    ASSUME TypeOK, NEW i \in Senders, NEW slot \in Slot, Room(i), Append1(i, slot)
    PROVE  /\ out' \in [Senders -> Seq(Slot)]
           /\ \A l \in Senders : Len(out'[l]) <= Length
  BY Streams DEF TypeOK, Room, Append1

LEMMA TailType ==
    ASSUME TypeOK, NEW i \in Senders, out[i] # <<>>
    PROVE  Tail(out[i]) \in Seq(Slot) /\ Len(Tail(out[i])) <= Length
           /\ Head(out[i]) \in Slot
  <1>1. out[i] \in Seq(Slot) /\ Len(out[i]) \in Nat /\ Len(out[i]) <= Length
    BY DEF TypeOK
  <1>2. Tail(out[i]) \in Seq(Slot) /\ Len(Tail(out[i])) = Len(out[i]) - 1
        /\ Head(out[i]) \in Slot
    BY <1>1
  <1> QED BY <1>1, <1>2

LEMMA TypeStep == TypeOK /\ PlacesOK /\ [Next]_vars => TypeOK'
  <1> SUFFICES ASSUME TypeOK, PlacesOK, [Next]_vars PROVE TypeOK'
    OBVIOUS
  <1> USE DEF Step
  <1>a. /\ 0 \in Senders /\ 0 \in Nodes /\ Sink \in Nodes /\ N \in Senders
        /\ \A i \in Senders : i \in Nodes
        /\ \A i \in Transforms : i \in Senders /\ i - 1 \in Senders /\ i \in Nodes
    BY DEF Senders, Nodes, Sink, Transforms
  <1>1. ASSUME NEW i \in Senders, SendEnd(i) PROVE TypeOK'
    <2>1. CASE UNCHANGED out
      BY <1>a, <1>1, <2>1 DEF SendEnd, SendStop, SendExit, TypeOK
    <2>2. ASSUME NEW slot \in Slot, Room(i), Append1(i, slot) PROVE TypeOK'
      BY <1>a, <1>1, <2>2, PushType DEF SendEnd, SendStop, SendExit, TypeOK
    <2>3. passed[i] \in Nat
      BY DEF TypeOK
    <2> QED BY <1>1, <2>1, <2>2, <2>3, Commands DEF SendEnd, SendStop, SendExit
  <1>2. CASE ProducerStart
    <2>1. CASE UNCHANGED out
      BY <1>a, <1>2, <2>1 DEF ProducerStart, TypeOK
    <2>2. CASE Room(0) /\ Append1(0, Command("s_start", 0))
      BY <1>a, <1>2, <2>2, PushType, Commands DEF ProducerStart, TypeOK
    <2> QED BY <1>2, <2>1, <2>2 DEF ProducerStart
  <1>3. CASE ProducerTest
    BY <1>a, <1>3 DEF ProducerTest, TypeOK
  <1>4. CASE ProducerSet
    <2>0. passed[0] + 1 \in Nat
      BY <1>a DEF TypeOK
    <2>1. CASE UNCHANGED <<out, passed>>
      BY <1>a, <1>4, <2>1 DEF ProducerSet, TypeOK
    <2>2. CASE /\ Room(0) /\ Append1(0, Command("s_run", passed[0] + 1))
               /\ passed' = [passed EXCEPT ![0] = @ + 1]
      BY <1>a, <1>4, <2>0, <2>2, PushType, Commands DEF ProducerSet, TypeOK
    <2> QED BY <1>4, <2>1, <2>2 DEF ProducerSet
  <1>5. ASSUME NEW i \in Transforms, Test(i) \/ GetNone(i) \/ SetRefused(i)
        PROVE  TypeOK'
    BY <1>a, <1>5 DEF Test, GetNone, SetRefused, TypeOK
  <1>6. ASSUME NEW i \in Transforms, Get(i) PROVE TypeOK'
    <2>1. Tail(out[i - 1]) \in Seq(Slot) /\ Len(Tail(out[i - 1])) <= Length
      BY <1>a, <1>6, TailType DEF Get
    <2>2. CASE UNCHANGED out
      BY <1>a, <1>6, <2>2 DEF Get, TypeOK
    <2>3. CASE out' = [out EXCEPT ![i - 1] = Tail(@)]
      <3>1. out' \in [Senders -> Seq(Slot)] /\ \A l \in Senders : Len(out'[l]) <= Length
        BY <1>a, <2>1, <2>3 DEF TypeOK
      <3> QED BY <1>a, <1>6, <3>1 DEF Get, TypeOK
    <2> QED BY <1>6, <2>2, <2>3 DEF Get
  <1>7. ASSUME NEW i \in Transforms, Set(i) PROVE TypeOK'
    <2>0. i - 1 \in Senders /\ i \in Senders /\ i # i - 1 /\ out[i - 1] # <<>>
      BY <1>a, <1>7 DEF Set, PlacesOK, Transforms
    <2>1. /\ Tail(out[i - 1]) \in Seq(Slot) /\ Len(Tail(out[i - 1])) <= Length
          /\ Input(i) \in Slot
      BY <2>0, TailType DEF Input
    <2>2. /\ Append(out[i], Input(i)) \in Seq(Slot)
          /\ Len(Append(out[i], Input(i))) <= Length
      BY <2>0, <2>1, <1>7, Streams DEF Set, Room
    <2>3. out' \in [Senders -> Seq(Slot)] /\ \A l \in Senders : Len(out'[l]) <= Length
      BY <2>0, <2>1, <2>2, <1>7 DEF Set, TypeOK
    <2>4. passed' \in [Senders -> Nat]
      BY <2>0, <1>7 DEF Set, SentOn, TypeOK
    <2> QED BY <1>7, <1>a, <2>3, <2>4 DEF Set, SentOn, TypeOK
  <1>8. CASE DeadEnd
    <2>1. CASE SinkTest
      BY <1>a, <2>1 DEF SinkTest, TypeOK
    <2>2. CASE SinkGet
      <3>1. out' \in [Senders -> Seq(Slot)] /\ \A l \in Senders : Len(out'[l]) <= Length
        BY <1>a, <2>2, TailType DEF SinkGet, TypeOK
      <3>2. t_received' \in Nat /\ reported' \in Nat
        BY <2>2 DEF SinkGet, TypeOK
      <3> QED BY <1>a, <2>2, <3>1, <3>2 DEF SinkGet, TypeOK
    <2> QED BY <1>8, <2>1, <2>2 DEF DeadEnd
  <1>9. CASE Cancel
    BY <1>9 DEF Cancel, TypeOK
  <1>10. CASE UNCHANGED vars
    BY <1>10 DEF vars, TypeOK
  <1> QED BY <1>a, <1>1, <1>2, <1>3, <1>4, <1>5, <1>6, <1>7, <1>8, <1>9, <1>10
       DEF Next, Producer, Transform

-----------------------------------------------------------------------------
(* The invariant is kept.                                                  *)

LEMMA InitInv == Init => IInv
  <1> SUFFICES ASSUME Init PROVE IInv
    OBVIOUS
  <1> USE DEF Init, InitProducer, InitTransforms, InitSink
  <1>1. TypeOK
    BY TypeInit
  <1>2. \A i \in Senders : out[i] = <<>> /\ passed[i] = 0 /\ Taken(i + 1) = 0
    BY DEF Taken, Senders, Sink
  <1>3. InOrder
    BY <1>2 DEF InOrder, Numbered
  <1>4. NoneAhead /\ SlotsOK
    BY <1>2 DEF NoneAhead, SlotsOK
  <1>5. EndsInOrder /\ PlacesOK
    <2>1. \A i \in Nodes : pc[i] \in {"start", "loop"}
      OBVIOUS
    <2>2. \A i \in Senders : i \in Nodes
      BY DEF Senders, Nodes
    <2>3. 0 \in Senders /\ \A i \in Transforms : i \in Senders
      BY DEF Senders, Transforms
    <2>4. \A i \in Senders : ~Ended(i)
      BY <2>1, <2>2 DEF Ended
    <2>5. \A i \in Transforms : pc[i] # "set"
      BY <2>1, <2>2, <2>3
    <2>6. passed[0] = 0
      BY <2>3
    <2> QED BY <2>4, <2>5, <2>6 DEF EndsInOrder, PlacesOK
  <1> QED BY <1>1, <1>3, <1>4, <1>5 DEF IInv

LEMMA Indices ==
    /\ 0 \in Senders /\ 0 \in Nodes /\ Sink \in Nodes /\ Sink \notin Senders
    /\ N \in Senders /\ N + 1 = Sink
    /\ \A i \in Senders : i \in Nodes
    /\ \A i \in Transforms : i \in Senders /\ i - 1 \in Senders /\ i \in Nodes /\ i # 0
                             /\ i - 1 # i
    /\ \A i, l \in Transforms : l # i => l - 1 # i - 1
  BY DEF Senders, Nodes, Sink, Transforms

\* A waiting transform keeps its slot while slots are set.
LEMMA PushPlaces ==
    ASSUME TypeOK, PlacesOK, NEW i \in Senders, NEW slot \in Slot, Append1(i, slot),
           \A l \in Transforms : pc'[l] = "set" => pc[l] = "set",
           pc'[0] = "start" => passed'[0] = 0
    PROVE  PlacesOK'
  <1> SUFFICES ASSUME NEW l \in Transforms, pc[l] = "set"
               PROVE  out'[l - 1] # <<>> /\ Head(out'[l - 1]).command # "s_exit"
    BY DEF PlacesOK, Input
  <1>1. l - 1 \in Senders /\ out[l - 1] # <<>> /\ Head(out[l - 1]).command # "s_exit"
    BY Indices DEF PlacesOK, Input
  <1>2. out[l - 1] \in Seq(Slot)
    BY <1>1, Streams
  <1>3. CASE l - 1 = i
    <2>1. out'[l - 1] = Append(out[l - 1], slot)
      BY <1>1, <1>3 DEF Append1, TypeOK
    <2>2. Append(out[l - 1], slot) # <<>> /\ Head(Append(out[l - 1], slot)) = Head(out[l - 1])
      BY <1>1, <1>2
    <2> QED BY <1>1, <2>1, <2>2
  <1>4. CASE l - 1 # i
    BY <1>1, <1>4 DEF Append1, TypeOK
  <1> QED BY <1>3, <1>4

LEMMA SendEndKeeps == ASSUME IInv, TypeOK', NEW i \in Senders, SendEnd(i) PROVE IInv'
  <1> USE DEF IInv
  <1>1. /\ Ended(i) /\ pc[i] \in {"stop", "exit"}
        /\ pc' = [pc EXCEPT ![i] = pc'[i]] /\ pc'[i] \in {"exit", "done"}
        /\ UNCHANGED <<passed, t_received, canceled>>
    BY Indices DEF SendEnd, SendStop, SendExit, Step, Ended, TypeOK
  <1>2. \A j \in Senders : Ended(j) <=> Ended(j)'
    BY <1>1, Indices DEF Ended, TypeOK
  <1>3. EndsInOrder'
    BY <1>1, <1>2, Indices DEF EndsInOrder
  <1>4. ASSUME UNCHANGED out PROVE IInv'
    <2>1. PlacesOK'
      BY <1>1, <1>4, Indices DEF PlacesOK, Input, TypeOK
    <2> QED BY <1>1, <1>2, <1>3, <1>4, <2>1, MoveKeeps
  <1>5. ASSUME NEW c \in {"s_stop", "s_exit"}, Append1(i, Command(c, passed[i]))
        PROVE  IInv'
    <2>0. PICK slot \in Slot : slot = Command(c, passed[i])
      BY Streams, Commands
    <2>1. passed[i] \in Nat /\ slot.number = passed[i]
          /\ slot.command = c /\ Weight(slot) = 0
      BY <2>0, Streams DEF Command, Weight
    <2>2. PlacesOK'
      <3>1. pc'[0] = "start" => passed'[0] = 0
        BY <1>1, Indices DEF PlacesOK, TypeOK
      <3>2. \A l \in Transforms : pc'[l] = "set" => pc[l] = "set"
        BY <1>1, Indices DEF TypeOK
      <3> QED BY <1>5, <2>0, <2>1, <3>1, <3>2, PushPlaces
    <2>3. i \in 0 .. i
      BY DEF Senders
    <2>4. SlotOK(i, slot)'
      BY <1>1, <1>2, <2>1, <2>3, Indices DEF SlotOK, EndsInOrder
    <2>5. Append1(i, slot)
      BY <1>5, <2>0
    <2>6. slot.number = passed[i] + Weight(slot)
      BY <2>1
    <2>7. /\ passed'[i] = slot.number /\ Weight(slot) # 1
          /\ \A j \in Senders : passed'[j] = passed[j]
      BY <1>1, <2>1
    <2>8. /\ UNCHANGED <<t_received, canceled>>
          /\ \A j \in Senders : Ended(j) => Ended(j)' /\ passed'[j] = passed[j]
      BY <1>1, <1>2
    <2> QED BY <1>3, <2>1, <2>2, <2>4, <2>5, <2>6, <2>7, <2>8, PushKeeps
  <1> QED BY <1>4, <1>5 DEF SendEnd, SendStop, SendExit

LEMMA ProducerKeeps == ASSUME IInv, TypeOK', Producer PROVE IInv'
  <1> USE DEF IInv, Step
  <1>1. CASE SendEnd(0)
    BY <1>1, SendEndKeeps, Indices
  <1>2. CASE ProducerStart
    <2>1. /\ pc[0] = "start" /\ ~Ended(0) /\ passed[0] = 0
          /\ pc' = [pc EXCEPT ![0] = pc'[0]] /\ pc'[0] \in {"loop", "done"}
          /\ UNCHANGED <<passed, t_received, canceled>>
      BY <1>2, Indices DEF ProducerStart, Ended, TypeOK, PlacesOK
    <2>2. \A j \in Senders : Ended(j) => Ended(j)'
      BY <2>1, Indices DEF Ended, TypeOK
    <2>3. EndsInOrder'
      BY <2>1, Indices DEF EndsInOrder, Ended, TypeOK
    <2>4. CASE UNCHANGED out
      <3>1. PlacesOK'
        BY <2>1, <2>4, Indices DEF PlacesOK, Input, TypeOK
      <3> QED BY <2>1, <2>2, <2>3, <2>4, <3>1, MoveKeeps
    <2>5. CASE Append1(0, Command("s_start", 0))
      <3>0. PICK slot \in Slot : slot = Command("s_start", 0)
        BY Commands
      <3>1. slot.number = 0 /\ Weight(slot) = 0 /\ slot.command = "s_start"
        BY <3>0 DEF Command, Weight
      <3>2. SlotOK(0, slot)'
        BY <3>1 DEF SlotOK
      <3>3. PlacesOK'
        <4>1. \A l \in Transforms : pc'[l] = "set" => pc[l] = "set"
          BY <2>1, Indices DEF TypeOK
        <4> QED BY <2>1, <2>5, <3>0, <3>1, <4>1, PushPlaces, Indices
      <3>4. Append1(0, slot) /\ slot.number = passed[0] + Weight(slot)
        BY <2>1, <2>5, <3>0, <3>1
      <3> QED BY <2>1, <2>2, <2>3, <3>1, <3>2, <3>3, <3>4, PushKeeps, Indices
    <2> QED BY <1>2, <2>4, <2>5 DEF ProducerStart
  <1>3. CASE ProducerTest
    <2>1. /\ pc[0] = "loop" /\ pc' = [pc EXCEPT ![0] = pc'[0]] /\ pc'[0] \in {"set", "stop"}
          /\ UNCHANGED <<out, passed, t_received, canceled>>
      BY <1>3, Indices DEF ProducerTest, TypeOK
    <2>2. \A j \in Senders : Ended(j) => Ended(j)'
      BY <2>1, Indices DEF Ended, TypeOK
    <2>3. EndsInOrder'
      BY <2>1, Indices DEF EndsInOrder, Ended, TypeOK
    <2>4. PlacesOK'
      BY <2>1, Indices DEF PlacesOK, Input, TypeOK
    <2> QED BY <2>1, <2>2, <2>3, <2>4, MoveKeeps
  <1>4. CASE ProducerSet
    <2>1. /\ pc[0] = "set" /\ pc' = [pc EXCEPT ![0] = pc'[0]] /\ pc'[0] \in {"loop", "stop"}
          /\ ~Ended(0) /\ UNCHANGED <<t_received, canceled>>
      BY <1>4, Indices DEF ProducerSet, Ended, TypeOK
    <2>2. \A j \in Senders : Ended(j) => Ended(j)' /\ j # 0
      BY <2>1, Indices DEF Ended, TypeOK
    <2>3. CASE canceled /\ UNCHANGED <<out, passed>>
      <3>1. EndsInOrder'
        BY <2>1, <2>3 DEF EndsInOrder
      <3>2. PlacesOK'
        BY <2>1, <2>3, Indices DEF PlacesOK, Input, TypeOK
      <3> QED BY <2>1, <2>2, <2>3, <3>1, <3>2, MoveKeeps
    <2>4. CASE /\ pc'[0] = "loop" /\ Append1(0, Command("s_run", passed[0] + 1))
               /\ passed' = [passed EXCEPT ![0] = @ + 1]
      <3>0. passed[0] \in Nat /\ passed[0] + 1 \in Nat
        BY Indices DEF TypeOK
      <3>a. PICK slot \in Slot : slot = Command("s_run", passed[0] + 1)
        BY <3>0, Commands
      <3>1. slot.number = passed[0] + 1 /\ Weight(slot) = 1 /\ slot.command = "s_run"
        BY <3>a DEF Command, Weight
      <3>2. SlotOK(0, slot)'
        BY <3>1 DEF SlotOK
      <3>3. PlacesOK'
        <4>1. \A l \in Transforms : pc'[l] = "set" => pc[l] = "set"
          BY <2>1, Indices DEF TypeOK
        <4> QED BY <2>1, <2>4, <3>a, <3>1, <4>1, PushPlaces, Indices
      <3>4. EndsInOrder'
        BY <2>1, <2>4, Indices DEF EndsInOrder, Ended, TypeOK
      <3>5. /\ passed'[0] = passed[0] + 1
            /\ \A j \in Senders : j # 0 => passed'[j] = passed[j]
        BY <2>4, Indices DEF TypeOK
      <3>6. Append1(0, slot) /\ slot.number = passed[0] + Weight(slot)
        BY <2>4, <3>0, <3>a, <3>1
      <3>7. \A j \in Senders : Ended(j) => Ended(j)' /\ passed'[j] = passed[j]
        BY <2>2, <3>5
      <3> QED BY <2>1, <3>0, <3>1, <3>2, <3>3, <3>4, <3>5, <3>6, <3>7, PushKeeps, Indices
    <2> QED BY <1>4, <2>1, <2>3, <2>4, Indices DEF ProducerSet, TypeOK
  <1> QED BY <1>1, <1>2, <1>3, <1>4 DEF Producer

LEMMA GetKeeps ==
    ASSUME IInv, TypeOK', NEW i \in Transforms, Get(i) PROVE IInv'
  <1> USE DEF IInv, Step
  <1>1. /\ out[i - 1] # <<>> /\ pc[i] = "get" /\ ~Ended(i)
        /\ i \in Senders /\ i - 1 \in Senders /\ i \in Nodes /\ i # 0
        /\ pc' = [pc EXCEPT ![i] = pc'[i]]
        /\ UNCHANGED <<passed, t_received, canceled>>
    BY Indices DEF Get, Ended, TypeOK
  <1>2. \A j \in Senders : Ended(j) => Ended(j)' /\ j # i
    BY <1>1, Indices DEF Ended, TypeOK
  <1>3. CASE /\ Input(i).command = "s_exit" /\ pc'[i] = "stop"
             /\ out' = [out EXCEPT ![i - 1] = Tail(@)]
    <2>1. Weight(Input(i)) = 0 /\ Input(i).number = passed[i]
      BY <1>1, <1>3, InputOK, Streams DEF Weight
    <2>2. ~canceled => Ended(0) /\ passed[i] = passed[0]
      BY <1>1, <1>3, <2>1, InputOK DEF SlotOK
    <2>3. EndsInOrder'
      BY <1>1, <1>2, <2>2, <1>3, Indices DEF EndsInOrder, Ended, TypeOK
    <2>4. PlacesOK'
      BY <1>1, <1>3, Indices DEF PlacesOK, Input, TypeOK
    <2>5. /\ Taken((i - 1) + 1) = passed[i] /\ Taken((i - 1) + 1)' = Head(out[i - 1]).number
          /\ \A l \in Senders : Taken(l + 1)' = Taken(l + 1)
      BY <1>1, <2>1, Indices DEF Taken, Input, Senders, Sink
    <2> QED BY <1>1, <1>2, <1>3, <2>3, <2>4, <2>5, TakeKeeps
  <1>4. CASE Input(i).command # "s_exit" /\ pc'[i] = "set" /\ UNCHANGED out
    <2>1. EndsInOrder'
      BY <1>1, <1>4, Indices DEF EndsInOrder, Ended, TypeOK
    <2>2. PlacesOK'
      BY <1>1, <1>4, Indices DEF PlacesOK, Input, TypeOK
    <2> QED BY <1>1, <1>2, <1>4, <2>1, <2>2, MoveKeeps
  <1> QED BY <1>1, <1>3, <1>4 DEF Get, TypeOK

LEMMA SetKeeps ==
    ASSUME IInv, TypeOK', NEW i \in Transforms, Set(i) PROVE IInv'
  <1> USE DEF IInv, Step
  <1>1. /\ out[i - 1] # <<>> /\ pc[i] = "set" /\ ~Ended(i)
        /\ i \in Senders /\ i - 1 \in Senders /\ i \in Nodes /\ i # 0 /\ i - 1 # i
        /\ pc' = [pc EXCEPT ![i] = "loop"]
        /\ UNCHANGED <<t_received, canceled>>
    BY Indices DEF Set, SentOn, Ended, TypeOK, PlacesOK
  <1>2. \A j \in Senders : Ended(j) => Ended(j)' /\ j # i
    BY <1>1, Indices DEF Ended, TypeOK
  <1>3. /\ passed \in [Senders -> Nat] /\ Weight(Input(i)) \in {0, 1}
        /\ passed'[i] = passed[i] + Weight(Input(i))
        /\ \A j \in Senders : j # i => passed'[j] = passed[j]
    BY <1>1 DEF Set, SentOn, Weight, TypeOK
  <1>4. /\ Input(i).number = passed'[i] /\ Input(i) \in Slot
        /\ Input(i).number <= passed[i - 1] /\ SlotOK(i - 1, Input(i))
        /\ Input(i) = out[i - 1][1] /\ 1 \in 1 .. Len(out[i - 1])
        /\ Input(i).number = passed[i] + Weight(Input(i))
    BY <1>1, <1>3, InputOK
  <1>5. /\ out'[i - 1] = Tail(out[i - 1]) /\ out'[i] = Append(out[i], Input(i))
        /\ \A l \in Senders : l # i /\ l # i - 1 => out'[l] = out[l]
    BY <1>1 DEF Set, TypeOK
  <1>6. /\ Taken((i - 1) + 1) = passed[i] /\ Taken((i - 1) + 1)' = passed'[i]
        /\ \A l \in Senders : l # i - 1 => Taken(l + 1)' = Taken(l + 1)
    <2>1. (i - 1) + 1 = i /\ i # Sink
      BY DEF Transforms, Sink
    <2>2. \A l \in Senders : l # i - 1 => l + 1 # i /\ (l + 1 = Sink \/ l + 1 \in Senders)
      BY DEF Senders, Transforms, Sink
    <2> QED BY <1>1, <1>3, <2>1, <2>2 DEF Taken
  <1>7. /\ Len(Tail(out[i - 1])) = Len(out[i - 1]) - 1 /\ Len(out[i - 1]) \in Nat
        /\ \A k \in 1 .. Len(Tail(out[i - 1])) : Tail(out[i - 1])[k] = out[i - 1][k + 1]
        /\ Numbered(Tail(out[i - 1]), passed'[i], passed[i - 1])
    BY <1>1, <1>4, <1>6, TailNumbered, Streams DEF Input, InOrder
  <1>8. Numbered(out'[i], Taken(i + 1), passed'[i])
    BY <1>1, <1>3, <1>4, <1>5, AppendNumbered, Streams DEF InOrder
  <1>9. InOrder'
    <2> SUFFICES ASSUME NEW l \in Senders
                 PROVE  Numbered(out'[l], Taken(l + 1)', passed'[l])
      BY DEF InOrder
    <2>1. CASE l = i
      BY <2>1, <1>1, <1>6, <1>8
    <2>2. CASE l = i - 1
      BY <2>2, <1>1, <1>3, <1>5, <1>6, <1>7
    <2>3. CASE l # i /\ l # i - 1
      BY <2>3, <1>3, <1>5, <1>6 DEF InOrder
    <2> QED BY <2>1, <2>2, <2>3
  <1>10. NoneAhead'
    <2> SUFFICES ASSUME NEW l \in Senders, NEW j \in Senders, j <= l
                 PROVE  passed'[l] <= passed'[j]
      BY DEF NoneAhead
    <2>1. \A k \in Senders : passed[k] \in Nat /\ passed'[k] \in Nat /\ passed[k] <= passed'[k]
      BY <1>3
    <2>2. CASE l = i /\ j # i
      <3>1. j <= i - 1
        BY <2>2 DEF Senders, Transforms
      <3>2. passed[i - 1] <= passed[j]
        BY <1>1, <3>1 DEF NoneAhead
      <3> QED BY <1>1, <1>3, <1>4, <2>1, <2>2, <3>2
    <2>3. CASE l # i
      <3>1. passed[l] <= passed[j] /\ passed'[l] = passed[l]
        BY <1>3, <2>3 DEF NoneAhead
      <3> QED BY <2>1, <3>1
    <2>4. CASE l = i /\ j = i
      BY <2>1, <2>4
    <2> QED BY <2>2, <2>3, <2>4
  <1>11. \A j \in Senders : Ended(j) => Ended(j)' /\ passed'[j] = passed[j]
    BY <1>2, <1>3
  <1>12. SlotsOK'
    <2>1. ASSUME NEW s \in Slot, SlotOK(i, s) PROVE SlotOK(i, s)'
      BY <1>1, <1>11, <2>1, EndedStays
    <2>2. SlotOK(i, Input(i))
      BY <1>4, SlotOneOn
    <2>3. ASSUME NEW l \in Senders, NEW k \in 1 .. Len(out'[l])
          PROVE  \/ \E m \in 1 .. Len(out[l]) : out'[l][k] = out[l][m]
                 \/ SlotOK(l, out[l][k])'
      <3>1. CASE l = i
        <4>1. k \in 1 .. Len(out[i]) \/ out'[l][k] = Input(i)
          BY <1>1, <1>4, <1>5, <3>1, Streams
        <4>2. CASE k \in 1 .. Len(out[i])
          <5>1. out'[l][k] = out[i][k]
            BY <1>1, <1>4, <1>5, <3>1, <4>2, Streams
          <5> QED BY <3>1, <4>2, <5>1
        <4>3. CASE out'[l][k] = Input(i)
          <5> DEFINE s == Input(i)
          <5>1. s \in Slot /\ SlotOK(i, s)
            BY <1>4, <2>2
          <5>2. \A x : x \in Slot /\ SlotOK(i, x) => SlotOK(i, x)'
            BY <2>1
          <5> QED BY <3>1, <4>3, <5>1, <5>2 DEF SlotOK
        <4> QED BY <4>1, <4>2, <4>3
      <3>2. CASE l = i - 1
        <4>1. k + 1 \in 1 .. Len(out[l]) /\ out'[l][k] = out[l][k + 1]
          <5>1. out'[l] = Tail(out[i - 1]) /\ k \in 1 .. Len(Tail(out[i - 1]))
            BY <1>5, <3>2
          <5>2. k + 1 \in 1 .. Len(out[i - 1])
            BY <1>7, <5>1
          <5> QED BY <1>7, <5>1, <5>2, <3>2
        <4> QED BY <4>1
      <3>3. CASE l # i /\ l # i - 1
        BY <1>5, <3>3
      <3> QED BY <3>1, <3>2, <3>3
    <2> QED BY <1>1, <1>11, <2>3, SlotsKept
  <1>13. EndsInOrder'
    BY <1>1, <1>3, Indices DEF EndsInOrder, Ended, TypeOK
  <1>14. PlacesOK'
    <2>1. pc'[0] = "start" => passed'[0] = 0
      BY <1>1, <1>3, Indices DEF PlacesOK, TypeOK
    <2>2. ASSUME NEW l \in Transforms, pc'[l] = "set"
          PROVE  out'[l - 1] # <<>> /\ Head(out'[l - 1]).command # "s_exit"
      <3>1. l # i /\ l - 1 # i - 1 /\ l - 1 \in Senders
            /\ out[l - 1] # <<>> /\ Head(out[l - 1]).command # "s_exit"
        BY <1>1, <2>2, Indices DEF PlacesOK, Input, TypeOK
      <3>2. CASE l - 1 = i
        <4>1. /\ Append(out[l - 1], Input(i)) # <<>>
              /\ Head(Append(out[l - 1], Input(i))) = Head(out[l - 1])
          BY <1>4, <3>1, Streams
        <4> QED BY <1>5, <3>1, <3>2, <4>1
      <3>3. CASE l - 1 # i
        BY <1>5, <3>1, <3>3
      <3> QED BY <3>2, <3>3
    <2> QED BY <2>1, <2>2 DEF PlacesOK, Input
  <1> QED BY <1>9, <1>10, <1>12, <1>13, <1>14

LEMMA TransformKeeps ==
    ASSUME IInv, TypeOK', NEW i \in Transforms, Transform(i) PROVE IInv'
  <1> USE DEF IInv, Step
  <1>1. CASE Test(i) \/ GetNone(i) \/ SetRefused(i)
    <2>1. /\ pc' = [pc EXCEPT ![i] = pc'[i]] /\ ~Ended(i)
          /\ pc'[i] \in {"stop", "done"} => canceled
          /\ pc'[i] \in {"get", "loop", "stop", "done"}
          /\ UNCHANGED <<out, passed, t_received, canceled>>
      BY <1>1, Indices DEF Test, GetNone, SetRefused, Ended, TypeOK
    <2>2. \A j \in Senders : Ended(j) => Ended(j)'
      BY <2>1, Indices DEF Ended, TypeOK
    <2>3. EndsInOrder'
      BY <2>1, Indices DEF EndsInOrder, Ended, TypeOK
    <2>4. PlacesOK'
      BY <2>1, Indices DEF PlacesOK, Input, TypeOK
    <2> QED BY <2>1, <2>2, <2>3, <2>4, MoveKeeps
  <1>2. CASE SendEnd(i)
    BY <1>2, SendEndKeeps, Indices
  <1> QED BY <1>1, <1>2, GetKeeps, SetKeeps DEF Transform

LEMMA DeadEndKeeps == ASSUME IInv, TypeOK', DeadEnd PROVE IInv'
  <1> USE DEF IInv, Step
  <1>1. /\ pc' = [pc EXCEPT ![Sink] = pc'[Sink]] /\ pc'[Sink] # "set"
        /\ UNCHANGED <<passed, canceled>>
        /\ \A j \in Senders : pc'[j] = pc[j]
    BY Indices DEF DeadEnd, SinkTest, SinkGet, TypeOK
  <1>2. \A j \in Senders : Ended(j) <=> Ended(j)'
    BY <1>1, Indices DEF Ended
  <1>3. EndsInOrder'
    BY <1>1, <1>2, Indices DEF EndsInOrder
  <1>4. CASE UNCHANGED <<out, t_received>>
    <2>1. PlacesOK'
      BY <1>1, <1>4, Indices DEF PlacesOK, Input
    <2> QED BY <1>1, <1>2, <1>3, <1>4, <2>1, MoveKeeps
  <1>5. CASE SinkGet /\ out[N] # <<>>
    <2>1. /\ Head(out[N]) \in Slot /\ Head(out[N]) = out[N][1] /\ 1 \in 1 .. Len(out[N])
          /\ Head(out[N]).number = t_received + Weight(Head(out[N]))
      BY <1>5, Indices, Streams, TailNumbered DEF InOrder, Taken
    <2>2. SlotOK(N, Head(out[N]))
      BY <2>1, Indices DEF SlotsOK
    <2>3. t_received' = Head(out[N]).number
      <3>1. t_received \in Nat
        BY DEF TypeOK
      <3> QED BY <1>5, <2>1, <2>2, <3>1 DEF SinkGet, SlotOK, Weight
    <2>4. out' = [out EXCEPT ![N] = Tail(@)]
      BY <1>5 DEF SinkGet
    <2>5. PlacesOK'
      <3>1. \A l \in Transforms : l - 1 # N
        BY DEF Transforms
      <3> QED BY <1>1, <2>4, <3>1, Indices DEF PlacesOK, Input, TypeOK
    <2>6. /\ Taken(N + 1)' = Head(out[N]).number
          /\ \A l \in Senders : l # N => Taken(l + 1)' = Taken(l + 1)
      <3>1. \A l \in Senders : l # N => l + 1 # Sink
        BY DEF Senders, Sink
      <3> QED BY <1>1, <2>3, <3>1, Indices DEF Taken
    <2> QED BY <1>1, <1>2, <1>3, <1>5, <2>4, <2>5, <2>6, TakeKeeps, Indices
  <1> QED BY <1>4, <1>5 DEF DeadEnd, SinkTest, SinkGet

LEMMA NextInv == IInv /\ [Next]_vars => IInv'
  <1> SUFFICES ASSUME IInv, [Next]_vars PROVE IInv'
    OBVIOUS
  <1>1. TypeOK'
    BY TypeStep DEF IInv
  <1>2. CASE Cancel
    BY <1>1, <1>2, MoveKeeps DEF Cancel, IInv, EndsInOrder, PlacesOK, Input, Ended
  <1>3. CASE UNCHANGED vars
    BY <1>1, <1>3, MoveKeeps DEF vars, IInv, EndsInOrder, PlacesOK, Input, Ended
  <1> QED BY <1>1, <1>2, <1>3, ProducerKeeps, TransformKeeps, DeadEndKeeps DEF Next

-----------------------------------------------------------------------------
(* The theorems.                                                           *)

\* For every chain: each variable keeps its type, and no stream ever holds
\* more than its slots.
THEOREM ChainTypeCorrect == Spec => []TypeOK
  <1>1. IInv => TypeOK
    BY DEF IInv
  <1> QED BY <1>1, InitInv, NextInv, PTL DEF Spec

\* For every chain, cancelled or not: no chunk follows an s_stop in a stream.
THEOREM StopIsLast == Spec => []NoDataAfterStop
  <1>1. IInv => NoDataAfterStop
    <2> SUFFICES ASSUME IInv, NEW i \in Senders,
                        NEW k \in 1 .. Len(out[i]), NEW m \in 1 .. Len(out[i]),
                        k < m, out[i][k].command = "s_stop",
                        out[i][m].command = "s_run"
                 PROVE  FALSE
      BY DEF NoDataAfterStop
    <2>1. /\ out[i][k] \in Slot /\ out[i][m] \in Slot
          /\ SlotOK(i, out[i][k]) /\ passed[i] \in Nat
      BY Streams DEF IInv, SlotsOK
    <2>2. out[i][k].number + 1 <= out[i][m].number /\ out[i][m].number <= passed[i]
      BY DEF IInv, InOrder, Numbered, Weight
    <2>3. PICK j \in 0 .. i : passed[j] = out[i][k].number
      BY <2>1 DEF SlotOK
    <2>4. j \in Senders /\ j <= i
      BY DEF Senders
    <2>5. passed[i] <= passed[j]
      BY <2>4 DEF IInv, NoneAhead
    <2>6. out[i][k].number \in Nat /\ out[i][m].number \in Nat
      BY <2>1 DEF Slot
    <2> QED BY <2>1, <2>2, <2>3, <2>5, <2>6
  <1> QED BY <1>1, InitInv, NextInv, PTL DEF Spec

LEMMA OutputInit == Init => Output!Init
  BY DEF Init, InitProducer, InitTransforms, InitSink, Output!Init, Senders, Nodes

LEMMA OutputStep == IInv /\ TypeOK' /\ [Next]_vars => [Output!Next]_(Output!vars)
  <1> SUFFICES ASSUME IInv, TypeOK', [Next]_vars
               PROVE  Output!Next \/ UNCHANGED Output!vars
    OBVIOUS
  <1> USE DEF IInv, Step, Output!vars
  <1>1. ASSUME NEW i \in Senders, SendEnd(i) PROVE UNCHANGED Output!vars
    BY <1>1, Indices DEF SendEnd, SendStop, SendExit, TypeOK
  <1>2. CASE ProducerStart \/ ProducerTest
    BY <1>2, Indices DEF ProducerStart, ProducerTest, Output!Next, Output!Stop, TypeOK
  <1>3. CASE ProducerSet
    BY <1>3, Indices DEF ProducerSet, Output!Next, Output!Send, Output!Stop, TypeOK
  <1>4. ASSUME NEW i \in Transforms, Test(i) \/ GetNone(i) \/ Get(i) \/ SetRefused(i)
        PROVE  UNCHANGED Output!vars
    BY <1>4, Indices DEF Test, GetNone, Get, SetRefused, TypeOK
  <1>5. ASSUME NEW i \in Transforms, Set(i) PROVE UNCHANGED Output!vars
    BY <1>5, Indices DEF Set, SentOn, TypeOK
  <1>6. CASE SinkTest
    BY <1>6, Indices DEF SinkTest, TypeOK
  <1>7. CASE SinkGet
    <2>1. pc'[0] = pc[0] /\ UNCHANGED <<passed, canceled>>
      BY <1>7, Indices DEF SinkGet, TypeOK
    <2>2. CASE UNCHANGED <<t_received, reported>>
      BY <2>1, <2>2
    <2>3. CASE out[N] # <<>>
      <3> DEFINE slot == Head(out[N])
      <3>1. /\ slot \in Slot /\ slot = out[N][1] /\ 1 \in 1 .. Len(out[N])
            /\ slot.number = t_received + Weight(slot) /\ slot.number <= passed[N]
        BY <2>3, Indices, Streams, TailNumbered DEF InOrder, Taken
      <3>2. SlotOK(N, slot) /\ passed[N] <= passed[0]
        BY <3>1, Indices DEF SlotsOK, NoneAhead, Senders
      <3>3. t_received \in Nat /\ passed[0] \in Nat /\ passed[N] \in Nat
        BY Indices DEF TypeOK
      <3>4. CASE slot.command = "s_run"
        <4>1. t_received < passed[0] /\ t_received' = t_received + 1 /\ UNCHANGED reported
          BY <1>7, <2>3, <3>1, <3>2, <3>3, <3>4 DEF SinkGet, Weight
        <4> QED BY <2>1, <4>1 DEF Output!Next, Output!Receive
      <3>5. CASE slot.command = "s_stop"
        <4>1. reported' = t_received /\ UNCHANGED t_received
          BY <1>7, <2>3, <3>5 DEF SinkGet
        <4>2. ~canceled => Ended(0) /\ t_received = passed[0]
          BY <3>1, <3>2, <3>3, <3>5 DEF SlotOK, Weight
        <4> QED BY <2>1, <4>1, <4>2 DEF Output!Next, Output!Report, Ended
      <3>6. CASE slot.command = "s_start"
        BY <1>7, <2>1, <2>3, <3>1, <3>2, <3>3, <3>6 DEF SinkGet, SlotOK, Weight
      <3>7. CASE slot.command = "s_exit"
        BY <1>7, <2>1, <2>3, <3>7 DEF SinkGet
      <3> QED BY <3>1, <3>4, <3>5, <3>6, <3>7 DEF Slot
    <2> QED BY <1>7, <2>2, <2>3 DEF SinkGet
  <1>8. CASE Cancel
    BY <1>8 DEF Cancel, Output!Next, Output!Cancel
  <1>9. CASE UNCHANGED vars
    BY <1>9 DEF vars
  <1> QED BY <1>1, <1>2, <1>3, <1>4, <1>5, <1>6, <1>7, <1>8, <1>9, Indices
       DEF Next, Producer, Transform, DeadEnd

\* For every chain: the sink counts each chunk once, in order and none before
\* it was sent, and reports them all unless the chain is cancelled.
THEOREM ChainImplementsOutput == Spec => ImplementsChainOutput
  <1>1. IInv => TypeOK
    BY DEF IInv
  <1> QED BY <1>1, InitInv, NextInv, OutputInit, OutputStep, PTL
       DEF Spec, ImplementsChainOutput, Output!Spec

-----------------------------------------------------------------------------
(* Cancelled nodes end.                                                    *)

\* Where a cancelled node goes from a place: it does not turn back.  The sink
\* and the producer pass some of these places only.
After(place) ==
    CASE place = "start" -> {"loop", "done"}
      [] place = "get"   -> {"loop", "set", "stop"}
      [] place = "set"   -> {"loop", "stop", "done"}
      [] place = "loop"  -> {"stop", "done"}
      [] place = "stop"  -> {"exit", "done"}
      [] place = "exit"  -> {"done"}
      [] place = "done"  -> {}

\* Node i goes on, and nothing else moves.
Advance(i) == \E place \in After(pc[i]) : Step(i, pc[i], place)

\* Every step of a cancelled node is one on its way out.
LEMMA NodeAdvances ==
    ASSUME TypeOK, canceled, NEW i \in Nodes, Node(i)
    PROVE  Advance(i) /\ canceled'
  <1> USE DEF Advance, Step, After
  <1>1. ASSUME SendEnd(i) PROVE Advance(i) /\ canceled'
    BY <1>1 DEF SendEnd, SendStop, SendExit
  <1>2. CASE i = 0 /\ Producer
    BY <1>1, <1>2 DEF Producer, ProducerStart, ProducerTest, ProducerSet
  <1>3. CASE i \in Transforms /\ Transform(i)
    BY <1>1, <1>3 DEF Transform, Test, GetNone, Get, Set, SetRefused, SentOn
  <1>4. CASE i = Sink /\ DeadEnd
    BY <1>4 DEF DeadEnd, SinkTest, SinkGet
  <1> QED BY <1>2, <1>3, <1>4 DEF Node

\* Every step is a node's, unless the nodes are being cancelled.
LEMMA StepOfNode ==
    ASSUME [Next]_vars, canceled
    PROVE  (\E i \in Nodes : Node(i)) \/ UNCHANGED <<pc, canceled>>
  <1>1. 0 \in Nodes /\ Sink \in Nodes /\ \A i \in Transforms : i \in Nodes
    BY DEF Nodes, Sink, Transforms
  <1> QED BY <1>1 DEF Next, Node, Cancel, vars

\* Where a cancelled node is, it stays or goes on.
LEMMA CanceledSteps ==
    ASSUME TypeOK, canceled, [Next]_vars, NEW i \in Nodes
    PROVE  /\ canceled'
           /\ pc'[i] \in After(pc[i]) \cup {pc[i]}
           /\ Node(i) => pc'[i] \in After(pc[i])
  <1>1. pc \in [Nodes -> {"start", "loop", "get", "set", "stop", "exit", "done"}]
    BY DEF TypeOK
  <1>2. CASE UNCHANGED <<pc, canceled>> /\ ~Node(i)
    BY <1>2
  <1>3. ASSUME NEW j \in Nodes, Node(j)
        PROVE  canceled' /\ pc'[j] \in After(pc[j]) /\ (j # i => pc'[i] = pc[i])
    <2>1. PICK place \in After(pc[j]) : Step(j, pc[j], place)
      BY <1>3, NodeAdvances DEF Advance
    <2> QED BY <1>1, <1>3, <2>1, NodeAdvances DEF Step
  <1> QED BY <1>2, <1>3, StepOfNode

\* Every node of a chain of any length ends once it is cancelled, however full
\* or empty the streams are and whatever the other nodes do, if it is scheduled.
THEOREM CanceledNodeEnds ==
    ASSUME NEW i \in Nodes
    PROVE  Spec /\ WF_vars(Node(i)) /\ []GoesOn(i) => EndsWhenCanceled(i)
  <1> DEFINE At(place) == canceled /\ pc[i] = place
  <1>1. Spec => []TypeOK
    BY ChainTypeCorrect
  <1>2. TypeOK /\ canceled
            => \/ At("start") \/ At("get") \/ At("set") \/ At("loop") \/ At("stop")
               \/ At("exit") \/ At("done")
    BY DEF TypeOK
  <1>3. TypeOK /\ [Next]_vars
            => /\ At("start") => (At("start") \/ At("loop") \/ At("done"))'
               /\ At("get") => (At("get") \/ At("loop") \/ At("set") \/ At("stop"))'
               /\ At("set") => (At("set") \/ At("loop") \/ At("stop") \/ At("done"))'
               /\ At("loop") => (At("loop") \/ At("stop") \/ At("done"))'
               /\ At("stop") => (At("stop") \/ At("exit") \/ At("done"))'
               /\ At("exit") => (At("exit") \/ At("done"))'
    BY CanceledSteps DEF After
  <1>4. TypeOK /\ [Next]_vars /\ <<Node(i)>>_vars
            => /\ At("start") => (At("loop") \/ At("done"))'
               /\ At("get") => (At("loop") \/ At("set") \/ At("stop"))'
               /\ At("set") => (At("loop") \/ At("stop") \/ At("done"))'
               /\ At("loop") => (At("stop") \/ At("done"))'
               /\ At("stop") => (At("exit") \/ At("done"))'
               /\ At("exit") => At("done")'
    BY CanceledSteps DEF After
  <1>5. At("start") \/ At("get") \/ At("set") \/ At("loop") \/ At("stop") \/ At("exit")
            => CanGo(i)
    BY DEF CanGo
  <1>6. GoesOn(i) /\ CanGo(i) => ENABLED <<Node(i)>>_vars
    BY DEF GoesOn
  <1>7. At("done") => pc[i] = "done"
    OBVIOUS
  <1> HIDE DEF At
  <1> QED BY <1>1, <1>2, <1>3, <1>4, <1>5, <1>6, <1>7, PTL
       DEF Spec, EndsWhenCanceled

=============================================================================
