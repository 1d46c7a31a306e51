-------------------------- MODULE SynchronizerProofs --------------------------
(***************************************************************************)
(* Proofs about Synchronizer, for every capacity, every set of timestamps, *)
(* any number of packets and every pressure limit that lets a single       *)
(* bundle through (SendsAtOnce): nothing is kept back at the select!,      *)
(* every packet carries one item of one stream, nothing of a stream is     *)
(* lost, doubled or overtaken, and what the end of the loop cuts off.      *)
(***************************************************************************)
EXTENDS Synchronizer, TLAPS, FiniteSetTheorems, ListenerProofs

(* The inductive invariant. *)

FiniteHeaps == IsFiniteSet(audioHeap) /\ IsFiniteSet(mocapHeap)

\* At the select! there is nothing to send; in the loop body one packet has come
\* in and is to be sent, or none after a timeout.
RestIsEmpty == ~trySend /\ audioHeap = {} /\ mocapHeap = {}
BodyHoldsOne ==
    IF trySend
    THEN \/ mocapHeap = {} /\ \E x \in Items : audioHeap = {x}
         \/ audioHeap = {} /\ \E x \in Items : mocapHeap = {x}
    ELSE audioHeap = {} /\ mocapHeap = {}

\* One stream: the datagrams with the numbers 1..n are, in this order, sent on,
\* in the heap, in the channel, and in the hands of the listener.
Stream(sent, heap, queue, hand, n) ==
    LET waiting == Len(sent) + (IF heap = {} THEN 0 ELSE 1) IN
    /\ sent = UpTo(Len(sent))
    /\ \A x \in heap : x.n = Len(sent) + 1
    /\ \A i \in DOMAIN queue : queue[i].n = waiting + i
    /\ n = waiting + Len(queue) + (IF hand = None THEN 0 ELSE 1)
    /\ hand # None => hand.n = n

InStep ==
    /\ Stream(fwdAudio, audioHeap, audioIn, audioHand, nAudio)
    /\ Stream(fwdMocap, mocapHeap, mocapIn, mocapHand, nMocap)

Flow ==
    /\ phase = "select" => RestIsEmpty
    /\ phase = "body" => BodyHoldsOne
    /\ Running => InStep

FlowInv ==
    /\ SendsAtOnce => Flow
    /\ EndKeepsAudio
    /\ OneItemPerPacket

SyncInv ==
    /\ TypeOK
    /\ FiniteHeaps
    /\ phase = "ended" => session = "gone"
    /\ FlowInv

-----------------------------------------------------------------------------
(* The operations on a stream. *)

\* The next datagram is taken in.
LEMMA StreamArrives ==
    ASSUME NEW sent, NEW heap, NEW queue, NEW n \in Nat, NEW ts \in Stamps,
           Stream(sent, heap, queue, None, n), Len(sent) \in Nat, Len(queue) \in Nat
    PROVE  Stream(sent, heap, queue, [n |-> n + 1, ts |-> ts], n + 1)
<1>1. [n |-> n + 1, ts |-> ts] # None
  <2>1. [n |-> n + 1, ts |-> ts] \in [n : Nat, ts : Nat]
    BY SizeAssumption
  <2> QED BY <2>1, SizeAssumption
<1> DEFINE waiting == Len(sent) + (IF heap = {} THEN 0 ELSE 1)
<1>2. waiting \in Nat
  OBVIOUS
<1>3. n = waiting + Len(queue) + 0 => n + 1 = waiting + Len(queue) + 1
  <2> HIDE DEF waiting
  <2> QED BY <1>2
<1>4. n = waiting + Len(queue) + 0
  BY DEF Stream
<1> QED BY <1>1, <1>3, <1>4 DEF Stream

\* The listener hands it over.
LEMMA StreamHandsOver ==
    ASSUME NEW sent, NEW heap, NEW queue \in Seq(Items), NEW hand \in Items, NEW n \in Nat,
           Stream(sent, heap, queue, hand, n), hand # None, Len(sent) \in Nat
    PROVE  Stream(sent, heap, Append(queue, hand), None, n)
<1>1. /\ \A i \in DOMAIN Append(queue, hand) :
            \/ i \in DOMAIN queue /\ Append(queue, hand)[i] = queue[i]
            \/ i = Len(queue) + 1 /\ Append(queue, hand)[i] = hand
      /\ Len(Append(queue, hand)) = Len(queue) + 1 /\ Len(queue) \in Nat
  BY AppendEnds
<1> DEFINE waiting == Len(sent) + (IF heap = {} THEN 0 ELSE 1)
<1>2. waiting \in Nat
  OBVIOUS
<1>3. /\ \A i \in DOMAIN queue : queue[i].n = waiting + i
      /\ n = waiting + Len(queue) + 1 /\ hand.n = n
  BY DEF Stream
<1>4. /\ \A i \in DOMAIN Append(queue, hand) : Append(queue, hand)[i].n = waiting + i
      /\ n = waiting + Len(Append(queue, hand)) + 0
  <2> HIDE DEF waiting
  <2>1. n = waiting + (Len(queue) + 1) /\ n = waiting + (Len(queue) + 1) + 0
    BY <1>1, <1>2, <1>3
  <2>2. hand.n = waiting + (Len(queue) + 1)
    BY <1>3, <2>1
  <2> QED BY <1>1, <1>3, <2>1, <2>2
<1> QED BY <1>4 DEF Stream

\* It goes from the channel to its heap, which is empty.
LEMMA StreamTaken ==
    ASSUME NEW sent, NEW queue \in Seq(Items), queue # <<>>, NEW hand, NEW n \in Nat,
           Stream(sent, {}, queue, hand, n), Len(sent) \in Nat
    PROVE  Stream(sent, {Head(queue)}, Tail(queue), hand, n)
<1>1. /\ Head(queue) = queue[1] /\ 1 \in DOMAIN queue
      /\ Len(Tail(queue)) = Len(queue) - 1
      /\ \A k \in DOMAIN Tail(queue) :
            k \in Nat \ {0} /\ k + 1 \in DOMAIN queue /\ Tail(queue)[k] = queue[k + 1]
  BY TailLeaves
<1>2. Len(queue) \in Nat
  OBVIOUS
<1>3. /\ \A i \in DOMAIN queue : queue[i].n = Len(sent) + 0 + i
      /\ n = Len(sent) + 0 + Len(queue) + (IF hand = None THEN 0 ELSE 1)
  BY DEF Stream
<1>4. /\ Head(queue).n = Len(sent) + 1
      /\ \A i \in DOMAIN Tail(queue) : Tail(queue)[i].n = Len(sent) + 1 + i
      /\ n = Len(sent) + 1 + Len(Tail(queue)) + (IF hand = None THEN 0 ELSE 1)
  BY <1>1, <1>2, <1>3
<1> QED BY <1>4 DEF Stream

\* It is sent on.
LEMMA StreamSent ==
    ASSUME NEW sent \in Seq(1..MaxItems), NEW x \in Items, NEW queue, NEW hand, NEW n \in Nat,
           Stream(sent, {x}, queue, hand, n), Len(queue) \in Nat
    PROVE  Stream(Append(sent, x.n), {}, queue, hand, n)
<1>1. x.n = Len(sent) + 1 /\ sent = UpTo(Len(sent)) /\ Len(sent) \in Nat
  BY DEF Stream
<1>2. Append(sent, x.n) = UpTo(Len(sent) + 1) /\ Len(Append(sent, x.n)) = Len(sent) + 1
  <2> DEFINE S == 1..MaxItems
  <2>1. x.n \in S
    BY DEF Items
  <2>2. sent \in Seq(S)
    OBVIOUS
  <2> HIDE DEF S
  <2>3. Append(sent, x.n)
           = [i \in 1..(Len(sent) + 1) |-> IF i = Len(sent) + 1 THEN x.n ELSE sent[i]]
    BY <2>1, <2>2, AppendIs
  <2>4. \A i \in 1..(Len(sent) + 1) : i # Len(sent) + 1 => sent[i] = i
    <3>1. \A i \in 1..Len(sent) : sent[i] = i
      BY <1>1 DEF UpTo
    <3> QED BY <1>1, <3>1
  <2> QED BY <1>1, <2>2, <2>3, <2>4 DEF UpTo
<1>3. {x} # {} /\ Len(sent) + 1 + 0 = Len(sent) + 1
  BY <1>1
<1>4. /\ \A i \in DOMAIN queue : queue[i].n = Len(sent) + 1 + i
      /\ n = Len(sent) + 1 + Len(queue) + (IF hand = None THEN 0 ELSE 1)
      /\ hand # None => hand.n = n
  BY <1>3 DEF Stream
<1> QED BY <1>2, <1>3, <1>4 DEF Stream

\* What NothingLost says of a stream while no packet is in its heap.
LEMMA StreamWhole ==
    ASSUME NEW sent, NEW queue \in Seq(Items), NEW hand \in Items \union {None}, NEW n \in Nat,
           Stream(sent, {}, queue, hand, n), Len(sent) \in Nat
    PROVE  sent \o Numbers(queue) \o Held(hand) = UpTo(n)
<1>1. \A a, b \in Nat : [i \in 1..a |-> i] \o [i \in 1..b |-> a + i] = [i \in 1..(a + b) |-> i]
  OBVIOUS
<1> DEFINE a == Len(sent)
           b == Len(queue)
<1>2. a \in Nat /\ b \in Nat
  OBVIOUS
<1>3. sent = [i \in 1..a |-> i] /\ Numbers(queue) = [i \in 1..b |-> a + i]
  BY DEF Stream, UpTo, Numbers
<1>4. n = a + b + (IF hand = None THEN 0 ELSE 1)
  BY DEF Stream
<1> HIDE DEF a, b
<1>5. sent \o Numbers(queue) = [i \in 1..(a + b) |-> i]
  BY <1>1, <1>2, <1>3
<1>6. CASE hand = None
  <2>1. Held(hand) = [i \in 1..0 |-> a + b + i]
    BY <1>6 DEF Held
  <2> QED BY <1>1, <1>2, <1>4, <1>5, <1>6, <2>1 DEF UpTo
<1>7. CASE hand # None
  <2>1. Held(hand) = [i \in 1..1 |-> a + b + i]
    BY <1>2, <1>4, <1>7 DEF Held, Stream
  <2> QED BY <1>1, <1>2, <1>4, <1>5, <1>7, <2>1 DEF UpTo
<1> QED BY <1>6, <1>7

-----------------------------------------------------------------------------
(* Types. *)

PacketOK == [mocap : Seq(Items), audio : Items \union {None}]

LEMMA Assumptions ==
    /\ None \notin Items
    /\ \A x \in Items : x.n \in 1..MaxItems /\ x.ts \in Stamps
    /\ MaxItems \in Nat /\ InCap \in Nat \ {0} /\ OutCap \in Nat \ {0}
<1>1. \A x \in Items : x \in [n : Nat, ts : Nat]
  <2> DEFINE N == 1..MaxItems
  <2>1. N \subseteq Nat /\ Stamps \subseteq Nat
    BY SizeAssumption
  <2>2. Items = [n : N, ts : Stamps]
    BY DEF Items
  <2> HIDE DEF N
  <2> QED BY <2>1, <2>2
<1>2. None \notin Items
  BY <1>1, SizeAssumption
<1>3. \A x \in Items : x.n \in 1..MaxItems /\ x.ts \in Stamps
  BY DEF Items
<1>4. MaxItems \in Nat /\ InCap \in Nat \ {0} /\ OutCap \in Nat \ {0}
  BY SizeAssumption
<1> QED BY <1>2, <1>3, <1>4

\* Popping empties the heap into a sequence of its items.
LEMMA DrainedIs ==
    ASSUME NEW heap \in SUBSET Items, IsFiniteSet(heap), NEW parts \in Drained(heap)
    PROVE  /\ parts \in Seq(Items) /\ DOMAIN parts = 1..Cardinality(heap)
           /\ \A i \in DOMAIN parts : parts[i] \in heap
<1>1. Cardinality(heap) \in Nat
  BY FS_CardinalityType
<1>2. parts \in [1..Cardinality(heap) -> heap]
  BY DEF Drained
<1> QED BY <1>1, <1>2

LEMMA PurgeIs ==
    ASSUME NEW heap
    PROVE  Purge(heap) = {} \/ Purge(heap) = heap
BY DEF Purge

LEMMA TypeStep == TypeOK /\ FiniteHeaps /\ [Next]_vars => TypeOK' /\ FiniteHeaps'
<1> SUFFICES ASSUME TypeOK, FiniteHeaps, [Next]_vars PROVE TypeOK' /\ FiniteHeaps'
  OBVIOUS
<1> USE Assumptions
<1>0. /\ audioIn \in Seq(Items) /\ mocapIn \in Seq(Items) /\ out \in Seq(PacketOK)
      /\ audioHeap \in SUBSET Items /\ mocapHeap \in SUBSET Items
      /\ fwdAudio \in Seq(1..MaxItems) /\ fwdMocap \in Seq(1..MaxItems)
      /\ Len(out) \in Nat /\ Len(audioIn) \in Nat /\ Len(mocapIn) \in Nat
  BY DEF TypeOK, PacketOK
<1>1. ASSUME NEW ts \in Stamps, AudioArrives(ts) \/ MocapArrives(ts)
      PROVE  TypeOK' /\ FiniteHeaps'
  <2>1. CASE AudioArrives(ts)
    BY <1>1, <2>1 DEF AudioArrives, TypeOK, FiniteHeaps, Items, heaps, output, fwd
  <2>2. CASE MocapArrives(ts)
    BY <1>1, <2>2 DEF MocapArrives, TypeOK, FiniteHeaps, Items, heaps, output, fwd
  <2> QED BY <1>1, <2>1, <2>2
<1>2. CASE AudioHandOver
  <2>1. audioIn' \in Seq(Items) /\ Len(audioIn') <= InCap
    <3>1. CASE audioIn' = audioIn
      BY <3>1 DEF TypeOK
    <3>2. CASE Len(audioIn) < InCap /\ audioIn' = Append(audioIn, audioHand)
      BY <1>0, <1>2, <3>2 DEF AudioHandOver, TypeOK
    <3> QED BY <1>2, <3>1, <3>2 DEF AudioHandOver
  <2>2. audioHand' = None /\ UNCHANGED <<session, mocapHand, nAudio, nMocap, mocapIn, heaps,
                                         output, fwd, trySend, phase>>
    BY <1>2 DEF AudioHandOver
  <2> QED BY <2>1, <2>2 DEF TypeOK, FiniteHeaps, heaps, output, fwd
<1>3. CASE MocapHandOver
  <2>1. mocapIn' \in Seq(Items) /\ Len(mocapIn') <= InCap
    <3>1. CASE mocapIn' = mocapIn
      BY <3>1 DEF TypeOK
    <3>2. CASE Len(mocapIn) < InCap /\ mocapIn' = Append(mocapIn, mocapHand)
      BY <1>0, <1>3, <3>2 DEF MocapHandOver, TypeOK
    <3> QED BY <1>3, <3>1, <3>2 DEF MocapHandOver
  <2>2. mocapHand' = None /\ UNCHANGED <<session, audioHand, nAudio, nMocap, audioIn, heaps,
                                         output, fwd, trySend, phase>>
    BY <1>3 DEF MocapHandOver
  <2> QED BY <2>1, <2>2 DEF TypeOK, FiniteHeaps, heaps, output, fwd
<1>4. CASE Drop \/ CloseOutput \/ AudioTimeout \/ AudioEnds \/ MocapEnds \/ Stopped
           \/ UNCHANGED vars
  BY <1>4 DEF Drop, CloseOutput, AudioTimeout, AudioEnds, MocapEnds, Stopped, TypeOK,
     FiniteHeaps, vars, inputs, hands, heaps, output, fwd
<1>5. CASE RelayTakes
  <2>1. out' \in Seq(PacketOK) /\ Len(out') <= OutCap
    <3>1. out # <<>> /\ out' = Tail(out) /\ Len(out) <= OutCap
      BY <1>5 DEF RelayTakes, TypeOK
    <3>2. Tail(out) \in Seq(PacketOK) /\ Len(Tail(out)) = Len(out) - 1
      BY <1>0, <3>1, TailLeaves
    <3> QED BY <1>0, <3>1, <3>2
  <2> QED BY <1>5, <2>1 DEF RelayTakes, TypeOK, FiniteHeaps, PacketOK, inputs, hands, heaps, fwd
<1>6. CASE TakeAudio
  <2>1. /\ Head(audioIn) \in Items /\ Tail(audioIn) \in Seq(Items)
        /\ Len(Tail(audioIn)) = Len(audioIn) - 1 /\ Len(audioIn) <= InCap
    BY <1>0, <1>6, TailLeaves DEF TakeAudio, TypeOK
  <2>2. IsFiniteSet(audioHeap \union {Head(audioIn)})
    BY FS_AddElement DEF FiniteHeaps
  <2>3. Len(Tail(audioIn)) <= InCap
    BY <1>0, <2>1
  <2> QED BY <1>6, <2>1, <2>2, <2>3 DEF TakeAudio, TypeOK, FiniteHeaps, hands, output, fwd
<1>7. CASE TakeMocap
  <2>1. /\ Head(mocapIn) \in Items /\ Tail(mocapIn) \in Seq(Items)
        /\ Len(Tail(mocapIn)) = Len(mocapIn) - 1 /\ Len(mocapIn) <= InCap
    BY <1>0, <1>7, TailLeaves DEF TakeMocap, TypeOK
  <2>2. IsFiniteSet(mocapHeap \union {Head(mocapIn)})
    BY FS_AddElement DEF FiniteHeaps
  <2>3. Len(Tail(mocapIn)) <= InCap
    BY <1>0, <2>1
  <2>4. trySend' \in BOOLEAN
    BY <1>7 DEF TakeMocap, TypeOK
  <2> QED BY <1>7, <2>1, <2>2, <2>3, <2>4 DEF TakeMocap, TypeOK, FiniteHeaps, hands, output, fwd
<1>8. CASE SendPacket
  <2>1. PICK parts \in Drained(mocapHeap),
             audio \in (IF audioHeap = {} THEN {None} ELSE Earliest(audioHeap)) :
                /\ out' = Append(out, Packet(parts, audio))
                /\ Forward(parts, audio)
                /\ audioHeap' = Purge(audioHeap \ {audio})
    BY <1>8 DEF SendPacket
  <2>2. /\ parts \in Seq(Items)
        /\ [i \in DOMAIN parts |-> parts[i].n] \in Seq(1..MaxItems)
    <3>1. parts \in Seq(Items) /\ \A i \in DOMAIN parts : parts[i] \in Items
      BY <1>0, DrainedIs DEF FiniteHeaps
    <3>2. DOMAIN parts = 1..Len(parts) /\ Len(parts) \in Nat
      BY <3>1
    <3>3. [i \in DOMAIN parts |-> parts[i].n] \in [1..Len(parts) -> 1..MaxItems]
      BY <3>1, <3>2
    <3> QED BY <3>1, <3>2, <3>3
  <2>3. audio \in Items \union {None}
    BY <1>0 DEF Earliest
  <2>4. Packet(parts, audio) \in PacketOK
    BY <2>2, <2>3 DEF Packet, PacketOK
  <2>5. out' \in Seq(PacketOK) /\ Len(out') <= OutCap
    BY <1>0, <1>8, <2>1, <2>4 DEF SendPacket, OutRoom
  <2>6. fwdMocap' \in Seq(1..MaxItems) /\ fwdAudio' \in Seq(1..MaxItems)
    <3> DEFINE S == 1..MaxItems
               sent == [i \in DOMAIN parts |-> parts[i].n]
    <3>1. sent \in Seq(S) /\ fwdMocap \in Seq(S) /\ fwdAudio \in Seq(S)
      BY <1>0, <2>2
    <3>2. /\ fwdMocap' = fwdMocap \o sent
          /\ fwdAudio' = IF audio = None THEN fwdAudio ELSE Append(fwdAudio, audio.n)
      BY <2>1 DEF Forward
    <3>3. audio # None => audio.n \in S
      BY <2>3
    <3> HIDE DEF S, sent
    <3>4. fwdMocap' \in Seq(S) /\ fwdAudio' \in Seq(S)
      BY <3>1, <3>2, <3>3
    <3> QED BY <3>4 DEF S
  <2>7. audioHeap' \subseteq audioHeap /\ IsFiniteSet(audioHeap')
    <3> DEFINE rest == audioHeap \ {audio}
    <3>1. IsFiniteSet(rest) /\ rest \subseteq audioHeap
      BY FS_RemoveElement DEF FiniteHeaps
    <3>2. audioHeap' = {} \/ audioHeap' = rest
      BY <2>1, PurgeIs
    <3> HIDE DEF rest
    <3> QED BY <3>1, <3>2, FS_EmptySet
  <2>8. /\ mocapHeap' = {} /\ trySend' = FALSE /\ phase' = "select" /\ IsFiniteSet({})
        /\ UNCHANGED <<inputs, outOpen>>
    BY <1>8, FS_EmptySet DEF SendPacket
  <2> QED BY <1>0, <2>5, <2>6, <2>7, <2>8 DEF TypeOK, FiniteHeaps, PacketOK, inputs, hands
<1>9. CASE SendFails \/ SkipSend
  <2>1. /\ audioHeap' \subseteq audioHeap /\ IsFiniteSet(audioHeap')
        /\ mocapHeap' \subseteq mocapHeap /\ IsFiniteSet(mocapHeap')
    <3>1. CASE SendFails
      <4>1. PICK audio : audioHeap' = audioHeap \ {audio} /\ mocapHeap' = {}
        BY <3>1 DEF SendFails
      <4> QED BY <4>1, FS_RemoveElement, FS_EmptySet DEF FiniteHeaps
    <3>2. CASE SkipSend
      <4>1. audioHeap' = Purge(audioHeap) /\ mocapHeap' = Purge(mocapHeap)
        BY <3>2 DEF SkipSend
      <4>2. /\ audioHeap' = {} \/ audioHeap' = audioHeap
            /\ mocapHeap' = {} \/ mocapHeap' = mocapHeap
        BY <4>1, PurgeIs
      <4> QED BY <4>2, FS_EmptySet DEF FiniteHeaps
    <3> QED BY <1>9, <3>1, <3>2
  <2>2. phase' \in {"select", "broken"} /\ UNCHANGED <<inputs, output, fwd, trySend>>
    BY <1>9 DEF SendFails, SkipSend
  <2> QED BY <1>0, <2>1, <2>2 DEF TypeOK, FiniteHeaps, inputs, hands, output, fwd
<1> QED BY <1>1, <1>2, <1>3, <1>4, <1>5, <1>6, <1>7, <1>8, <1>9 DEF Next, Take, End, Body

-----------------------------------------------------------------------------
(* The flow. *)

\* Popping the heaps while one of them holds one packet.
LEMMA PoppedIs ==
    ASSUME NEW heap, NEW parts \in Drained(heap)
    PROVE  /\ heap = {} => parts = <<>>
           /\ \A x : heap = {x} => parts = <<x>>
<1>1. parts \in [1..Cardinality(heap) -> heap]
  BY DEF Drained
<1>2. ASSUME heap = {} PROVE parts = <<>>
  BY <1>1, <1>2, FS_EmptySet
<1>3. ASSUME NEW x, heap = {x} PROVE parts = <<x>>
  <2>1. Cardinality(heap) = 1
    BY <1>3, FS_Singleton
  <2> QED BY <1>1, <1>3, <2>1
<1> QED BY <1>2, <1>3

LEMMA EarliestOfOne ==
    ASSUME NEW x \in Items
    PROVE  Earliest({x}) = {x}
<1>1. x.ts \in Nat
  BY Assumptions, SizeAssumption
<1> QED BY <1>1 DEF Earliest

\* A packet is sent on: the one that came in.
LEMMA OneIsSent ==
    ASSUME TypeOK, phase = "body" => BodyHoldsOne, SendPacket
    PROVE  \/ \E x \in Items :
                 /\ audioHeap = {x} /\ mocapHeap = {} /\ mocapHeap' = {} /\ audioHeap' = {}
                 /\ fwdAudio' = Append(fwdAudio, x.n) /\ fwdMocap' = fwdMocap
                 /\ out' = Append(out, Packet(<<>>, x))
           \/ \E x \in Items :
                 /\ mocapHeap = {x} /\ audioHeap = {} /\ mocapHeap' = {} /\ audioHeap' = {}
                 /\ fwdMocap' = Append(fwdMocap, x.n) /\ fwdAudio' = fwdAudio
                 /\ out' = Append(out, Packet(<<x>>, None))
<1>1. PICK parts \in Drained(mocapHeap),
           audio \in (IF audioHeap = {} THEN {None} ELSE Earliest(audioHeap)) :
              /\ out' = Append(out, Packet(parts, audio))
              /\ Forward(parts, audio)
              /\ audioHeap' = Purge(audioHeap \ {audio})
  BY DEF SendPacket
<1>2. mocapHeap' = {} /\ BodyHoldsOne /\ trySend
  BY DEF SendPacket
<1>3. Purge({}) = {}
  BY DEF Purge
<1>4. fwdMocap \in Seq(1..MaxItems)
  BY DEF TypeOK
<1>5. ASSUME NEW x \in Items, audioHeap = {x}, mocapHeap = {}
      PROVE  /\ audioHeap' = {}
             /\ fwdAudio' = Append(fwdAudio, x.n) /\ fwdMocap' = fwdMocap
             /\ out' = Append(out, Packet(<<>>, x))
  <2>1. audio = x /\ x # None
    BY <1>5, EarliestOfOne, Assumptions
  <2>2. parts = <<>>
    BY <1>5, PoppedIs
  <2>3. audioHeap' = {}
    <3>1. audioHeap \ {audio} = {}
      BY <1>5, <2>1
    <3> QED BY <1>1, <1>3, <3>1
  <2>4. fwdMocap' = fwdMocap
    <3>1. fwdMocap' = fwdMocap \o [i \in DOMAIN parts |-> parts[i].n]
      BY <1>1 DEF Forward
    <3>2. [i \in DOMAIN parts |-> parts[i].n] = <<>>
      BY <2>2
    <3> DEFINE S == 1..MaxItems
    <3>3. fwdMocap \in Seq(S)
      BY <1>4
    <3> HIDE DEF S
    <3> QED BY <3>1, <3>2, <3>3
  <2>5. fwdAudio' = Append(fwdAudio, x.n)
    BY <1>1, <2>1 DEF Forward
  <2> QED BY <1>1, <2>1, <2>2, <2>3, <2>4, <2>5
<1>6. ASSUME NEW x \in Items, mocapHeap = {x}, audioHeap = {}
      PROVE  /\ audioHeap' = {}
             /\ fwdMocap' = Append(fwdMocap, x.n) /\ fwdAudio' = fwdAudio
             /\ out' = Append(out, Packet(<<x>>, None))
  <2>1. audio = None
    BY <1>6
  <2>2. parts = <<x>>
    BY <1>6, PoppedIs
  <2>3. audioHeap' = {}
    <3>1. audioHeap \ {audio} = {}
      BY <1>6
    <3> QED BY <1>1, <1>3, <3>1
  <2>4. fwdMocap' = Append(fwdMocap, x.n)
    <3>1. fwdMocap' = fwdMocap \o [i \in DOMAIN parts |-> parts[i].n]
      BY <1>1 DEF Forward
    <3>2. [i \in DOMAIN parts |-> parts[i].n] = <<x.n>>
      BY <2>2
    <3> DEFINE S == 1..MaxItems
    <3>3. fwdMocap \in Seq(S) /\ x.n \in S
      BY <1>4, Assumptions
    <3> HIDE DEF S
    <3> QED BY <3>1, <3>2, <3>3
  <2>5. fwdAudio' = fwdAudio
    BY <1>1, <2>1 DEF Forward
  <2> QED BY <1>1, <2>1, <2>2, <2>3, <2>4, <2>5
<1> QED BY <1>2, <1>5, <1>6 DEF BodyHoldsOne

\* What the steps of the others leave alone.
LEMMA OthersKeep ==
    ASSUME SyncInv, SendsAtOnce, Drop \/ CloseOutput \/ RelayTakes \/ Stopped \/ UNCHANGED vars
    PROVE  Flow'
<1>1. /\ UNCHANGED <<phase, trySend, audioHeap, mocapHeap, audioIn, mocapIn>>
      /\ UNCHANGED <<audioHand, mocapHand, nAudio, nMocap, fwdAudio, fwdMocap>>
  BY DEF Drop, CloseOutput, RelayTakes, Stopped, vars, inputs, hands, heaps, output, fwd
<1>2. Flow
  BY DEF SyncInv, FlowInv
<1> QED BY <1>1, <1>2 DEF Flow, RestIsEmpty, BodyHoldsOne, Running, InStep, Stream

LEMMA FlowStep == SyncInv /\ SendsAtOnce /\ [Next]_vars => Flow'
<1> SUFFICES ASSUME SyncInv, SendsAtOnce, [Next]_vars PROVE Flow'
  OBVIOUS
<1> USE Assumptions
<1>0. /\ audioIn \in Seq(Items) /\ mocapIn \in Seq(Items)
      /\ fwdAudio \in Seq(1..MaxItems) /\ fwdMocap \in Seq(1..MaxItems)
      /\ Len(audioIn) \in Nat /\ Len(mocapIn) \in Nat
      /\ Len(fwdAudio) \in Nat /\ Len(fwdMocap) \in Nat
      /\ nAudio \in Nat /\ nMocap \in Nat
      /\ audioHand \in Items \union {None} /\ mocapHand \in Items \union {None}
      /\ audioHeap \subseteq Items /\ mocapHeap \subseteq Items /\ trySend \in BOOLEAN
  <2>1. nAudio \in 0..MaxItems /\ nMocap \in 0..MaxItems
    BY DEF SyncInv, TypeOK
  <2>2. nAudio \in Nat /\ nMocap \in Nat
    BY <2>1
  <2>3. /\ fwdAudio \in Seq(1..MaxItems) /\ fwdMocap \in Seq(1..MaxItems)
        /\ Len(fwdAudio) \in Nat /\ Len(fwdMocap) \in Nat
    <3> DEFINE S == 1..MaxItems
    <3>1. fwdAudio \in Seq(S) /\ fwdMocap \in Seq(S)
      BY DEF SyncInv, TypeOK
    <3> HIDE DEF S
    <3>2. Len(fwdAudio) \in Nat /\ Len(fwdMocap) \in Nat
      BY <3>1
    <3> QED BY <3>1, <3>2 DEF S
  <2> QED BY <2>2, <2>3 DEF SyncInv, TypeOK
<1>f. Flow
  BY DEF SyncInv, FlowInv
<1>h. ASSUME NEW x
      PROVE  {x} # {}
  OBVIOUS
<1>1. ASSUME NEW ts \in Stamps, AudioArrives(ts)
      PROVE  Flow'
  <2>1. /\ audioHand = None /\ audioHand' = [n |-> nAudio + 1, ts |-> ts] /\ nAudio' = nAudio + 1
        /\ UNCHANGED <<mocapHand, nMocap, audioIn, mocapIn, audioHeap, mocapHeap>>
        /\ UNCHANGED <<fwdAudio, fwdMocap, trySend, phase>>
    BY <1>1 DEF AudioArrives, heaps, fwd
  <2>2. Running => Stream(fwdAudio, audioHeap, audioIn, [n |-> nAudio + 1, ts |-> ts], nAudio + 1)
    BY <1>0, <1>f, <2>1, StreamArrives DEF Flow, InStep
  <2> QED BY <1>f, <2>1, <2>2 DEF Flow, RestIsEmpty, BodyHoldsOne, Running, InStep
<1>2. ASSUME NEW ts \in Stamps, MocapArrives(ts)
      PROVE  Flow'
  <2>1. /\ mocapHand = None /\ mocapHand' = [n |-> nMocap + 1, ts |-> ts] /\ nMocap' = nMocap + 1
        /\ UNCHANGED <<audioHand, nAudio, audioIn, mocapIn, audioHeap, mocapHeap>>
        /\ UNCHANGED <<fwdAudio, fwdMocap, trySend, phase>>
    BY <1>2 DEF MocapArrives, heaps, fwd
  <2>2. Running => Stream(fwdMocap, mocapHeap, mocapIn, [n |-> nMocap + 1, ts |-> ts], nMocap + 1)
    BY <1>0, <1>f, <2>1, StreamArrives DEF Flow, InStep
  <2> QED BY <1>f, <2>1, <2>2 DEF Flow, RestIsEmpty, BodyHoldsOne, Running, InStep
<1>3. CASE AudioHandOver
  <2>1. /\ audioHand # None /\ audioHand' = None
        /\ Running => audioIn' = Append(audioIn, audioHand)
        /\ UNCHANGED <<mocapHand, nAudio, nMocap, mocapIn, audioHeap, mocapHeap>>
        /\ UNCHANGED <<fwdAudio, fwdMocap, trySend, phase>>
    BY <1>3 DEF AudioHandOver, heaps, fwd
  <2>2. Running => Stream(fwdAudio, audioHeap, Append(audioIn, audioHand), None, nAudio)
    BY <1>0, <1>f, <2>1, StreamHandsOver DEF Flow, InStep
  <2> QED BY <1>f, <2>1, <2>2 DEF Flow, RestIsEmpty, BodyHoldsOne, Running, InStep
<1>4. CASE MocapHandOver
  <2>1. /\ mocapHand # None /\ mocapHand' = None
        /\ Running => mocapIn' = Append(mocapIn, mocapHand)
        /\ UNCHANGED <<audioHand, nAudio, nMocap, audioIn, audioHeap, mocapHeap>>
        /\ UNCHANGED <<fwdAudio, fwdMocap, trySend, phase>>
    BY <1>4 DEF MocapHandOver, heaps, fwd
  <2>2. Running => Stream(fwdMocap, mocapHeap, Append(mocapIn, mocapHand), None, nMocap)
    BY <1>0, <1>f, <2>1, StreamHandsOver DEF Flow, InStep
  <2> QED BY <1>f, <2>1, <2>2 DEF Flow, RestIsEmpty, BodyHoldsOne, Running, InStep
<1>5. CASE Drop \/ CloseOutput \/ RelayTakes \/ Stopped \/ UNCHANGED vars
  BY <1>5, OthersKeep
<1>6. CASE TakeAudio
  <2>1. /\ phase = "select" /\ phase' = "body" /\ trySend' = TRUE /\ audioIn # <<>>
        /\ audioHeap' = audioHeap \union {Head(audioIn)} /\ audioIn' = Tail(audioIn)
        /\ UNCHANGED <<audioHand, mocapHand, nAudio, nMocap, mocapIn, mocapHeap>>
        /\ UNCHANGED <<fwdAudio, fwdMocap>>
    BY <1>6 DEF TakeAudio, hands, fwd
  <2>2. audioHeap = {} /\ mocapHeap = {} /\ InStep
    BY <1>f, <2>1 DEF Flow, RestIsEmpty, Running
  <2>3. audioHeap' = {Head(audioIn)}
    BY <2>1, <2>2
  <2>4. Stream(fwdAudio, {Head(audioIn)}, Tail(audioIn), audioHand, nAudio)
    BY <1>0, <2>1, <2>2, StreamTaken DEF InStep
  <2>5. Head(audioIn) \in Items
    BY <1>0, <2>1
  <2>6. BodyHoldsOne'
    BY <2>1, <2>2, <2>3, <2>5 DEF BodyHoldsOne
  <2>7. InStep'
    BY <2>1, <2>2, <2>3, <2>4 DEF InStep
  <2> QED BY <2>1, <2>6, <2>7 DEF Flow
<1>7. CASE TakeMocap
  <2>1. /\ phase = "select" /\ phase' = "body" /\ mocapIn # <<>>
        /\ mocapHeap' = mocapHeap \union {Head(mocapIn)} /\ mocapIn' = Tail(mocapIn)
        /\ trySend' = (trySend \/ SendsAt(Cardinality(mocapHeap')))
        /\ UNCHANGED <<audioHand, mocapHand, nAudio, nMocap, audioIn, audioHeap>>
        /\ UNCHANGED <<fwdAudio, fwdMocap>>
    BY <1>7 DEF TakeMocap, hands, fwd
  <2>2. audioHeap = {} /\ mocapHeap = {} /\ InStep
    BY <1>f, <2>1 DEF Flow, RestIsEmpty, Running
  <2>3. mocapHeap' = {Head(mocapIn)}
    BY <2>1, <2>2
  <2>4. trySend' = TRUE
    <3>1. Cardinality({Head(mocapIn)}) = 1
      BY FS_Singleton
    <3> QED BY <2>1, <2>3, <3>1 DEF SendsAtOnce, SendsAt
  <2>5. Stream(fwdMocap, {Head(mocapIn)}, Tail(mocapIn), mocapHand, nMocap)
    BY <1>0, <2>1, <2>2, StreamTaken DEF InStep
  <2>6. Head(mocapIn) \in Items
    BY <1>0, <2>1
  <2>7. BodyHoldsOne'
    BY <2>1, <2>2, <2>3, <2>4, <2>6 DEF BodyHoldsOne
  <2>8. InStep'
    BY <2>1, <2>2, <2>3, <2>5 DEF InStep
  <2> QED BY <2>1, <2>7, <2>8 DEF Flow
<1>8. CASE AudioTimeout
  <2>1. /\ phase = "select" /\ phase' = "body" /\ trySend' = (trySend \/ mocapHeap # {})
        /\ UNCHANGED <<audioHand, mocapHand, nAudio, nMocap, audioIn, mocapIn>>
        /\ UNCHANGED <<audioHeap, mocapHeap, fwdAudio, fwdMocap>>
    BY <1>8 DEF AudioTimeout, inputs, hands, heaps, fwd
  <2> QED BY <1>f, <2>1 DEF Flow, RestIsEmpty, BodyHoldsOne, Running, InStep
<1>9. CASE AudioEnds \/ MocapEnds \/ SendFails
  BY <1>9 DEF AudioEnds, MocapEnds, SendFails, Flow, Running
<1>10. CASE SendPacket
  <2>1. /\ phase = "body" /\ phase' = "select" /\ trySend' = FALSE
        /\ UNCHANGED <<audioHand, mocapHand, nAudio, nMocap, audioIn, mocapIn>>
    BY <1>10 DEF SendPacket, inputs, hands
  <2>2. BodyHoldsOne /\ InStep
    BY <1>f, <2>1 DEF Flow, Running
  <2>3. ASSUME NEW x \in Items, audioHeap = {x}, mocapHeap = {}, mocapHeap' = {}, audioHeap' = {},
               fwdAudio' = Append(fwdAudio, x.n), fwdMocap' = fwdMocap
        PROVE  RestIsEmpty' /\ InStep'
    <3>1. Stream(Append(fwdAudio, x.n), {}, audioIn, audioHand, nAudio)
      BY <1>0, <2>2, <2>3, StreamSent DEF InStep
    <3> QED BY <2>1, <2>2, <2>3, <3>1 DEF RestIsEmpty, InStep
  <2>4. ASSUME NEW x \in Items, mocapHeap = {x}, audioHeap = {}, mocapHeap' = {}, audioHeap' = {},
               fwdMocap' = Append(fwdMocap, x.n), fwdAudio' = fwdAudio
        PROVE  RestIsEmpty' /\ InStep'
    <3>1. Stream(Append(fwdMocap, x.n), {}, mocapIn, mocapHand, nMocap)
      BY <1>0, <2>2, <2>4, StreamSent DEF InStep
    <3> QED BY <2>1, <2>2, <2>4, <3>1 DEF RestIsEmpty, InStep
  <2>5. RestIsEmpty' /\ InStep'
    BY <1>10, <2>2, <2>3, <2>4, OneIsSent DEF SyncInv
  <2> QED BY <2>1, <2>5 DEF Flow
<1>11. CASE SkipSend
  <2>1. /\ phase = "body" /\ phase' = "select" /\ ~trySend
        /\ audioHeap' = Purge(audioHeap) /\ mocapHeap' = Purge(mocapHeap)
        /\ UNCHANGED <<audioHand, mocapHand, nAudio, nMocap, audioIn, mocapIn>>
        /\ UNCHANGED <<fwdAudio, fwdMocap, trySend>>
    BY <1>11 DEF SkipSend, inputs, hands, fwd
  <2>2. audioHeap = {} /\ mocapHeap = {} /\ InStep
    BY <1>f, <2>1 DEF Flow, BodyHoldsOne, Running
  <2>3. audioHeap' = {} /\ mocapHeap' = {}
    BY <2>1, <2>2 DEF Purge
  <2> QED BY <2>1, <2>2, <2>3 DEF Flow, RestIsEmpty, InStep
<1> QED BY <1>1, <1>2, <1>3, <1>4, <1>5, <1>6, <1>7, <1>8, <1>9, <1>10, <1>11
        DEF Next, Take, End, Body

\* The loop ends at its select!, when an input is dry and its senders are gone.
LEMMA EndStep ==
    SyncInv /\ [Next]_vars => EndKeepsAudio' /\ (phase' = "ended" => session' = "gone")
<1> SUFFICES ASSUME SyncInv, [Next]_vars, phase' = "ended"
             PROVE  /\ session' = "gone"
                    /\ SendsAtOnce => \/ fwdAudio' = UpTo(nAudio')
                                      \/ fwdMocap' = UpTo(nMocap') /\ fwdAudio' = UpTo(nAudio' - 1)
  BY DEF EndKeepsAudio
<1>0. /\ phase = "ended" => session = "gone"
      /\ SendsAtOnce /\ phase = "ended" =>
            \/ fwdAudio = UpTo(nAudio)
            \/ fwdMocap = UpTo(nMocap) /\ fwdAudio = UpTo(nAudio - 1)
  BY DEF SyncInv, FlowInv, EndKeepsAudio
<1>1. CASE phase = "ended"
  <2>1. UNCHANGED <<nAudio, nMocap, fwdAudio, fwdMocap>> /\ session' = "gone"
    <3>1. ASSUME NEW ts \in Stamps PROVE ~AudioArrives(ts) /\ ~MocapArrives(ts)
      BY <1>0, <1>1 DEF AudioArrives, MocapArrives
    <3>2. ~Drop /\ ~Take /\ ~End /\ ~Body /\ ~AudioTimeout
      BY <1>0, <1>1 DEF Drop, Take, TakeAudio, TakeMocap, End, AudioEnds, MocapEnds, Body,
         SendPacket, SendFails, SkipSend, AudioTimeout
    <3>3. CASE AudioHandOver \/ MocapHandOver \/ RelayTakes \/ CloseOutput \/ Stopped
               \/ UNCHANGED vars
      BY <1>0, <1>1, <3>3 DEF AudioHandOver, MocapHandOver, RelayTakes, CloseOutput, Stopped,
         vars, inputs, hands, fwd
    <3> QED BY <3>1, <3>2, <3>3 DEF Next
  <2> QED BY <1>0, <1>1, <2>1
<1>2. CASE phase # "ended"
  <2>1. AudioEnds \/ MocapEnds
    <3>1. ASSUME NEW ts \in Stamps, AudioArrives(ts) \/ MocapArrives(ts) PROVE phase' = phase
      BY <3>1 DEF AudioArrives, MocapArrives
    <3>2. CASE AudioHandOver \/ MocapHandOver \/ Drop \/ RelayTakes \/ CloseOutput \/ Stopped
               \/ UNCHANGED vars
      BY <1>2, <3>2 DEF AudioHandOver, MocapHandOver, Drop, RelayTakes, CloseOutput, Stopped, vars
    <3>3. CASE TakeAudio \/ TakeMocap \/ AudioTimeout \/ Body
      BY <1>2, <3>3 DEF TakeAudio, TakeMocap, AudioTimeout, Body, SendPacket, SendFails, SkipSend
    <3> QED BY <1>2, <3>1, <3>2, <3>3 DEF Next, Take, End
  <2>2. /\ phase = "select" /\ audioIn = <<>>
        /\ UNCHANGED <<session, audioHand, nAudio, nMocap, fwdAudio, fwdMocap>>
    BY <2>1 DEF AudioEnds, MocapEnds, AudioPending, inputs, hands, fwd
  <2>3. session' = "gone"
    BY <2>1, <2>2 DEF AudioEnds, MocapEnds, AudioOpen, MocapOpen
  <2>4. ASSUME SendsAtOnce
        PROVE  \/ fwdAudio = UpTo(nAudio)
               \/ fwdMocap = UpTo(nMocap) /\ fwdAudio = UpTo(nAudio - 1)
    <3>1. audioHeap = {} /\ mocapHeap = {} /\ InStep
      BY <2>2, <2>4 DEF SyncInv, FlowInv, Flow, RestIsEmpty, Running
    <3>2. Len(fwdAudio) \in Nat /\ Len(fwdMocap) \in Nat
      <4> DEFINE S == 1..MaxItems
      <4>1. fwdAudio \in Seq(S) /\ fwdMocap \in Seq(S)
        BY DEF SyncInv, TypeOK
      <4> HIDE DEF S
      <4> QED BY <4>1
    <3>3. /\ fwdAudio = UpTo(Len(fwdAudio))
          /\ nAudio = Len(fwdAudio) + 0 + 0 + (IF audioHand = None THEN 0 ELSE 1)
      BY <2>2, <3>1 DEF InStep, Stream
    <3>4. CASE audioHand = None
      BY <3>2, <3>3, <3>4
    <3>5. CASE audioHand # None
      <4>1. mocapIn = <<>> /\ mocapHand = None
        BY <2>1, <3>5 DEF AudioEnds, MocapEnds, AudioOpen, MocapOpen
      <4>2. /\ fwdMocap = UpTo(Len(fwdMocap))
            /\ nMocap = Len(fwdMocap) + 0 + 0 + 0
        BY <3>1, <4>1 DEF InStep, Stream
      <4>3. nAudio - 1 = Len(fwdAudio) /\ nMocap = Len(fwdMocap)
        BY <3>2, <3>3, <3>5, <4>2
      <4> QED BY <3>3, <4>2, <4>3
    <3> QED BY <3>4, <3>5
  <2> QED BY <2>2, <2>3, <2>4
<1> QED BY <1>1, <1>2

LEMMA PacketsStep == SyncInv /\ [Next]_vars => OneItemPerPacket'
<1> SUFFICES ASSUME SyncInv, [Next]_vars, SendsAtOnce,
                    NEW k \in DOMAIN out'
             PROVE  Len(out'[k].mocap) = (IF out'[k].audio = None THEN 1 ELSE 0)
  BY DEF OneItemPerPacket, SendsAtOnce
<1>0. /\ \A j \in DOMAIN out : Len(out[j].mocap) = (IF out[j].audio = None THEN 1 ELSE 0)
      /\ out \in Seq(PacketOK)
  BY DEF SyncInv, FlowInv, OneItemPerPacket, TypeOK, PacketOK
<1>1. CASE out' = out
  BY <1>0, <1>1
<1>2. CASE RelayTakes
  <2>1. out # <<>> /\ out' = Tail(out)
    BY <1>2 DEF RelayTakes
  <2>2. k + 1 \in DOMAIN out /\ out'[k] = out[k + 1]
    BY <1>0, <2>1, TailLeaves
  <2> QED BY <1>0, <2>2
<1>3. CASE SendPacket
  <2>1. \E p : /\ out' = Append(out, p)
               /\ Len(p.mocap) = (IF p.audio = None THEN 1 ELSE 0)
    <3>1. \A x \in Items : /\ Packet(<<>>, x).mocap = <<>> /\ Packet(<<>>, x).audio = x
                           /\ Packet(<<x>>, None).mocap = <<x>> /\ Packet(<<x>>, None).audio = None
      BY DEF Packet
    <3>2. \A x \in Items : x # None /\ Len(<<>>) = 0 /\ Len(<<x>>) = 1
      BY Assumptions
    <3>3. TypeOK /\ (phase = "body" => BodyHoldsOne)
      BY DEF SyncInv, FlowInv, Flow
    <3>4. \/ \E x \in Items : out' = Append(out, Packet(<<>>, x))
          \/ \E x \in Items : out' = Append(out, Packet(<<x>>, None))
      BY <1>3, <3>3, OneIsSent
    <3>5. ASSUME NEW x \in Items, out' = Append(out, Packet(<<>>, x))
          PROVE  \E p : /\ out' = Append(out, p)
                        /\ Len(p.mocap) = (IF p.audio = None THEN 1 ELSE 0)
      <4> WITNESS Packet(<<>>, x)
      <4> QED BY <3>1, <3>2, <3>5
    <3>6. ASSUME NEW x \in Items, out' = Append(out, Packet(<<x>>, None))
          PROVE  \E p : /\ out' = Append(out, p)
                        /\ Len(p.mocap) = (IF p.audio = None THEN 1 ELSE 0)
      <4> DEFINE p == Packet(<<x>>, None)
      <4>1. Len(p.mocap) = 1 /\ p.audio = None
        BY <3>1, <3>2
      <4> HIDE DEF p
      <4> WITNESS p
      <4> QED BY <3>6, <4>1 DEF p
    <3> QED BY <3>4, <3>5, <3>6
  <2>2. PICK p : /\ out' = Append(out, p)
                 /\ Len(p.mocap) = (IF p.audio = None THEN 1 ELSE 0)
    BY <2>1
  <2>3. \/ k \in DOMAIN out /\ out'[k] = out[k]
        \/ out'[k] = p
    BY <1>0, <2>2, AppendEnds
  <2> QED BY <1>0, <2>2, <2>3
<1>4. ASSUME NEW ts \in Stamps, AudioArrives(ts) \/ MocapArrives(ts) PROVE out' = out
  BY <1>4 DEF AudioArrives, MocapArrives, output
<1>5. CASE AudioHandOver \/ MocapHandOver \/ Drop \/ CloseOutput \/ Stopped \/ UNCHANGED vars
  BY <1>1, <1>5 DEF AudioHandOver, MocapHandOver, Drop, CloseOutput, Stopped, vars, output
<1>6. CASE Take \/ AudioTimeout \/ End \/ SendFails \/ SkipSend
  BY <1>1, <1>6 DEF Take, TakeAudio, TakeMocap, AudioTimeout, End, AudioEnds, MocapEnds,
     SendFails, SkipSend, output
<1> QED BY <1>1, <1>2, <1>3, <1>4, <1>5, <1>6 DEF Next, Body

LEMMA SyncInit == Init => SyncInv
<1> SUFFICES ASSUME Init PROVE SyncInv
  OBVIOUS
<1>1. TypeOK /\ FiniteHeaps
  <2>1. \A S : <<>> \in Seq(S) /\ Len(<<>>) = 0
    OBVIOUS
  <2>2. 0 \in 0..MaxItems /\ 0 <= InCap /\ 0 <= OutCap
    BY Assumptions
  <2> QED BY <2>1, <2>2, FS_EmptySet DEF Init, TypeOK, FiniteHeaps
<1>2. Stream(<<>>, {}, <<>>, None, 0)
  BY DEF Stream, UpTo
<1>3. Flow
  BY <1>2 DEF Init, Flow, RestIsEmpty, InStep
<1> QED BY <1>1, <1>3 DEF Init, SyncInv, FlowInv, EndKeepsAudio, OneItemPerPacket

LEMMA SyncStep == SyncInv /\ [Next]_vars => SyncInv'
<1>1. SyncInv /\ [Next]_vars => TypeOK' /\ FiniteHeaps'
  BY TypeStep DEF SyncInv
<1>2. SyncInv /\ [Next]_vars => (SendsAtOnce => Flow)'
  BY FlowStep DEF SendsAtOnce
<1> QED BY <1>1, <1>2, EndStep, PacketsStep DEF SyncInv, FlowInv

-----------------------------------------------------------------------------
(* The theorems. *)

\* The invariant holds throughout, for every capacity and any set of timestamps.
THEOREM SynchronizerInvariance == Spec => []SyncInv
BY SyncInit, SyncStep, PTL DEF Spec

\* The types: the channels keep within their capacity and the heaps hold only
\* datagrams that came in, whatever the purge drops.
THEOREM SynchronizerTypes == Spec => []TypeOK
<1>1. SyncInv => TypeOK
  BY DEF SyncInv
<1> QED BY <1>1, SynchronizerInvariance, PTL

\* Between two packets the loop holds nothing: the heaps are empty whenever it
\* waits at its select!.
THEOREM NothingKeptBack == Spec => []HeapsDrained
<1>1. SyncInv => HeapsDrained
  BY DEF SyncInv, FlowInv, Flow, RestIsEmpty, HeapsDrained
<1> QED BY <1>1, SynchronizerInvariance, PTL

\* Both streams arrive whole and in order: what was sent on, what waits in the
\* channel and what the listener holds are the numbers 1 up to the last taken in.
THEOREM StreamsAreWhole == Spec => []NothingLost
<1>1. SyncInv => NothingLost
  <2> SUFFICES ASSUME SyncInv, SendsAtOnce, phase = "select"
               PROVE  /\ fwdAudio \o Numbers(audioIn) \o Held(audioHand) = UpTo(nAudio)
                      /\ fwdMocap \o Numbers(mocapIn) \o Held(mocapHand) = UpTo(nMocap)
    BY DEF NothingLost
  <2>1. /\ Stream(fwdAudio, {}, audioIn, audioHand, nAudio)
        /\ Stream(fwdMocap, {}, mocapIn, mocapHand, nMocap)
    BY DEF SyncInv, FlowInv, Flow, RestIsEmpty, Running, InStep
  <2>2. /\ audioIn \in Seq(Items) /\ mocapIn \in Seq(Items)
        /\ audioHand \in Items \union {None} /\ mocapHand \in Items \union {None}
    BY DEF SyncInv, TypeOK
  <2>3. nAudio \in Nat /\ nMocap \in Nat
    <3>1. nAudio \in 0..MaxItems /\ nMocap \in 0..MaxItems
      BY DEF SyncInv, TypeOK
    <3> QED BY <3>1
  <2>4. Len(fwdAudio) \in Nat /\ Len(fwdMocap) \in Nat
    <3> DEFINE S == 1..MaxItems
    <3>1. fwdAudio \in Seq(S) /\ fwdMocap \in Seq(S)
      BY DEF SyncInv, TypeOK
    <3> HIDE DEF S
    <3> QED BY <3>1
  <2> QED BY <2>1, <2>2, <2>3, <2>4, StreamWhole
<1> QED BY <1>1, SynchronizerInvariance, PTL

\* What the end of the loop can cut off: motion capture that waits in its
\* channel, but of audio at most the datagram its listener still holds.
THEOREM TheEndKeepsAudio == Spec => []EndKeepsAudio
<1>1. SyncInv => EndKeepsAudio
  BY DEF SyncInv, FlowInv
<1> QED BY <1>1, SynchronizerInvariance, PTL

\* No packet of the output is empty or combines the streams.
THEOREM StreamsNeverMeet == Spec => []OneItemPerPacket
<1>1. SyncInv => OneItemPerPacket
  BY DEF SyncInv, FlowInv
<1> QED BY <1>1, SynchronizerInvariance, PTL
=============================================================================
