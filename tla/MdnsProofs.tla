------------------------------ MODULE MdnsProofs ------------------------------
(***************************************************************************)
(* Proofs about the mDNS plugin, for any number of slots in libpcap's      *)
(* buffer and of packets: there is one message per packet, what it reads   *)
(* is never older than its packet, and is the packet as long as the        *)
(* process thread is less than the buffer behind.                          *)
(***************************************************************************)
EXTENDS MdnsPair, Integers, SequenceTheorems, TLAPS

\* Types of the queue, of the message in hand and of the messages printed.
Pointer == [at : Slot, for : Packet]

PairTypes ==
  /\ received \in 0 .. MaxPackets
  /\ delivered \in 0 .. received
  /\ slot \in [Slot -> SUBSET Packet]
  /\ packet_q \in Seq(Pointer)
  /\ message \in Seq(Pointer) /\ Len(message) \in {0, 1}
  /\ printed \in Seq([for : Packet, read : SUBSET Packet])

\* Every pointer leads to the slot of its packet, and all packets delivered
\* have been printed, or are in hand or queued.
PointersQueued ==
  /\ Len(printed) + Len(message) + Len(packet_q) = delivered
  /\ \A i \in DOMAIN message : message[i].at = SlotOf(message[i].for)
  /\ \A i \in DOMAIN packet_q : packet_q[i].at = SlotOf(packet_q[i].for)

\* What a slot holds has been received into it, and nothing of it is older
\* than the last packet delivered from it.
SlotsRenewed ==
  /\ \A s \in Slot : \A q \in slot[s] : q <= received /\ SlotOf(q) = s
  /\ \A p \in 1 .. delivered :
       /\ slot[SlotOf(p)] # {}
       /\ \A q \in slot[SlotOf(p)] : p <= q

MdnsInv ==
  /\ PairTypes
  /\ OneMessagePerPacket
  /\ PointersQueued
  /\ SlotsRenewed
  /\ ReadsNoOlderPacket

\* Packets use the slots in turn.
LEMMA SlotOfPacket == \A p \in Nat : SlotOf(p) \in Slot
BY NSlotsAssumption DEF SlotOf, Slot

\* The buffer is empty at first.
LEMMA MdnsInitInv == Init => MdnsInv
BY MaxPacketsAssumption
   DEF Init, MdnsInv, PairTypes, OneMessagePerPacket, PointersQueued, SlotsRenewed,
       ReadsNoOlderPacket

\* What libpcap starts to write is newer than all that has been delivered.
LEMMA ReceiveInv ==
  ASSUME MdnsInv, Receive
  PROVE  MdnsInv'
<1> USE DEF MdnsInv
<1>1. /\ received' = received + 1 /\ received + 1 \in Packet
      /\ UNCHANGED <<delivered, packet_q, message, printed>>
  BY MaxPacketsAssumption DEF Receive, PairTypes, Packet
<1>2. SlotOf(received + 1) \in Slot
  BY <1>1, SlotOfPacket DEF Packet
<1>3. \A s \in Slot : slot'[s] =
        IF s = SlotOf(received + 1) THEN slot[s] \cup {received + 1} ELSE slot[s]
  BY DEF Receive, PairTypes
<1>4. PairTypes'
  BY <1>1, <1>2, MaxPacketsAssumption DEF PairTypes, Receive
<1>5. OneMessagePerPacket' /\ PointersQueued' /\ ReadsNoOlderPacket'
  BY <1>1 DEF OneMessagePerPacket, PointersQueued, ReadsNoOlderPacket
<1>6. SlotsRenewed'
  <2>1. ASSUME NEW s \in Slot, NEW q \in slot'[s]
        PROVE  q <= received' /\ SlotOf(q) = s
    <3>1. CASE q \in slot[s]
      <4>1. q <= received /\ SlotOf(q) = s /\ q \in Packet
        BY <3>1 DEF SlotsRenewed, PairTypes
      <4> QED
        BY <1>1, <4>1 DEF PairTypes, Packet
    <3>2. CASE q \notin slot[s]
      <4>1. s = SlotOf(received + 1) /\ q = received + 1
        BY <1>3, <2>1, <3>2
      <4> QED
        BY <1>1, <4>1 DEF Packet
    <3> QED
      BY <3>1, <3>2
  <2>2. ASSUME NEW p \in 1 .. delivered'
        PROVE  /\ slot'[SlotOf(p)] # {}
               /\ \A q \in slot'[SlotOf(p)] : p <= q
    <3>1. SlotOf(p) \in Slot /\ p \in 1 .. delivered
      BY <1>1, SlotOfPacket DEF PairTypes
    <3>2. p <= received + 1
      BY <3>1 DEF PairTypes
    <3>3. /\ slot[SlotOf(p)] # {}
          /\ \A q \in slot[SlotOf(p)] : p <= q
      BY <3>1 DEF SlotsRenewed
    <3>4. \/ slot'[SlotOf(p)] = slot[SlotOf(p)]
          \/ slot'[SlotOf(p)] = slot[SlotOf(p)] \cup {received + 1}
      BY <1>3, <3>1
    <3> QED
      BY ONLY <3>2, <3>3, <3>4
  <2> QED
    BY <2>1, <2>2 DEF SlotsRenewed
<1> QED
  BY <1>4, <1>5, <1>6

\* The packet delivered is alone in its slot, and its pointer leads there.
LEMMA CaptureInv ==
  ASSUME MdnsInv, Capture
  PROVE  MdnsInv'
<1> USE DEF MdnsInv
<1> DEFINE packet == delivered + 1
           pointer == [at |-> SlotOf(packet), for |-> packet]
<1>1. /\ delivered' = packet /\ packet \in Packet /\ packet <= received
      /\ packet_q' = Append(packet_q, pointer)
      /\ UNCHANGED <<received, message, printed>>
  BY MaxPacketsAssumption DEF Capture, CaptureQueueing, PairTypes, Packet
<1>2. SlotOf(packet) \in Slot
  BY <1>1, SlotOfPacket DEF Packet
<1>3. \A s \in Slot : slot'[s] = IF s = SlotOf(packet) THEN {packet} ELSE slot[s]
  BY DEF Capture, CaptureQueueing, PairTypes
<1>4. pointer \in Pointer /\ packet_q \in Seq(Pointer)
  BY <1>1, <1>2 DEF Pointer, PairTypes
<1>5. /\ packet_q' \in Seq(Pointer) /\ Len(packet_q') = Len(packet_q) + 1
      /\ \A i \in 1 .. Len(packet_q) : packet_q'[i] = packet_q[i]
      /\ packet_q'[Len(packet_q) + 1] = pointer
  BY <1>1, <1>4, AppendProperties
<1>6. PairTypes'
  BY <1>1, <1>2, <1>5, MaxPacketsAssumption DEF PairTypes, Capture, CaptureQueueing
<1>7. OneMessagePerPacket'
  <2>1. ASSUME NEW i \in DOMAIN packet_q'
        PROVE  packet_q'[i].for = Len(printed) + Len(message) + i
    <3>1. /\ Len(printed) \in Nat /\ Len(message) \in Nat /\ Len(packet_q) \in Nat
          /\ DOMAIN packet_q' = 1 .. Len(packet_q) + 1
      BY <1>4, <1>5 DEF PairTypes
    <3>2. CASE i = Len(packet_q) + 1
      BY <1>5, <3>1, <3>2 DEF PointersQueued
    <3>3. CASE i \in 1 .. Len(packet_q)
      BY <1>4, <1>5, <3>3 DEF OneMessagePerPacket
    <3> QED
      BY <3>1, <3>2, <3>3
  <2> QED
    BY <1>1, <2>1 DEF OneMessagePerPacket
<1>8. PointersQueued'
  <2>1. Len(printed') + Len(message') + Len(packet_q') = delivered'
    <3>1. Len(printed) \in Nat /\ Len(message) \in Nat /\ Len(packet_q) \in Nat
      BY <1>4 DEF PairTypes
    <3>2. Len(printed) + Len(message) + Len(packet_q) = delivered
      BY DEF PointersQueued
    <3>3. Len(printed') = Len(printed) /\ Len(message') = Len(message)
      BY <1>1
    <3>4. Len(packet_q') = Len(packet_q) + 1 /\ delivered' = delivered + 1
      BY <1>1, <1>5
    <3> QED
      BY <3>1, <3>2, <3>3, <3>4
  <2>2. \A i \in DOMAIN packet_q' : packet_q'[i].at = SlotOf(packet_q'[i].for)
    BY <1>4, <1>5 DEF PointersQueued
  <2> QED
    BY <1>1, <2>1, <2>2 DEF PointersQueued
<1>9. SlotsRenewed'
  <2>1. ASSUME NEW s \in Slot, NEW q \in slot'[s]
        PROVE  q <= received' /\ SlotOf(q) = s
    BY <1>1, <1>3, <2>1 DEF SlotsRenewed
  <2>2. ASSUME NEW p \in 1 .. delivered'
        PROVE  /\ slot'[SlotOf(p)] # {}
               /\ \A q \in slot'[SlotOf(p)] : p <= q
    <3>1. SlotOf(p) \in Slot /\ p <= packet
      BY <1>1, SlotOfPacket DEF PairTypes
    <3>2. CASE SlotOf(p) = SlotOf(packet)
      BY <1>3, <3>1, <3>2
    <3>3. CASE SlotOf(p) # SlotOf(packet)
      <4>1. p \in 1 .. delivered
        BY <1>1, <3>3 DEF PairTypes
      <4> QED
        BY <1>3, <3>1, <3>3, <4>1 DEF SlotsRenewed
    <3> QED
      BY <3>2, <3>3
  <2> QED
    BY <2>1, <2>2 DEF SlotsRenewed
<1>10. ReadsNoOlderPacket'
  BY <1>1 DEF ReadsNoOlderPacket
<1> QED
  BY <1>6, <1>7, <1>8, <1>9, <1>10

\* The oldest pointer goes from the queue into the hands of process().
LEMMA PopInv ==
  ASSUME MdnsInv, Pop
  PROVE  MdnsInv'
<1> USE DEF MdnsInv
<1>1. /\ packet_q # <<>> /\ packet_q \in Seq(Pointer) /\ message = <<>>
      /\ message' = <<Head(packet_q)>> /\ packet_q' = Tail(packet_q)
      /\ UNCHANGED <<received, slot, delivered, printed>>
  BY DEF Pop, PairTypes
<1>2. /\ Head(packet_q) \in Pointer /\ Head(packet_q) = packet_q[1]
      /\ packet_q' \in Seq(Pointer) /\ Len(packet_q') = Len(packet_q) - 1
      /\ \A i \in 1 .. Len(packet_q') : packet_q'[i] = packet_q[i + 1]
      /\ Len(packet_q) \in Nat \ {0}
  BY <1>1, HeadTailProperties
<1>3. message' \in Seq(Pointer) /\ Len(message') = 1 /\ message'[1] = packet_q[1]
  BY <1>1, <1>2
<1>4. PairTypes'
  BY <1>1, <1>2, <1>3 DEF PairTypes
<1>5. OneMessagePerPacket'
  <2>1. Len(message) = 0 /\ Len(printed) \in Nat
    BY <1>1 DEF PairTypes
  <2>2. message'[1].for = Len(printed) + 1
    BY <1>2, <1>3, <2>1 DEF OneMessagePerPacket
  <2>3. ASSUME NEW i \in DOMAIN packet_q'
        PROVE  packet_q'[i].for = Len(printed) + 1 + i
    <3>1. i \in 1 .. Len(packet_q') /\ i + 1 \in 1 .. Len(packet_q)
      BY <1>2
    <3> QED
      BY <1>1, <1>2, <2>1, <3>1 DEF OneMessagePerPacket
  <2> QED
    BY <1>1, <1>3, <2>1, <2>2, <2>3 DEF OneMessagePerPacket
<1>6. PointersQueued'
  <2>1. Len(printed') + Len(message') + Len(packet_q') = delivered'
    <3>1. Len(message) = 0 /\ Len(printed) \in Nat
      BY <1>1 DEF PairTypes
    <3> QED
      BY <1>1, <1>2, <1>3, <3>1 DEF PointersQueued
  <2>2. \A i \in DOMAIN packet_q' : packet_q'[i].at = SlotOf(packet_q'[i].for)
    BY <1>2 DEF PointersQueued
  <2>3. \A i \in DOMAIN message' : message'[i].at = SlotOf(message'[i].for)
    <3>1. 1 \in DOMAIN packet_q /\ DOMAIN message' = {1}
      BY <1>1, <1>2, <1>3
    <3> QED
      BY <1>3, <3>1 DEF PointersQueued
  <2> QED
    BY <2>1, <2>2, <2>3 DEF PointersQueued
<1>7. SlotsRenewed' /\ ReadsNoOlderPacket'
  BY <1>1 DEF SlotsRenewed, ReadsNoOlderPacket
<1> QED
  BY <1>4, <1>5, <1>6, <1>7

\* The packet of the message in hand is one delivered, so its slot holds it
\* or newer ones.
LEMMA MessageInHand ==
  ASSUME MdnsInv, message # <<>>
  PROVE  /\ message[1].for \in 1 .. delivered
         /\ message[1].for = Len(printed) + 1
         /\ message[1].at = SlotOf(message[1].for)
         /\ Len(message) = 1
<1>1. Len(message) = 1 /\ 1 \in DOMAIN message /\ message[1] \in Pointer
  <2>1. message \in Seq(Pointer) /\ Len(message) \in {0, 1}
    BY DEF MdnsInv, PairTypes
  <2>2. Len(message) \in Nat /\ Len(message) # 0
    BY <2>1
  <2>3. Len(message) = 1
    BY <2>1, <2>2
  <2>4. 1 \in DOMAIN message
    BY <2>1, <2>3
  <2> QED
    BY <2>1, <2>3, <2>4, ElementOfSeq
<1>2. message[1].for = Len(printed) + 1 /\ message[1].at = SlotOf(message[1].for)
  BY <1>1 DEF MdnsInv, OneMessagePerPacket, PointersQueued
<1> QED
  BY <1>1, <1>2 DEF MdnsInv, PairTypes, PointersQueued

\* process() prints what it finds where its pointer leads.
LEMMA PrintInv ==
  ASSUME MdnsInv, PrintMessage
  PROVE  MdnsInv'
<1> USE DEF MdnsInv
<1> DEFINE new == [for |-> message[1].for, read |-> slot[message[1].at]]
<1>1. /\ message # <<>> /\ message' = <<>>
      /\ printed' = Append(printed, new)
      /\ UNCHANGED <<received, slot, delivered, packet_q>>
  BY DEF PrintMessage
<1>2. /\ new.for \in 1 .. delivered /\ new.for = Len(printed) + 1
      /\ new.read = slot[SlotOf(new.for)] /\ Len(message) = 1
  BY <1>1, MessageInHand
<1>3. SlotOf(new.for) \in Slot /\ new.for \in Packet
  <2>1. new.for \in Nat /\ new.for \in 1 .. MaxPackets
    BY <1>2, MaxPacketsAssumption DEF PairTypes
  <2> QED
    BY <2>1, SlotOfPacket DEF Packet
<1>4. new \in [for : Packet, read : SUBSET Packet]
  BY <1>2, <1>3 DEF PairTypes
<1>5. /\ printed' \in Seq([for : Packet, read : SUBSET Packet])
      /\ Len(printed') = Len(printed) + 1
      /\ \A i \in 1 .. Len(printed) : printed'[i] = printed[i]
      /\ printed'[Len(printed) + 1] = new
  BY <1>1, <1>4, AppendProperties DEF PairTypes
<1>6. PairTypes'
  BY <1>1, <1>5 DEF PairTypes
<1>7. OneMessagePerPacket'
  <2>1. \A i \in DOMAIN printed' : printed'[i].for = i
    <3>1. Len(printed) \in Nat /\ DOMAIN printed = 1 .. Len(printed)
      BY LenProperties DEF PairTypes
    <3>2. DOMAIN printed' = 1 .. Len(printed) + 1
      BY <1>5, LenProperties
    <3>3. \A i \in 1 .. Len(printed) + 1 : i \in 1 .. Len(printed) \/ i = Len(printed) + 1
      BY <3>1
    <3>4. \A i \in 1 .. Len(printed) : printed'[i].for = i
      BY <1>5, <3>1 DEF OneMessagePerPacket
    <3>5. printed'[Len(printed) + 1].for = Len(printed) + 1
      BY <1>2, <1>5
    <3> QED
      BY <3>2, <3>3, <3>4, <3>5
  <2>2. Len(printed') + Len(message') = Len(printed) + Len(message)
    BY <1>1, <1>2, <1>5 DEF PairTypes
  <2> QED
    BY <1>1, <2>1, <2>2 DEF OneMessagePerPacket
<1>8. PointersQueued'
  BY <1>1, <1>2, <1>5 DEF PointersQueued, PairTypes
<1>9. SlotsRenewed'
  BY <1>1 DEF SlotsRenewed
<1>10. ReadsNoOlderPacket'
  <2>1. new.read # {} /\ \A p \in new.read : p >= new.for /\ SlotOf(p) = SlotOf(new.for)
    BY <1>2, <1>3 DEF SlotsRenewed, PairTypes, Packet
  <2> QED
    BY <1>5, <2>1 DEF ReadsNoOlderPacket, PairTypes
<1> QED
  BY <1>6, <1>7, <1>8, <1>9, <1>10

\* The invariant is one of every step.
LEMMA MdnsNextInv == MdnsInv /\ [Next]_vars => MdnsInv'
<1> SUFFICES ASSUME MdnsInv, [Next]_vars
             PROVE  MdnsInv'
  OBVIOUS
<1>1. CASE UNCHANGED vars
  BY <1>1 DEF vars, MdnsInv, PairTypes, OneMessagePerPacket, PointersQueued,
              SlotsRenewed, ReadsNoOlderPacket
<1> QED
  BY <1>1, ReceiveInv, CaptureInv, PopInv, PrintInv DEF Next, Idle

\* The buffer, the queue and the messages agree in every state.
THEOREM MdnsInvariant == Spec => []MdnsInv
BY MdnsInitInv, MdnsNextInv, PTL DEF Spec

\* One message is printed per packet, in order: none is lost between the
\* threads, none printed twice.
THEOREM MessagesMatchPackets == Spec => []OneMessagePerPacket
<1>1. MdnsInv => OneMessagePerPacket
  BY DEF MdnsInv
<1> QED
  BY <1>1, MdnsInvariant, PTL

\* Whatever process() reads through its pointer is its packet or a later one
\* of the same slot.
THEOREM ReadsAreNotOlder == Spec => []ReadsNoOlderPacket
<1>1. MdnsInv => ReadsNoOlderPacket
  BY DEF MdnsInv
<1> QED
  BY <1>1, MdnsInvariant, PTL

-----------------------------------------------------------------------------
(* When the packet printed is the one that was queued                      *)

\* Two packets of a slot that are less than the buffer apart are the same.
LEMMA SameSlot ==
  ASSUME NEW p \in Nat, NEW q \in Nat,
         p <= q, q < p + NSlots, SlotOf(q) = SlotOf(p)
  PROVE  q = p
<1>1. /\ p = NSlots * (p \div NSlots) + (p % NSlots)
      /\ q = NSlots * (q \div NSlots) + (q % NSlots)
      /\ p \div NSlots \in Int /\ q \div NSlots \in Int
  BY NSlotsAssumption
<1> DEFINE rounds == q \div NSlots - p \div NSlots
<1>2. rounds \in Int /\ q - p = NSlots * rounds
  BY <1>1, NSlotsAssumption DEF SlotOf
<1>3. rounds < 1
  BY <1>2, NSlotsAssumption
<1> QED
  BY <1>2, <1>3, NSlotsAssumption

\* As long as libpcap has not gone round its buffer since the packet came, the
\* message that is printed is that packet and nothing else.
PrintsOwnUnlessLapped ==
  [][\A i \in DOMAIN printed' \ DOMAIN printed :
       received < printed'[i].for + NSlots =>
         printed'[i].read = {printed'[i].for}]_vars

\* What the stale pointers need is a process thread that is a whole buffer
\* behind; a shorter queue does no harm.
THEOREM StaleOnlyWhenLapped == Spec => PrintsOwnUnlessLapped
<1> DEFINE OwnPacket ==
      \A i \in DOMAIN printed' \ DOMAIN printed :
        received < printed'[i].for + NSlots =>
          printed'[i].read = {printed'[i].for}
<1>1. MdnsInv /\ [Next]_vars => [OwnPacket]_vars
  <2> SUFFICES ASSUME MdnsInv, [Next]_vars
               PROVE  OwnPacket
    OBVIOUS
  <2>1. CASE UNCHANGED printed
    BY <2>1
  <2>2. CASE PrintMessage
    <3> DEFINE new == [for |-> message[1].for, read |-> slot[message[1].at]]
    <3>1. message # <<>> /\ printed' = Append(printed, new)
      BY <2>2 DEF PrintMessage
    <3>2. /\ new.for \in 1 .. delivered
          /\ new.read = slot[SlotOf(new.for)]
      BY <3>1, MessageInHand
    <3>3. SlotOf(new.for) \in Slot /\ new.for \in Nat
      BY <3>2, SlotOfPacket
    <3>4. /\ new.read # {} /\ new.read \subseteq Nat
          /\ \A q \in new.read : new.for <= q /\ q <= received /\ SlotOf(q) = SlotOf(new.for)
      BY <3>2, <3>3 DEF MdnsInv, SlotsRenewed, PairTypes, Packet
    <3>5. ASSUME received < new.for + NSlots
          PROVE  new.read = {new.for}
      <4>1. ASSUME NEW q \in new.read
            PROVE  q = new.for
        <5>1. q \in Nat /\ q < new.for + NSlots
          BY <3>3, <3>4, <3>5, NSlotsAssumption DEF MdnsInv, PairTypes
        <5> QED
          BY <3>3, <3>4, <5>1, SameSlot
      <4> QED
        BY <3>4, <4>1
    <3>6. \A i \in DOMAIN printed' \ DOMAIN printed : printed'[i] = new
      BY <3>1 DEF MdnsInv, PairTypes
    <3> QED
      BY <3>5, <3>6
  <2> QED
    BY <2>1, <2>2 DEF Next, Receive, Capture, CaptureQueueing, Pop, Idle, vars
<1> QED
  BY <1>1, MdnsInvariant, PTL DEF Spec, PrintsOwnUnlessLapped
=============================================================================
