------------------------------- MODULE MdnsPair -------------------------------
(***************************************************************************)
(* The mDNS plugin (mdns.c): the capture callback queues a pointer into the*)
(* buffer libpcap lends it for the length of the call, and the process     *)
(* thread prints what it finds there, which may by then be another packet. *)
(***************************************************************************)
EXTENDS Naturals, Sequences

CONSTANTS
  NSlots,       \* slots of libpcap's buffer, used in turn
  MaxPackets    \* bound on the packets captured

ASSUME NSlotsAssumption == NSlots \in Nat \ {0}
ASSUME MaxPacketsAssumption == MaxPackets \in Nat

Packet == 1 .. MaxPackets
Slot == 0 .. (NSlots - 1)
SlotOf(p) == p % NSlots

VARIABLES
  received,   \* packets libpcap has begun to put in its buffer
  slot,       \* the packets each slot holds bytes of
  delivered,  \* packets libpcap has passed to capture()
  packet_q,   \* pointers to a payload: the slot it lies in, and the packet
              \* it belonged to when it was queued (history)
  message,    \* the pointer the process thread has popped, or the empty sequence
  printed     \* per message printed: the packet it was queued for, and those
              \* whose bytes were read (history)

vars == <<received, slot, delivered, packet_q, message, printed>>

Init ==
  /\ received = 0
  /\ slot = [s \in Slot |-> {}]
  /\ delivered = 0
  /\ packet_q = <<>>
  /\ message = <<>>
  /\ printed = <<>>

\* libpcap starts to write the next packet into its slot; it does so only
\* when the callback for the packet that was there has returned.
Receive ==
  /\ received < MaxPackets
  /\ received < delivered + NSlots
  /\ received' = received + 1
  /\ slot' = [slot EXCEPT ![SlotOf(received + 1)] = @ \cup {received + 1}]
  /\ UNCHANGED <<delivered, packet_q, message, printed>>

\* A callback that queues the given pointer.
CaptureQueueing(pointer) ==
  /\ delivered < received
  /\ delivered' = delivered + 1
  /\ slot' = [slot EXCEPT ![SlotOf(delivered + 1)] = {delivered + 1}]
  /\ packet_q' = Append(packet_q, pointer)
  /\ UNCHANGED <<received, message, printed>>

\* Fault: the address of the payload is that of the previous call.
CaptureStaleAddress ==
  CaptureQueueing([at |-> SlotOf(delivered), for |-> delivered + 1])

\* The packet is complete, pcap_loop() calls capture(), which queues the
\* address of the payload.
Capture ==
  CaptureQueueing([at |-> SlotOf(delivered + 1), for |-> delivered + 1])

\* Fault: the pointer stays in the queue.
PopPeeks ==
  /\ message = <<>>
  /\ packet_q # <<>>
  /\ message' = <<Head(packet_q)>>
  /\ UNCHANGED <<received, slot, delivered, packet_q, printed>>

\* process() gets a pointer before its timeout.
Pop ==
  /\ message = <<>>
  /\ packet_q # <<>>
  /\ message' = <<Head(packet_q)>>
  /\ packet_q' = Tail(packet_q)
  /\ UNCHANGED <<received, slot, delivered, printed>>

\* Fault: the message goes back to the queue.
PrintMessageRequeues ==
  /\ message # <<>>
  /\ packet_q' = message \o packet_q
  /\ message' = <<>>
  /\ UNCHANGED <<received, slot, delivered, printed>>

\* ztprint("MDNS GOT A MESSAGE!!\n%s\n", message).
PrintMessage ==
  /\ message # <<>>
  /\ printed' = Append(printed,
                  [for |-> message[1].for, read |-> slot[message[1].at]])
  /\ message' = <<>>
  /\ UNCHANGED <<received, slot, delivered, packet_q>>

Idle ==
  /\ delivered = MaxPackets /\ packet_q = <<>> /\ message = <<>>
  /\ UNCHANGED vars

Next == Receive \/ Capture \/ Pop \/ PrintMessage \/ Idle

Spec == Init /\ [][Next]_vars /\ WF_vars(Pop \/ PrintMessage)

-----------------------------------------------------------------------------
(* Properties                                                              *)

\* One message is printed per packet captured, in order.
OneMessagePerPacket ==
  /\ \A i \in DOMAIN printed : printed[i].for = i
  /\ \A i \in DOMAIN message : message[i].for = Len(printed) + 1
  /\ \A i \in DOMAIN packet_q :
       packet_q[i].for = Len(printed) + Len(message) + i

\* The bytes printed are those of the packet the message was queued for or
\* of a later one in the same slot, never of an earlier packet and never of
\* nothing at all.
ReadsNoOlderPacket ==
  \A i \in DOMAIN printed :
    /\ printed[i].read # {}
    /\ \A p \in printed[i].read :
         p >= printed[i].for /\ SlotOf(p) = SlotOf(printed[i].for)

\* Every packet captured leads to a message.
MessagePrinted ==
  \A p \in Packet : (delivered >= p) ~> (Len(printed) >= p)

\* zt-plugin.h:23 says of the queue "that this thread will push packets of
\* interest onto, for the processing thread to read": what is printed is the
\* packet that was pushed.
PrintsQueuedPacket ==
  \A i \in DOMAIN printed : printed[i].read = {printed[i].for}
=============================================================================
