------------------------------- MODULE SsdpPair -------------------------------
(***************************************************************************)
(* The SSDP plugin (ssdp.c, ssdp-xml.c): the capture callback copies each  *)
(* packet and queues it, the process thread splits its text into a bag of  *)
(* lines and dissects it, and the XML thread, started by the first response*)
(* that has a location, goes through the queued locations in the steps of  *)
(* module XmlRetrieval.  A queued location is a pointer into the text.     *)
(***************************************************************************)
EXTENDS XmlRetrieval, SequencesExt

CONSTANT MaxPackets   \* bound on the packets captured

ASSUME MaxPacketsAssumption == MaxPackets \in Nat

\* A packet, its copy, its text and its document go by its arrival number.
Packet == 1 .. MaxPackets

\* What the code tells apart: the first word of the text; for a response
\* whether a LOCATION has a value; texts whose first line is empty or that
\* have a name without the value the code reads; and IPv6.
Kind == {"search", "notify", "response", "located", "other",
         "blank", "valueless", "ipv6"}

VARIABLES
  kind,        \* kinds of the packets captured, in order
  packet_q,    \* GAsyncQueue from the capture to the process thread
  packets,     \* packets whose copy is allocated
  texts,       \* packets whose text, dup in ztl_string_bag_create(), is allocated
  bags,        \* packets whose array of lines is allocated
  procPc,      \* control point of the process thread
  qm,          \* the packet it works on, 0 when none
  xmlThreads,  \* XML threads started; xml_thread # NULL when positive
  crashed

captureVars == <<kind>>
procVars == <<packets, texts, bags, procPc, qm, xmlThreads>>
vars == <<captureVars, packet_q, procVars, xml_q, xmlVars, crashed>>

Init ==
  /\ kind = <<>>
  /\ packet_q = <<>>
  /\ packets = {}
  /\ texts = {}
  /\ bags = {}
  /\ procPc = "pop"
  /\ qm = 0
  /\ xmlThreads = 0
  /\ XmlInit
  /\ crashed = FALSE

-----------------------------------------------------------------------------
(* capture(), called by pcap_loop() on the capture thread                  *)

\* For IPv6 iph is NULL and payload_len reads through it.
Capture ==
  /\ Len(kind) < MaxPackets
  /\ \E k \in Kind :
       /\ kind' = Append(kind, k)
       /\ \/ /\ k # "ipv6"
             /\ packet_q' = Append(packet_q, Len(kind) + 1)
             /\ packets' = packets \cup {Len(kind) + 1}
             /\ UNCHANGED crashed
          \/ /\ k = "ipv6"
             /\ crashed' = TRUE
             /\ UNCHANGED <<packet_q, packets>>
  /\ UNCHANGED <<texts, bags, procPc, qm, xmlThreads, xml_q, xmlVars>>

-----------------------------------------------------------------------------
(* process(), on the process thread                                        *)

PopPacket ==
  /\ procPc = "pop"
  /\ packet_q # <<>>
  /\ qm' = Head(packet_q)
  /\ packet_q' = Tail(packet_q)
  /\ procPc' = "bag"
  /\ UNCHANGED <<captureVars, packets, texts, bags, xmlThreads, xml_q,
                 xmlVars, crashed>>

\* ztl_string_bag_create() duplicates the text and points into the copy.  It
\* reads past a text without an empty line (module StringBag), which may
\* bring the process down; any kind of text may lack one.
CreateBag ==
  /\ procPc = "bag"
  /\ \/ /\ texts' = texts \cup {qm}
        /\ bags' = bags \cup {qm}
        /\ procPc' = "dissect"
        /\ UNCHANGED crashed
     \/ /\ crashed' = TRUE
        /\ UNCHANGED <<texts, bags, procPc>>
  /\ UNCHANGED <<captureVars, packet_q, packets, qm, xmlThreads, xml_q, xmlVars>>

\* ssdp_process() and its subprocs.  Only a response with a location does
\* more than print.
Dissect ==
  /\ procPc = "dissect"
  /\ \/ /\ kind[qm] \in {"blank", "valueless"}
        /\ crashed' = TRUE
        /\ UNCHANGED procPc
     \/ /\ kind[qm] \in {"search", "notify", "response", "other"}
        /\ procPc' = "destroy"
        /\ UNCHANGED crashed
     \/ /\ kind[qm] = "located"
        /\ procPc' = "start"
        /\ UNCHANGED crashed
  /\ UNCHANGED <<captureVars, packet_q, packets, texts, bags, qm, xmlThreads,
                 xml_q, xmlVars>>

\* Fault: the test for a running XML thread is missing.
StartXmlThreadAlways ==
  /\ procPc = "start"
  /\ xmlThreads' = xmlThreads + 1
  /\ procPc' = "push"
  /\ UNCHANGED <<captureVars, packet_q, packets, texts, bags, qm, xml_q,
                 xmlVars, crashed>>

StartXmlThread ==
  /\ procPc = "start"
  /\ xmlThreads' = IF xmlThreads = 0 THEN 1 ELSE xmlThreads
  /\ procPc' = "push"
  /\ UNCHANGED <<captureVars, packet_q, packets, texts, bags, qm, xml_q,
                 xmlVars, crashed>>

\* Queueing that leads to the locations q.
PushLeading(q) ==
  /\ procPc = "push"
  /\ xml_q' = q
  /\ procPc' = "destroy"
  /\ UNCHANGED <<captureVars, packet_q, packets, texts, bags, qm, xmlThreads,
                 xmlVars, crashed>>

\* Fault: the location is queued after its pointer has been reset.
PushLocationNull == PushLeading(Append(xml_q, 0))

PushLocation == PushLeading(Append(xml_q, qm))

\* Fault: the free() of the text, commented out in the code, is back.
DestroyBagFreesText ==
  /\ procPc = "destroy"
  /\ bags' = bags \ {qm}
  /\ texts' = texts \ {qm}
  /\ procPc' = "free"
  /\ UNCHANGED <<captureVars, packet_q, packets, qm, xmlThreads, xml_q,
                 xmlVars, crashed>>

\* ztl_string_bag_destroy() frees the arrays; freeing the text is commented
\* out.
DestroyBag ==
  /\ procPc = "destroy"
  /\ bags' = bags \ {qm}
  /\ procPc' = "free"
  /\ UNCHANGED <<captureVars, packet_q, packets, texts, qm, xmlThreads, xml_q,
                 xmlVars, crashed>>

\* Fault: the copy of the packet is forgotten.
FreePacketLeaks ==
  /\ procPc = "free"
  /\ qm' = 0
  /\ procPc' = "pop"
  /\ UNCHANGED <<captureVars, packet_q, packets, texts, bags, xmlThreads, xml_q,
                 xmlVars, crashed>>

FreePacket ==
  /\ procPc = "free"
  /\ packets' = packets \ {qm}
  /\ qm' = 0
  /\ procPc' = "pop"
  /\ UNCHANGED <<captureVars, packet_q, texts, bags, xmlThreads, xml_q,
                 xmlVars, crashed>>

Process ==
  \/ PopPacket \/ CreateBag \/ Dissect \/ StartXmlThread \/ PushLocation
  \/ DestroyBag \/ FreePacket

-----------------------------------------------------------------------------

\* ssdp_retrieve_xml(), once the thread has been started.
Retrieve ==
  /\ xmlThreads > 0
  /\ RetrieveXml
  /\ UNCHANGED <<captureVars, packet_q, procVars, crashed>>

\* Nothing left to process: every thread waits for a packet.
Idle ==
  /\ crashed \/ (Len(kind) = MaxPackets /\ procPc = "pop" /\ packet_q = <<>>
                 /\ xmlPc = "pop" /\ xml_q = <<>>)
  /\ UNCHANGED vars

Next ==
  \/ ~crashed /\ (Capture \/ Process \/ Retrieve)
  \/ Idle

\* The two loops run whenever their queue has something.  A download is not
\* among the steps that have to end: no timeout is set for it.
Fairness ==
  /\ WF_vars(~crashed /\ Process)
  /\ WF_vars(~crashed /\ ~Downloading /\ Retrieve)

Spec == Init /\ [][Next]_vars /\ Fairness

-----------------------------------------------------------------------------
(* Properties                                                              *)

TypeOK ==
  /\ kind \in Seq(Kind)
  /\ packet_q \in Seq(Packet)
  /\ packets \subseteq Packet
  /\ texts \subseteq Packet
  /\ bags \subseteq Packet
  /\ procPc \in {"pop", "bag", "dissect", "start", "push", "destroy", "free"}
  /\ qm \in Packet \cup {0}
  /\ xmlThreads \in Nat
  /\ xml_q \in Seq(Packet)
  /\ XmlTypeOK
  /\ tried \in Seq(Packet)
  /\ crashed \in BOOLEAN

\* What each thread has in hand.
InProcess == IF qm = 0 THEN {} ELSE {qm}
InRetrieval == IF url = 0 THEN <<>> ELSE <<url>>

\* The copy of a packet lives from its capture to the end of its
\* processing: the queue and the process thread only refer to live copies,
\* each is freed once, and none is left behind.
PacketsOwned ==
  /\ packets = ToSet(packet_q) \cup InProcess
  /\ IsInjective(packet_q \o (IF qm = 0 THEN <<>> ELSE <<qm>>))
  /\ bags = IF procPc \in {"dissect", "start", "push", "destroy"} THEN {qm} ELSE {}

\* The URL the XML thread reads lies in the text of a response the process
\* thread is long done with: that text must still be allocated.
LocationAlive == ToSet(xml_q \o InRetrieval) \subseteq texts

\* Everything the XML thread has got, in the order it deals with it.
Locations == tried \o InRetrieval \o xml_q

\* Packets the process thread has popped, but for the one whose location it
\* may still have to queue.
Dissected ==
  LET popped == Len(kind) - Len(packet_q)
  IN 1 .. IF procPc \in {"bag", "dissect", "start", "push"} THEN popped - 1 ELSE popped

\* Locations are tried once each, in the order in which their responses
\* were captured, by one thread, which has been started before the first is
\* queued: a second one would share the file.
LocationsInOrder ==
  /\ xmlThreads <= 1
  /\ xml_q # <<>> \/ url # 0 => xmlThreads = 1
  /\ \A i, j \in DOMAIN Locations : i < j => Locations[i] < Locations[j]
  /\ ~crashed => ToSet(Locations) = {p \in Dissected : kind[p] = "located"}

\* If every download ends, with a document or without, a response that has
\* been captured with a location is tried sooner or later, unless a packet
\* brings the process down.  Nothing in the code makes a download end: one
\* device that accepts the connection and then says nothing keeps every later
\* location waiting.
LocationTried ==
  []<>(~Downloading) =>
    \A p \in Packet :
      (p \in DOMAIN kind /\ kind[p] = "located") ~> (crashed \/ p \in ToSet(tried))
=============================================================================
