------------------------------ MODULE SsdpProofs ------------------------------
(***************************************************************************)
(* Proofs about the SSDP plugin, for any number of packets and of nodes:   *)
(* what the threads own, and what the retrieval of a description leaves    *)
(* behind and parses.                                                      *)
(***************************************************************************)
EXTENDS SsdpPair, SequenceTheorems, TLAPS

\* What the XML thread has in its hands at each of its control points.
HeldAt ==
  /\ xmlPc \in {"pop", "open", "parse"} => held = {}
  /\ xmlPc \in {"init", "close"} => held = {"outfile"}
  /\ xmlPc = "perform" => held \in {{"outfile"}, {"outfile", "curl"}}
  /\ xmlPc = "context" => held = {"doc"}
  /\ xmlPc \in {"duplicate", "evaluate"} => held = {"doc", "context"}
  /\ xmlPc = "register" => held = {"doc", "context", "list"}
  /\ xmlPc \in {"result", "nodes"} => held = {"doc", "context", "object"}

\* Where a document is parsed, whose it is, and whose is on disk.
DocumentAt ==
  /\ nodes # 0 => xmlPc = "nodes"
  /\ url = 0 <=> xmlPc = "pop"
  /\ xmlPc \notin {"pop", "open"} => disk.of = url
  /\ xmlPc \in {"pop", "open", "init", "perform", "close", "parse"} => doc = 0
  /\ doc # 0 => doc = url /\ disk.extent = "all"

XmlInv == XmlTypeOK /\ HeldAt /\ DocumentAt

\* The invariant of the retrieval says what is to be shown of it.
LEMMA XmlInvImplies ==
  ASSUME XmlInv
  PROVE  NothingLeftBehind /\ OwnDescription
<1>1. NothingLeftBehind
  BY DEF XmlInv, XmlTypeOK, HeldAt, DocumentAt, NothingLeftBehind
<1>2. xmlPc \in {"parse", "context"} => held \cap {"outfile", "curl"} = {}
  BY DEF XmlInv, HeldAt
<1>3. doc # 0 => doc = url /\ disk = [of |-> url, extent |-> "all"]
  BY DEF XmlInv, XmlTypeOK, DocumentAt
<1>4. xmlPc = "parse" => disk.of = url
  BY DEF XmlInv, DocumentAt
<1> QED
  BY <1>1, <1>2, <1>3, <1>4 DEF OwnDescription

\* The thread starts with nothing.
LEMMA XmlInitInv == XmlInit => XmlInv
BY MaxNodesAssumption DEF XmlInit, XmlInv, XmlTypeOK, HeldAt, DocumentAt, Extent

\* Every step of the retrieval keeps its invariant, whichever call fails.
LEMMA XmlStepInv ==
  ASSUME XmlInv, xml_q \in Seq(Nat \ {0}), RetrieveXml
  PROVE  XmlInv'
<1> USE DEF XmlInv, XmlTypeOK, HeldAt, DocumentAt, XmlGoto, NextLocation, workVars
<1>1. CASE PopLocation
  <2>1. Head(xml_q) \in Nat \ {0}
    BY <1>1 DEF PopLocation
  <2> QED
    BY <1>1, <2>1 DEF PopLocation
<1>2. CASE OpenFile
  <2>1. UNCHANGED <<doc, nodes>> /\ buffered' = "nothing"
    BY <1>2 DEF OpenFile
  <2>2. CASE NextLocation /\ UNCHANGED <<held, disk>>
    BY <1>2, <2>1, <2>2 DEF OpenFile, Extent
  <2>3. CASE /\ held' = held \cup {"outfile"}
             /\ disk' = [of |-> url, extent |-> "nothing"]
             /\ XmlGoto("init")
    <3>1. disk' \in [of : Nat, extent : Extent] /\ disk'.of = url
      BY <2>3 DEF Extent
    <3>2. held' = {"outfile"}
      BY <1>2, <2>3 DEF OpenFile
    <3> QED
      BY <1>2, <2>1, <2>3, <3>1, <3>2 DEF OpenFile, Resource, Extent
  <2> QED
    BY <1>2, <2>2, <2>3 DEF OpenFile
<1>3. CASE InitCurl
  BY <1>3 DEF InitCurl, Resource
<1>4. CASE Perform
  BY <1>4 DEF Perform, Extent
<1>5. CASE CloseFile
  BY <1>5 DEF CloseFile, Extent
<1>6. CASE ParseFile
  <2>1. UNCHANGED <<buffered, disk, nodes>> /\ xmlPc = "parse" /\ held = {}
    BY <1>6 DEF ParseFile
  <2>2. CASE NextLocation /\ UNCHANGED <<doc, held>>
    BY <2>1, <2>2
  <2>3. CASE /\ disk.extent = "all"
             /\ doc' = disk.of
             /\ held' = held \cup {"doc"}
             /\ XmlGoto("context")
    <3>1. doc' = url /\ held' = {"doc"}
      BY <2>1, <2>3
    <3> QED
      BY <2>1, <2>3, <3>1 DEF Resource
  <2> QED
    BY <1>6, <2>2, <2>3 DEF ParseFile
<1>7. CASE NewContext
  BY <1>7 DEF NewContext, Take, Resource
<1>8. CASE DupNamespaces
  BY <1>8 DEF DupNamespaces, Take, Resource
<1>9. CASE RegisterNamespaces
  BY <1>9 DEF RegisterNamespaces
<1>10. CASE Evaluate
  BY <1>10 DEF Evaluate, Take, Resource
<1>11. CASE PrintHeading
  BY <1>11 DEF PrintHeading
<1>12. CASE PrintNode
  BY <1>12, MaxNodesAssumption DEF PrintNode
<1>13. CASE Cleanup
  BY <1>13 DEF Cleanup
<1> QED
  BY <1>1, <1>2, <1>3, <1>4, <1>5, <1>6, <1>7, <1>8, <1>9, <1>10, <1>11,
     <1>12, <1>13 DEF RetrieveXml

\* Nobody else touches what the XML thread works with, its queue excepted.
LEMMA XmlKept ==
  ASSUME XmlInv, UNCHANGED xmlVars
  PROVE  XmlInv'
BY DEF XmlInv, XmlTypeOK, HeldAt, DocumentAt, xmlVars, workVars

-----------------------------------------------------------------------------
(* The capture and the process thread                                      *)

\* Types of what the queues and the threads hold.
PairTypes ==
  /\ kind \in Seq(Kind)
  /\ Len(kind) <= MaxPackets
  /\ packet_q \in Seq(Packet)
  /\ packets \subseteq Packet
  /\ texts \subseteq Packet
  /\ bags \subseteq Packet
  /\ procPc \in {"pop", "bag", "dissect", "start", "push", "destroy", "free"}
  /\ qm \in Packet \cup {0}
  /\ xmlThreads \in Nat
  /\ xml_q \in Seq(Packet)
  /\ url \in Packet \cup {0}
  /\ tried \in Seq(Packet)
  /\ crashed \in BOOLEAN

\* Queued packets have arrived, are different from each other and from the
\* one in process; copies exist for just these.
PacketsQueued ==
  /\ \A i \in 1 .. Len(packet_q) : packet_q[i] <= Len(kind) /\ packet_q[i] # qm
  /\ \A i, j \in 1 .. Len(packet_q) : packet_q[i] = packet_q[j] => i = j
  /\ packets = {packet_q[i] : i \in 1 .. Len(packet_q)} \cup InProcess

\* What the process thread has made of its packet.
ProcessAt ==
  /\ qm = 0 <=> procPc = "pop"
  /\ qm <= Len(kind)
  /\ bags = IF procPc \in {"dissect", "start", "push", "destroy"} THEN {qm} ELSE {}
  /\ procPc \in {"dissect", "start", "push", "destroy", "free"} => qm \in texts

\* Locations that wait or are retrieved lie in texts that are there.
LocationsKept ==
  /\ \A i \in 1 .. Len(xml_q) : xml_q[i] \in texts
  /\ url # 0 => url \in texts

PairInv == XmlInv /\ PairTypes /\ PacketsQueued /\ ProcessAt /\ LocationsKept

\* The invariant says of copies and bags what is to be shown.
LEMMA PairInvOwns ==
  ASSUME PairInv
  PROVE  PacketsOwned
<1> DEFINE inHand == IF qm = 0 THEN <<>> ELSE <<qm>>
<1> USE DEF PairInv, PairTypes, PacketsQueued, ProcessAt
<1>1. ToSet(packet_q) = {packet_q[i] : i \in 1 .. Len(packet_q)}
  BY DEF ToSet
<1>2. IsInjective(packet_q \o inHand)
  <2>1. CASE qm = 0
    <3>1. packet_q \o inHand = packet_q
      BY <2>1
    <3> QED
      BY <3>1 DEF IsInjective
  <2>2. CASE qm # 0
    <3> DEFINE all == Append(packet_q, qm)
    <3>1. packet_q \o inHand = all
      BY <2>2
    <3>2. DOMAIN all = 1 .. (Len(packet_q) + 1)
      OBVIOUS
    <3>3. \A i \in 1 .. Len(packet_q) : all[i] = packet_q[i]
      OBVIOUS
    <3>4. all[Len(packet_q) + 1] = qm
      OBVIOUS
    <3>5. ASSUME NEW i \in DOMAIN all, NEW j \in DOMAIN all, all[i] = all[j]
          PROVE  i = j
      <4>1. CASE i \in 1 .. Len(packet_q) /\ j \in 1 .. Len(packet_q)
        BY <3>3, <3>5, <4>1
      <4>2. CASE i = Len(packet_q) + 1 /\ j \in 1 .. Len(packet_q)
        BY <3>3, <3>4, <3>5, <4>2
      <4>3. CASE i \in 1 .. Len(packet_q) /\ j = Len(packet_q) + 1
        BY <3>3, <3>4, <3>5, <4>3
      <4> QED
        BY <3>2, <4>1, <4>2, <4>3
    <3> HIDE DEF all
    <3>6. IsInjective(all)
      BY <3>5 DEF IsInjective
    <3> QED
      BY <3>1, <3>6
  <2> QED
    BY <2>1, <2>2
<1> QED
  BY <1>1, <1>2 DEF PacketsOwned

\* The invariant says of locations what is to be shown.
LEMMA PairInvKeeps ==
  ASSUME PairInv
  PROVE  LocationAlive
<1> USE DEF PairInv, PairTypes, LocationsKept
<1> SUFFICES ASSUME NEW k \in DOMAIN (xml_q \o InRetrieval)
             PROVE  (xml_q \o InRetrieval)[k] \in texts
  BY DEF LocationAlive, ToSet
<1>1. CASE url = 0
  <2>1. xml_q \o InRetrieval = xml_q
    BY <1>1 DEF InRetrieval
  <2> QED
    BY <2>1
<1>2. CASE url # 0
  <2>1. xml_q \o InRetrieval = Append(xml_q, url)
    BY <1>2 DEF InRetrieval
  <2> QED
    BY <1>2, <2>1
<1> QED
  BY <1>1, <1>2

\* Both threads start idle, with empty queues.
LEMMA PairInitInv == Init => PairInv
<1> SUFFICES ASSUME Init
             PROVE  PairInv
  OBVIOUS
<1>1. XmlInv
  BY XmlInitInv DEF Init
<1>2. PairTypes
  <2>1. /\ kind \in Seq(Kind) /\ packet_q \in Seq(Packet)
        /\ xml_q \in Seq(Packet) /\ tried \in Seq(Packet)
    BY DEF Init, XmlInit
  <2>2. Len(kind) <= MaxPackets
    BY MaxPacketsAssumption DEF Init
  <2> QED
    BY <2>1, <2>2 DEF Init, XmlInit, PairTypes
<1>3. PacketsQueued
  BY DEF Init, PacketsQueued, InProcess
<1>4. ProcessAt
  BY DEF Init, ProcessAt
<1>5. LocationsKept
  BY DEF Init, XmlInit, LocationsKept
<1> QED
  BY <1>1, <1>2, <1>3, <1>4, <1>5 DEF PairInv

\* Steps that leave the queue of packets and what belongs to it alone.
LEMMA QueueKept ==
  ASSUME PacketsQueued, UNCHANGED <<kind, packet_q, packets, qm>>
  PROVE  PacketsQueued'
BY DEF PacketsQueued, InProcess

\* Steps that leave the locations alone and free no text.
LEMMA TextsKept ==
  ASSUME LocationsKept, UNCHANGED <<xml_q, url>>, texts \subseteq texts'
  PROVE  LocationsKept'
BY DEF LocationsKept

\* capture() queues a packet no other can be mistaken for.
LEMMA CaptureInv ==
  ASSUME PairInv, Capture
  PROVE  PairInv'
<1> USE DEF PairInv
<1> DEFINE new == Len(kind) + 1
<1>1. /\ Len(kind) < MaxPackets
      /\ UNCHANGED <<texts, bags, procPc, qm, xmlThreads, xml_q, xmlVars>>
  BY DEF Capture
<1>2. PICK k \in Kind :
        /\ kind' = Append(kind, k)
        /\ \/ /\ packet_q' = Append(packet_q, new)
              /\ packets' = packets \cup {new}
              /\ UNCHANGED crashed
           \/ /\ crashed' = TRUE
              /\ UNCHANGED <<packet_q, packets>>
  BY DEF Capture
<1>3. /\ kind' \in Seq(Kind) /\ Len(kind') = new
      /\ new \in Packet /\ new <= MaxPackets
  BY <1>1, <1>2, MaxPacketsAssumption DEF PairTypes, Packet
<1>4. packet_q' \in Seq(Packet) /\ packets' \subseteq Packet
  <2>1. packet_q \in Seq(Packet) /\ packets \subseteq Packet
    BY DEF PairTypes
  <2>2. Append(packet_q, new) \in Seq(Packet) /\ packets \cup {new} \subseteq Packet
    BY <1>3, <2>1, AppendProperties
  <2> QED
    BY <1>2, <2>1, <2>2
<1>5. Len(kind) \in Nat /\ new = Len(kind) + 1 /\ Len(packet_q) \in Nat
  BY DEF PairTypes
<1>6. ASSUME NEW i \in 1 .. Len(packet_q)
      PROVE  packet_q[i] \in Nat /\ packet_q[i] <= Len(kind)
  <2>1. packet_q[i] \in Packet
    BY DEF PairTypes
  <2> QED
    BY <2>1, MaxPacketsAssumption DEF Packet, PacketsQueued
<1>7. XmlInv'
  BY <1>1, XmlKept
<1>8. PairTypes'
  BY <1>1, <1>2, <1>3, <1>4 DEF PairTypes, xmlVars
<1>9. ProcessAt'
  BY <1>1, <1>3, MaxPacketsAssumption DEF PairTypes, ProcessAt, Packet
<1>10. LocationsKept'
  BY <1>1, TextsKept DEF xmlVars
<1>11. PacketsQueued'
  <2>1. CASE UNCHANGED <<packet_q, packets>>
    <3> HIDE DEF new
    <3>1. \A i \in 1 .. Len(packet_q) : packet_q[i] <= new
      BY <1>5, <1>6
    <3> QED
      BY <1>1, <1>3, <2>1, <3>1 DEF PacketsQueued, InProcess
  <2>2. CASE packet_q' = Append(packet_q, new) /\ packets' = packets \cup {new}
    <3> DEFINE q == Append(packet_q, new)
    <3>1. /\ Len(q) = Len(packet_q) + 1 /\ q[Len(packet_q) + 1] = new
          /\ \A i \in 1 .. Len(packet_q) : q[i] = packet_q[i]
          /\ \A i \in 1 .. Len(q) : i \in 1 .. Len(packet_q) \/ i = Len(packet_q) + 1
      BY DEF PairTypes
    <3>3. new # qm /\ qm \in Nat
      BY <1>5, MaxPacketsAssumption DEF PairTypes, ProcessAt, Packet
    <3> HIDE DEF q, new
    <3>2. \A i \in 1 .. Len(packet_q) : packet_q[i] \in Nat /\ packet_q[i] < new
      BY <1>5, <1>6
    <3>4. \A i \in 1 .. Len(q) : q[i] <= new /\ q[i] # qm
      BY <3>1, <3>2, <3>3, <1>3 DEF PacketsQueued, Packet
    <3>5. \A i, j \in 1 .. Len(q) : q[i] = q[j] => i = j
      BY <3>1, <3>2, <1>3 DEF PacketsQueued, Packet
    <3>6. {q[i] : i \in 1 .. Len(q)} = {packet_q[i] : i \in 1 .. Len(packet_q)} \cup {new}
      <4>1. Len(packet_q) + 1 \in 1 .. Len(q)
        BY <1>5, <3>1
      <4>2. \A i \in 1 .. Len(packet_q) : i \in 1 .. Len(q)
        BY <1>5, <3>1
      <4> QED
        BY <3>1, <4>1, <4>2, Zenon
    <3>7. packet_q' = q
      BY <2>2 DEF q
    <3> QED
      BY <1>1, <1>3, <2>2, <3>4, <3>5, <3>6, <3>7 DEF PacketsQueued, InProcess
  <2> QED
    BY <1>2, <2>1, <2>2
<1> QED
  BY <1>7, <1>8, <1>9, <1>10, <1>11

\* process() takes the head of the queue into its hands.
LEMMA PopPacketInv ==
  ASSUME PairInv, PopPacket
  PROVE  PairInv'
<1> USE DEF PairInv
<1>1. /\ procPc = "pop" /\ packet_q # <<>>
      /\ qm' = packet_q[1] /\ packet_q' = Tail(packet_q) /\ procPc' = "bag"
      /\ UNCHANGED <<kind, packets, texts, bags, xmlThreads, xml_q, xmlVars, crashed>>
  BY DEF PopPacket, captureVars
<1>2. /\ packet_q \in Seq(Packet) /\ Len(packet_q) \in Nat \ {0}
      /\ Tail(packet_q) \in Seq(Packet) /\ Len(Tail(packet_q)) = Len(packet_q) - 1
      /\ \A i \in 1 .. Len(Tail(packet_q)) : Tail(packet_q)[i] = packet_q[i + 1]
  BY <1>1 DEF PairTypes
<1>3. packet_q[1] \in Packet /\ packet_q[1] # 0
  BY <1>2, MaxPacketsAssumption DEF Packet
<1>4. qm = 0 /\ bags = {}
  BY <1>1 DEF ProcessAt
<1>5. XmlInv'
  BY <1>1, XmlKept
<1>6. PairTypes'
  BY <1>1, <1>2, <1>3 DEF PairTypes, xmlVars
<1>7. ProcessAt'
  BY <1>1, <1>2, <1>3, <1>4 DEF ProcessAt, PacketsQueued
<1>8. LocationsKept'
  BY <1>1, TextsKept DEF xmlVars
<1>9. PacketsQueued'
  <2> DEFINE q == Tail(packet_q)
  <2>1. /\ Len(q) = Len(packet_q) - 1
        /\ \A i \in 1 .. Len(q) : q[i] = packet_q[i + 1] /\ i + 1 \in 1 .. Len(packet_q)
        /\ \A i \in 1 .. Len(packet_q) : i = 1 \/ (i - 1 \in 1 .. Len(q) /\ q[i - 1] = packet_q[i])
        /\ 1 \in 1 .. Len(packet_q)
    BY <1>2
  <2> HIDE DEF q
  <2>2. \A i, j \in 1 .. Len(q) : q[i] = q[j] => i = j
    <3> SUFFICES ASSUME NEW i \in 1 .. Len(q), NEW j \in 1 .. Len(q), q[i] = q[j]
                 PROVE  i = j
      OBVIOUS
    <3>1. i + 1 = j + 1
      BY <2>1 DEF PacketsQueued
    <3> QED
      BY <3>1
  <2>3. \A i \in 1 .. Len(q) : q[i] <= Len(kind) /\ q[i] # packet_q[1]
    <3> SUFFICES ASSUME NEW i \in 1 .. Len(q)
                 PROVE  q[i] <= Len(kind) /\ q[i] # packet_q[1]
      OBVIOUS
    <3>1. i + 1 # 1
      OBVIOUS
    <3> QED
      BY <2>1, <3>1 DEF PacketsQueued
  <2>4. {packet_q[i] : i \in 1 .. Len(packet_q)} = {q[i] : i \in 1 .. Len(q)} \cup {packet_q[1]}
    <3>1. \A i \in 1 .. Len(packet_q) :
            packet_q[i] \in {q[j] : j \in 1 .. Len(q)} \cup {packet_q[1]}
      BY <2>1
    <3>2. \A i \in 1 .. Len(q) : q[i] \in {packet_q[j] : j \in 1 .. Len(packet_q)}
      BY <2>1
    <3>3. packet_q[1] \in {packet_q[j] : j \in 1 .. Len(packet_q)}
      BY <2>1
    <3> DEFINE old == {packet_q[i] : i \in 1 .. Len(packet_q)}
               rest == {q[i] : i \in 1 .. Len(q)}
    <3>4. old \subseteq rest \cup {packet_q[1]}
      BY <3>1, Zenon
    <3>5. rest \cup {packet_q[1]} \subseteq old
      BY <3>2, <3>3, Zenon
    <3> QED
      BY <3>4, <3>5, Zenon
  <2>5. packets' = {q[i] : i \in 1 .. Len(q)} \cup {packet_q[1]}
    BY <1>1, <1>4, <2>4 DEF PacketsQueued, InProcess
  <2>6. packet_q' = q
    BY <1>1 DEF q
  <2> QED
    <3>1. InProcess' = {packet_q[1]}
      BY <1>1, <1>3 DEF InProcess
    <3>2. kind' = kind /\ qm' = packet_q[1]
      BY <1>1
    <3> QED
      BY <2>2, <2>3, <2>5, <2>6, <3>1, <3>2 DEF PacketsQueued
<1> QED
  BY <1>5, <1>6, <1>7, <1>8, <1>9

\* Every step of the process thread keeps the invariant.
LEMMA ProcessInv ==
  ASSUME PairInv, Process
  PROVE  PairInv'
<1> USE DEF PairInv, captureVars
<1>1. CASE PopPacket
  BY <1>1, PopPacketInv
<1>2. ASSUME CreateBag \/ Dissect \/ StartXmlThread \/ PushLocation \/ DestroyBag
      PROVE  PairInv'
  <2>1. /\ UNCHANGED <<kind, packet_q, packets, qm, xmlVars>>
        /\ procPc # "pop" /\ procPc' # "pop"
    BY <1>2 DEF CreateBag, Dissect, StartXmlThread, PushLocation, PushLeading,
                DestroyBag, PairTypes
  <2>2. qm \in Packet /\ qm # 0
    BY <2>1 DEF PairTypes, ProcessAt
  <2>3. XmlInv'
    BY <2>1, XmlKept
  <2>4. PacketsQueued'
    BY <2>1, QueueKept
  <2>5. PairTypes' /\ ProcessAt' /\ LocationsKept'
    <3> USE DEF xmlVars
    <3>1. CASE CreateBag
      BY <2>1, <2>2, <3>1 DEF CreateBag, PairTypes, ProcessAt, LocationsKept
    <3>2. CASE Dissect
      BY <2>1, <2>2, <3>2 DEF Dissect, PairTypes, ProcessAt, LocationsKept
    <3>3. CASE StartXmlThread
      BY <2>1, <2>2, <3>3 DEF StartXmlThread, PairTypes, ProcessAt, LocationsKept
    <3>4. CASE PushLocation
      <4>1. /\ procPc = "push" /\ procPc' = "destroy" /\ xml_q' = Append(xml_q, qm)
            /\ UNCHANGED <<texts, bags, xmlThreads, crashed>>
        BY <3>4 DEF PushLocation, PushLeading
      <4>2. xml_q' \in Seq(Packet)
        BY <2>2, <4>1, AppendProperties DEF PairTypes
      <4>3. qm \in texts
        BY <4>1 DEF ProcessAt
      <4>4. \A i \in 1 .. Len(xml_q') : xml_q'[i] \in texts
        BY <4>1, <4>3 DEF PairTypes, LocationsKept
      <4> QED
        BY <2>1, <4>1, <4>2, <4>4 DEF PairTypes, ProcessAt, LocationsKept
    <3>5. CASE DestroyBag
      BY <2>1, <2>2, <3>5 DEF DestroyBag, PairTypes, ProcessAt, LocationsKept
    <3> QED
      BY <1>2, <3>1, <3>2, <3>3, <3>4, <3>5
  <2> QED
    BY <2>3, <2>4, <2>5
<1>3. CASE FreePacket
  <2>1. /\ procPc = "free" /\ procPc' = "pop" /\ qm' = 0 /\ packets' = packets \ {qm}
        /\ UNCHANGED <<kind, packet_q, texts, bags, xmlThreads, xml_q, xmlVars, crashed>>
    BY <1>3 DEF FreePacket
  <2>2. qm # 0
    BY <2>1 DEF ProcessAt
  <2>3. XmlInv'
    BY <2>1, XmlKept
  <2>4. PairTypes'
    BY <2>1 DEF PairTypes, xmlVars
  <2>5. ProcessAt'
    BY <2>1 DEF PairTypes, ProcessAt
  <2>6. LocationsKept'
    BY <2>1, TextsKept DEF xmlVars
  <2>7. \A i \in 1 .. Len(packet_q) : packet_q[i] # 0
    <3> SUFFICES ASSUME NEW i \in 1 .. Len(packet_q)
                 PROVE  packet_q[i] # 0
      OBVIOUS
    <3>1. packet_q[i] \in Packet
      BY DEF PairTypes
    <3> QED
      BY <3>1, MaxPacketsAssumption DEF Packet
  <2>8. packets \ {qm} = {packet_q[i] : i \in 1 .. Len(packet_q)}
    BY <2>2 DEF PacketsQueued, InProcess
  <2>9. PacketsQueued'
    BY <2>1, <2>7, <2>8 DEF PacketsQueued, InProcess
  <2> QED
    BY <2>3, <2>4, <2>5, <2>6, <2>9
<1> QED
  BY <1>1, <1>2, <1>3 DEF Process

\* Every step of the XML thread keeps the invariant.
LEMMA RetrieveInv ==
  ASSUME PairInv, Retrieve
  PROVE  PairInv'
<1> USE DEF PairInv
<1>1. UNCHANGED <<kind, packet_q, packets, texts, bags, procPc, qm, xmlThreads, crashed>>
  BY DEF Retrieve, captureVars, procVars
<1>2. RetrieveXml
  BY DEF Retrieve
<1>3. \A i \in 1 .. Len(xml_q) : xml_q[i] \in Packet /\ xml_q[i] \in Nat \ {0}
  BY MaxPacketsAssumption DEF PairTypes, Packet
<1>4. xml_q \in Seq(Nat \ {0})
  BY <1>3 DEF PairTypes
<1>5. XmlInv'
  BY <1>2, <1>4, XmlStepInv
<1>6. PacketsQueued'
  BY <1>1, QueueKept
<1>7. ProcessAt'
  BY <1>1 DEF ProcessAt
<1>8. PairTypes' /\ LocationsKept'
  <2>1. CASE PopLocation
    <3>1. /\ xml_q # <<>> /\ url' = xml_q[1] /\ xml_q' = Tail(xml_q) /\ UNCHANGED tried
      BY <2>1 DEF PopLocation
    <3>2. /\ Len(xml_q) \in Nat \ {0} /\ Tail(xml_q) \in Seq(Packet)
          /\ \A i \in 1 .. Len(Tail(xml_q)) :
               Tail(xml_q)[i] = xml_q[i + 1] /\ i + 1 \in 1 .. Len(xml_q)
      BY <3>1 DEF PairTypes
    <3> QED
      BY <1>1, <1>3, <3>1, <3>2 DEF PairTypes, LocationsKept
  <2>2. CASE UNCHANGED <<xml_q, tried, url>>
    BY <1>1, <2>2 DEF PairTypes, LocationsKept
  <2>3. CASE NextLocation /\ xmlPc # "pop"
    <3>1. url \in Packet
      BY <2>3 DEF XmlInv, DocumentAt, PairTypes
    <3>2. tried' \in Seq(Packet)
      BY <2>3, <3>1, AppendProperties DEF NextLocation, PairTypes
    <3> QED
      BY <1>1, <2>3, <3>2 DEF NextLocation, PairTypes, LocationsKept
  <2> QED
    BY <1>2, <2>1, <2>2, <2>3
    DEF RetrieveXml, OpenFile, InitCurl, Perform, CloseFile, ParseFile,
        NewContext, DupNamespaces, RegisterNamespaces, Evaluate, Take,
        PrintHeading, PrintNode, Cleanup, XmlGoto
<1> QED
  BY <1>5, <1>6, <1>7, <1>8

\* The invariant is one of every step of the plugin.
LEMMA PairNextInv == PairInv /\ [Next]_vars => PairInv'
<1> SUFFICES ASSUME PairInv, [Next]_vars
             PROVE  PairInv'
  OBVIOUS
<1>1. CASE Capture
  BY <1>1, CaptureInv
<1>2. CASE Process
  BY <1>2, ProcessInv
<1>3. CASE Retrieve
  BY <1>3, RetrieveInv
<1>4. CASE UNCHANGED vars
  <2>1. /\ UNCHANGED <<kind, packet_q, packets, texts, bags, procPc, qm>>
        /\ UNCHANGED <<xmlThreads, xml_q, xmlVars, crashed>>
    BY <1>4 DEF vars, captureVars, procVars
  <2>2. XmlInv'
    BY <2>1, XmlKept DEF PairInv
  <2>3. PacketsQueued' /\ LocationsKept'
    BY <2>1, QueueKept, TextsKept DEF PairInv, xmlVars
  <2>4. PairTypes' /\ ProcessAt'
    BY <2>1 DEF PairInv, PairTypes, ProcessAt, xmlVars
  <2> QED
    BY <2>2, <2>3, <2>4 DEF PairInv
<1> QED
  BY <1>1, <1>2, <1>3, <1>4 DEF Next, Idle

-----------------------------------------------------------------------------

\* The invariant of the three threads holds in every reachable state.
THEOREM PairInvariant == Spec => []PairInv
BY PairInitInv, PairNextInv, PTL DEF Spec

\* Every variable of the plugin keeps to its type, however many packets come.
THEOREM PairTypeCorrect == Spec => []TypeOK
<1>1. PairInv => TypeOK
  BY DEF PairInv, PairTypes, XmlInv, TypeOK
<1> QED
  BY <1>1, PairInvariant, PTL

\* Copies of packets and arrays of lines are freed exactly once, by the process
\* thread, and the queue never refers to one that is gone.
THEOREM PacketsAreOwned == Spec => []PacketsOwned
<1>1. PairInv => PacketsOwned
  BY PairInvOwns
<1> QED
  BY <1>1, PairInvariant, PTL

\* A location that is queued for the XML thread, or read by it, lies in a text
\* that is still allocated.
THEOREM LocationsStayAlive == Spec => []LocationAlive
<1>1. PairInv => LocationAlive
  BY PairInvKeeps
<1> QED
  BY <1>1, PairInvariant, PTL

\* Whichever call of a retrieval fails, the next one starts with nothing open,
\* allocated or left to print.
THEOREM NothingIsLeftBehind == Spec => []NothingLeftBehind
<1>1. PairInv => NothingLeftBehind
  BY XmlInvImplies DEF PairInv
<1> QED
  BY <1>1, PairInvariant, PTL

\* Only the description of the location at hand is ever parsed, and only after
\* its file has been closed.
THEOREM DescriptionsAreOwn == Spec => []OwnDescription
<1>1. PairInv => OwnDescription
  BY XmlInvImplies DEF PairInv
<1> QED
  BY <1>1, PairInvariant, PTL

-----------------------------------------------------------------------------
(* The order of the locations                                              *)

\* Packets leave the queue in the order of their numbers.
PacketsInOrder ==
  /\ Len(packet_q) <= Len(kind)
  /\ \A i \in 1 .. Len(packet_q) : packet_q[i] = Len(kind) - Len(packet_q) + i
  /\ qm # 0 => qm = Len(kind) - Len(packet_q)

\* And so do their locations.
OrderInv ==
  /\ xmlThreads <= 1
  /\ procPc = "push" \/ Locations # <<>> => xmlThreads = 1
  /\ Locations \in Seq(Packet)
  /\ \A i, j \in 1 .. Len(Locations) : i < j => Locations[i] < Locations[j]
  /\ ~crashed =>
       /\ PacketsInOrder
       /\ procPc \in {"start", "push"} => kind[qm] = "located"
       /\ \A i \in 1 .. Len(Locations) :
            Locations[i] \in Dissected /\ kind[Locations[i]] = "located"
       /\ \A p \in Dissected : kind[p] = "located" =>
            \E i \in 1 .. Len(Locations) : Locations[i] = p

\* A location that is taken from the queue, or put with the tried ones, keeps
\* its place.
LEMMA SamePlace ==
  ASSUME NEW s \in Seq(Packet), NEW u \in Packet, NEW q \in Seq(Packet)
  PROVE  /\ q # <<>> => s \o <<Head(q)>> \o Tail(q) = s \o <<>> \o q
         /\ Append(s, u) \o <<>> \o q = s \o <<u>> \o q
<1>1. q # <<>> => s \o <<Head(q)>> \o Tail(q) = s \o <<>> \o q
  <2> SUFFICES ASSUME q # <<>>
               PROVE  s \o <<Head(q)>> \o Tail(q) = s \o <<>> \o q
    OBVIOUS
  <2>1. Head(q) \in Packet /\ Tail(q) \in Seq(Packet) /\ <<Head(q)>> \in Seq(Packet)
    BY HeadTailProperties
  <2>2. <<Head(q)>> \o Tail(q) = q
    OBVIOUS
  <2>3. (s \o <<Head(q)>>) \o Tail(q) = s \o (<<Head(q)>> \o Tail(q))
    BY <2>1, ConcatAssociative
  <2>4. s \o <<>> = s
    BY ConcatEmptySeq
  <2> QED
    BY <2>2, <2>3, <2>4
<1>2. Append(s, u) \o <<>> \o q = s \o <<u>> \o q
  <2>1. Append(s, u) = s \o <<u>> /\ Append(s, u) \in Seq(Packet)
    BY AppendIsConcat, AppendProperties
  <2>2. Append(s, u) \o <<>> = Append(s, u)
    BY <2>1, ConcatEmptySeq
  <2> QED
    BY <2>1, <2>2
<1> QED
  BY <1>1, <1>2

\* What is queued goes behind all others.
LEMMA LastPlace ==
  ASSUME NEW s \in Seq(Packet), NEW q \in Seq(Packet), NEW m \in Packet
  PROVE  s \o Append(q, m) = Append(s \o q, m)
<1>1. Append(q, m) = q \o <<m>> /\ <<m>> \in Seq(Packet) /\ s \o q \in Seq(Packet)
  BY AppendIsConcat, ConcatProperties
<1>2. Append(s \o q, m) = (s \o q) \o <<m>>
  BY <1>1, AppendIsConcat
<1> QED
  BY <1>1, <1>2, ConcatAssociative

\* The XML thread only moves its locations on.
LEMMA RetrieveKeepsPlaces ==
  ASSUME PairInv, Retrieve
  PROVE  Locations' = Locations
<1> USE DEF PairInv, PairTypes
<1>1. CASE PopLocation
  <2>1. /\ xml_q # <<>> /\ url' = Head(xml_q) /\ xml_q' = Tail(xml_q) /\ tried' = tried
        /\ url = 0
    BY <1>1 DEF PopLocation, XmlInv, DocumentAt
  <2>2. Head(xml_q) \in Packet
    BY <2>1, HeadTailProperties
  <2>3. Head(xml_q) # 0
    BY <2>2, MaxPacketsAssumption DEF Packet
  <2>4. InRetrieval = <<>> /\ InRetrieval' = <<Head(xml_q)>>
    BY <2>1, <2>3 DEF InRetrieval
  <2> QED
    BY <2>1, <2>2, <2>4, SamePlace DEF Locations
<1>2. CASE UNCHANGED <<xml_q, tried, url>>
  BY <1>2 DEF Locations, InRetrieval
<1>3. CASE NextLocation /\ xmlPc # "pop"
  <2>1. tried' = Append(tried, url) /\ url' = 0 /\ xml_q' = xml_q
    BY <1>3 DEF NextLocation
  <2>2. url \in Packet /\ url # 0
    BY <1>3 DEF XmlInv, DocumentAt
  <2>3. InRetrieval = <<url>> /\ InRetrieval' = <<>>
    BY <2>1, <2>2 DEF InRetrieval
  <2> QED
    BY <2>1, <2>2, <2>3, SamePlace DEF Locations
<1> QED
  BY <1>1, <1>2, <1>3
  DEF Retrieve, RetrieveXml, OpenFile, InitCurl, Perform, CloseFile, ParseFile,
      NewContext, DupNamespaces, RegisterNamespaces, Evaluate, Take,
      PrintHeading, PrintNode, Cleanup, XmlGoto

\* What the process thread is done with is among the packets that came.
LEMMA DissectedRange ==
  ASSUME PairInv, PacketsInOrder
  PROVE  /\ Dissected \subseteq 1 .. Len(kind)
         /\ Len(kind) \in Nat /\ Len(packet_q) \in Nat
         /\ procPc \in {"bag", "dissect", "start", "push"} => Dissected = 1 .. qm - 1
         /\ procPc \in {"destroy", "free"} => Dissected = 1 .. qm
         /\ qm # 0 => qm \in 1 .. Len(kind)
BY MaxPacketsAssumption
   DEF PairInv, PairTypes, ProcessAt, PacketsInOrder, Dissected, Packet

\* A new packet comes behind all others.
LEMMA CaptureOrder ==
  ASSUME PairInv, OrderInv, ~crashed, Capture
  PROVE  OrderInv'
<1> DEFINE new == Len(kind) + 1
<1>1. /\ UNCHANGED <<procPc, qm, xmlThreads, xml_q, tried, url>>
      /\ Locations' = Locations
  BY DEF Capture, xmlVars, Locations, InRetrieval
<1>2. PICK k \in Kind :
        /\ kind' = Append(kind, k)
        /\ \/ packet_q' = Append(packet_q, new) /\ UNCHANGED crashed
           \/ crashed' = TRUE
  BY DEF Capture
<1>3. CASE crashed' = TRUE
  BY <1>1, <1>3 DEF OrderInv
<1>4. CASE packet_q' = Append(packet_q, new) /\ UNCHANGED crashed
  <2>1. /\ Dissected \subseteq 1 .. Len(kind) /\ Len(kind) \in Nat /\ Len(packet_q) \in Nat
        /\ qm # 0 => qm \in 1 .. Len(kind)
    BY DissectedRange DEF OrderInv
  <2>2. Len(kind') = Len(kind) + 1 /\ \A p \in 1 .. Len(kind) : kind'[p] = kind[p]
    BY <1>2, AppendProperties DEF PairInv, PairTypes
  <2>3. /\ Len(packet_q') = Len(packet_q) + 1
        /\ \A i \in 1 .. Len(packet_q) : packet_q'[i] = packet_q[i]
        /\ packet_q'[Len(packet_q) + 1] = Len(kind) + 1
    <3>1. packet_q \in Seq(Nat) /\ new \in Nat
      BY <2>1, MaxPacketsAssumption, SeqMonotonic DEF PairInv, PairTypes, Packet
    <3> HIDE DEF new
    <3>2. /\ Len(Append(packet_q, new)) = Len(packet_q) + 1
          /\ \A i \in 1 .. Len(packet_q) : Append(packet_q, new)[i] = packet_q[i]
          /\ Append(packet_q, new)[Len(packet_q) + 1] = new
      BY <3>1, AppendProperties
    <3> QED
      BY <1>4, <3>2 DEF new
  <2>4. PacketsInOrder'
    <3>1. \A i \in 1 .. Len(packet_q') : i \in 1 .. Len(packet_q) \/ i = Len(packet_q) + 1
      BY <2>1, <2>3
    <3>2. Len(kind') - Len(packet_q') = Len(kind) - Len(packet_q)
      BY <2>1, <2>2, <2>3
    <3> QED
      BY <1>1, <2>1, <2>2, <2>3, <3>1, <3>2 DEF PacketsInOrder, OrderInv
  <2>5. Dissected' = Dissected
    BY <1>1, <2>1, <2>2, <2>3 DEF Dissected
  <2>6. procPc \in {"start", "push"} => qm # 0
    BY DEF PairInv, ProcessAt
  <2> QED
    BY <1>1, <1>4, <2>1, <2>2, <2>4, <2>5, <2>6 DEF OrderInv
<1> QED
  BY <1>2, <1>3, <1>4

\* The process thread takes the oldest packet, and queues its location before
\* it takes the next.
LEMMA ProcessOrder ==
  ASSUME PairInv, PairInv', OrderInv, ~crashed, Process
  PROVE  OrderInv'
<1>1. /\ PacketsInOrder
      /\ Dissected \subseteq 1 .. Len(kind) /\ Len(kind) \in Nat /\ Len(packet_q) \in Nat
      /\ procPc \in {"bag", "dissect", "start", "push"} => Dissected = 1 .. qm - 1
      /\ procPc \in {"destroy", "free"} => Dissected = 1 .. qm
      /\ qm # 0 => qm \in 1 .. Len(kind)
  BY DissectedRange DEF OrderInv
<1>2. UNCHANGED <<kind, tried, url>>
  BY DEF Process, PopPacket, CreateBag, Dissect, StartXmlThread, PushLocation, PushLeading,
         DestroyBag, FreePacket, captureVars, xmlVars
<1>3. CASE PopPacket
  <2>1. /\ procPc = "pop" /\ procPc' = "bag" /\ packet_q # <<>>
        /\ qm' = packet_q[1] /\ packet_q' = Tail(packet_q)
        /\ UNCHANGED <<xmlThreads, xml_q, crashed>>
    BY <1>3 DEF PopPacket
  <2>2. /\ Len(packet_q) # 0 /\ Len(packet_q') = Len(packet_q) - 1
        /\ \A i \in 1 .. Len(packet_q') : packet_q'[i] = packet_q[i + 1]
    BY <2>1 DEF PairInv, PairTypes
  <2>3. PacketsInOrder'
    BY <1>1, <1>2, <2>1, <2>2 DEF PacketsInOrder
  <2>4. Dissected' = Dissected
    BY <1>1, <1>2, <2>1, <2>2 DEF Dissected
  <2>5. Locations' = Locations
    BY <1>2, <2>1 DEF Locations, InRetrieval
  <2> QED
    BY <1>2, <2>1, <2>3, <2>4, <2>5 DEF OrderInv
<1>4. CASE CreateBag \/ Dissect
  <2>1. /\ UNCHANGED <<packet_q, qm, xmlThreads, xml_q>>
        /\ Locations' = Locations /\ procPc' # "push"
    BY <1>2, <1>4 DEF CreateBag, Dissect, Locations, InRetrieval
  <2>2. CASE crashed'
    BY <2>1, <2>2 DEF OrderInv
  <2>3. CASE ~crashed'
    <3>1. \/ procPc = "bag" /\ procPc' = "dissect"
          \/ procPc = "dissect" /\ procPc' = "destroy" /\ kind[qm] # "located"
          \/ procPc = "dissect" /\ procPc' = "start" /\ kind[qm] = "located"
      BY <1>4, <2>3 DEF CreateBag, Dissect
    <3>2. PacketsInOrder'
      BY <1>1, <1>2, <2>1 DEF PacketsInOrder
    <3>3. qm # 0
      BY <3>1 DEF PairInv, ProcessAt
    <3>4. Dissected' = IF procPc' = "destroy" THEN Dissected \cup {qm} ELSE Dissected
      <4>1. Len(kind) - Len(packet_q) = qm /\ qm \in 1 .. Len(kind)
        BY <1>1, <3>3 DEF PacketsInOrder
      <4>2. Dissected = 1 .. qm - 1
        BY <1>1, <3>1
      <4>3. Dissected' = IF procPc' = "destroy" THEN 1 .. qm ELSE 1 .. qm - 1
        BY <1>2, <2>1, <3>1, <4>1 DEF Dissected
      <4>4. 1 .. qm = (1 .. qm - 1) \cup {qm}
        BY <1>1, <4>1
      <4> QED
        BY <4>2, <4>3, <4>4
    <3> QED
      BY <1>2, <2>1, <2>3, <3>1, <3>2, <3>4 DEF OrderInv
  <2> QED
    BY <2>2, <2>3
<1>5. CASE StartXmlThread
  <2>1. /\ UNCHANGED <<packet_q, qm, xml_q, crashed>>
        /\ procPc = "start" /\ procPc' = "push" /\ xmlThreads' = 1
    BY <1>5 DEF StartXmlThread, OrderInv, PairInv, PairTypes
  <2>2. Locations' = Locations /\ Dissected' = Dissected /\ PacketsInOrder'
    BY <1>1, <1>2, <2>1 DEF Locations, InRetrieval, Dissected, PacketsInOrder
  <2> QED
    BY <1>2, <2>1, <2>2 DEF OrderInv
<1>6. CASE PushLocation
  <2>1. /\ UNCHANGED <<packet_q, qm, xmlThreads, crashed>>
        /\ procPc = "push" /\ procPc' = "destroy" /\ xml_q' = Append(xml_q, qm)
    BY <1>6 DEF PushLocation, PushLeading
  <2>2. qm # 0 /\ qm \in Packet
    BY <2>1 DEF PairInv, PairTypes, ProcessAt
  <2>3. tried \o InRetrieval \in Seq(Packet) /\ xml_q \in Seq(Packet)
    BY DEF PairInv, PairTypes, InRetrieval
  <2>4. Locations' = Append(Locations, qm)
    BY <1>2, <2>1, <2>2, <2>3, LastPlace DEF Locations, InRetrieval
  <2>5. /\ Locations' \in Seq(Packet) /\ Len(Locations') = Len(Locations) + 1
        /\ \A i \in 1 .. Len(Locations) : Locations'[i] = Locations[i]
        /\ Locations'[Len(Locations) + 1] = qm
    BY <2>2, <2>4, AppendProperties DEF OrderInv
  <2>6. \A i \in 1 .. Len(Locations') : i \in 1 .. Len(Locations) \/ i = Len(Locations) + 1
    BY <2>5 DEF OrderInv
  <2>7. Dissected' = Dissected \cup {qm} /\ PacketsInOrder' /\ Dissected = 1 .. qm - 1
    <3>1. PacketsInOrder'
      BY <1>1, <1>2, <2>1 DEF PacketsInOrder
    <3>2. Len(kind) - Len(packet_q) = qm /\ qm \in 1 .. Len(kind)
      BY <1>1, <2>2 DEF PacketsInOrder
    <3>3. Dissected = 1 .. qm - 1
      BY <2>1, <3>2 DEF Dissected
    <3>4. Dissected' = 1 .. qm
      BY <1>2, <2>1, <3>2 DEF Dissected
    <3>5. 1 .. qm = (1 .. qm - 1) \cup {qm}
      BY <1>1, <3>2
    <3> QED
      BY <3>1, <3>3, <3>4, <3>5
  <2>8. \A i \in 1 .. Len(Locations) : Locations[i] < qm
    <3>1. qm \in Nat /\ \A p \in 1 .. qm - 1 : p < qm
      BY <1>1, <2>2
    <3>2. \A i \in 1 .. Len(Locations) : Locations[i] \in Dissected
      BY DEF OrderInv
    <3> QED
      BY <2>7, <3>1, <3>2
  <2>9. \A i, j \in 1 .. Len(Locations') : i < j => Locations'[i] < Locations'[j]
    BY <2>5, <2>6, <2>8 DEF OrderInv
  <2> QED
    <3>1. xmlThreads' = 1 /\ kind' = kind /\ crashed' = crashed /\ procPc' = "destroy"
      BY <1>2, <2>1 DEF OrderInv
    <3>2. ~crashed => /\ kind[qm] = "located"
                      /\ \A i \in 1 .. Len(Locations) :
                           Locations[i] \in Dissected /\ kind[Locations[i]] = "located"
                      /\ \A p \in Dissected : kind[p] = "located" =>
                           \E i \in 1 .. Len(Locations) : Locations[i] = p
      BY <2>1 DEF OrderInv
    <3>3. ~crashed => \A i \in 1 .. Len(Locations') :
                        Locations'[i] \in Dissected' /\ kind[Locations'[i]] = "located"
      BY <2>5, <2>6, <2>7, <3>2
    <3>4. ~crashed => \A p \in Dissected' : kind[p] = "located" =>
                        \E i \in 1 .. Len(Locations') : Locations'[i] = p
      <4>1. Len(Locations) \in Nat
        BY DEF OrderInv
      <4>2. Len(Locations) + 1 \in 1 .. Len(Locations')
            /\ \A i \in 1 .. Len(Locations) : i \in 1 .. Len(Locations')
        BY <2>5, <4>1
      <4> QED
        BY <2>5, <2>7, <3>2, <4>2
    <3> QED
      BY <2>5, <2>7, <2>9, <3>1, <3>3, <3>4 DEF OrderInv
<1>7. CASE DestroyBag \/ FreePacket
  <2>1. /\ UNCHANGED <<packet_q, xmlThreads, xml_q, crashed>>
        /\ \/ procPc = "destroy" /\ procPc' = "free" /\ qm' = qm
           \/ procPc = "free" /\ procPc' = "pop" /\ qm' = 0
    BY <1>7 DEF DestroyBag, FreePacket
  <2>2. Locations' = Locations /\ Dissected' = Dissected /\ PacketsInOrder'
    BY <1>1, <1>2, <2>1 DEF Locations, InRetrieval, Dissected, PacketsInOrder
  <2> QED
    BY <1>2, <2>1, <2>2 DEF OrderInv
<1> QED
  BY <1>3, <1>4, <1>5, <1>6, <1>7 DEF Process

\* The order is kept by every step of the plugin.
LEMMA OrderNextInv == PairInv /\ PairInv' /\ OrderInv /\ [Next]_vars => OrderInv'
<1> SUFFICES ASSUME PairInv, PairInv', OrderInv, [Next]_vars
             PROVE  OrderInv'
  OBVIOUS
<1>1. CASE ~crashed /\ Capture
  BY <1>1, CaptureOrder
<1>2. CASE ~crashed /\ Process
  BY <1>2, ProcessOrder
<1>3. CASE ~crashed /\ Retrieve
  BY <1>3, RetrieveKeepsPlaces
     DEF Retrieve, captureVars, procVars, OrderInv, PacketsInOrder, Dissected
<1>4. CASE UNCHANGED vars
  BY <1>4 DEF vars, captureVars, procVars, xmlVars, OrderInv, PacketsInOrder, Dissected,
              Locations, InRetrieval
<1> QED
  BY <1>1, <1>2, <1>3, <1>4 DEF Next, Idle

LEMMA OrderInvariant == Spec => []OrderInv
<1>1. Init => OrderInv
  <2> SUFFICES ASSUME Init
               PROVE  OrderInv
    OBVIOUS
  <2>1. Locations = <<>>
    BY DEF Init, XmlInit, Locations, InRetrieval
  <2> QED
    BY <2>1 DEF Init, OrderInv, PacketsInOrder, Dissected
<1> QED
  BY <1>1, OrderNextInv, PairInvariant, PTL DEF Spec

\* However many responses come, one XML thread tries their locations in the
\* order in which they were captured, and each of them once.
THEOREM LocationsKeepOrder == Spec => []LocationsInOrder
<1>1. OrderInv /\ PairInv => LocationsInOrder
  <2> SUFFICES ASSUME OrderInv, PairInv
               PROVE  LocationsInOrder
    OBVIOUS
  <2>1. DOMAIN Locations = 1 .. Len(Locations)
    BY LenProperties DEF OrderInv
  <2>2. xml_q # <<>> \/ url # 0 => Locations # <<>>
    BY DEF Locations, InRetrieval, PairInv, PairTypes
  <2>3. ~crashed => ToSet(Locations) = {p \in Dissected : kind[p] = "located"}
    BY <2>1 DEF ToSet, OrderInv
  <2> QED
    BY <2>1, <2>2, <2>3 DEF OrderInv, LocationsInOrder
<1> QED
  BY <1>1, OrderInvariant, PairInvariant, PTL
=============================================================================
