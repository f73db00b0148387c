----------------------------- MODULE StartupProofs -----------------------------
(***************************************************************************)
(* Proofs about the start of the program (modules PairSetup and            *)
(* FrameworkLoader), for any number of plugins and packets and any set of  *)
(* frameworks: which sessions are open and filtered, which frameworks end  *)
(* in a crash, and that messages keep their order.                         *)
(***************************************************************************)
EXTENDS FrameworkLoader, SequenceTheorems, FiniteSetTheorems, TLAPS

-----------------------------------------------------------------------------
(* The sessions                                                            *)

\* The session main() is setting up, if it has opened it and started no
\* thread for it.
SessionInHand ==
  IF ended = "no" /\ pc \in {"compile", "setfilter", "capture"} THEN {ztp} ELSE {}

\* What is open, for whom, and how far main() has come with it.
SessionInv ==
  /\ ztp \in 1 .. (NPlugins + 1)
  /\ pc \in SetupPoint \cup LoaderPoint
  /\ pc \in SetupPoint \ {"enter"} => ztp \in Plugin
  /\ session \in [Plugin -> {"none", "open", "filtered"}]
  /\ cap_args \in [Plugin -> [packet_q : {0} \cup Plugin, pcap_h : {0} \cup Plugin]]
  /\ capturing \subseteq Plugin
  /\ \A p \in capturing :
       /\ p < ztp \/ (p = ztp /\ pc \in {"process", "pair"})
       /\ session[p] = "filtered" /\ cap_args[p].pcap_h = p
  /\ \A p \in Plugin : session[p] # "none" <=> p \in capturing \cup SessionInHand
  /\ pc = "capture" /\ ended = "no" => session[ztp] = "filtered"
  /\ program # {} => program = {ztp} /\ pc = "setfilter"

\* Only the loop over the plugins sets sessions, filters and threads up.
LEMMA SessionsKept ==
  ASSUME SessionInv, ended = "no",
         UNCHANGED <<ztp, session, program, cap_args, capturing>>,
         \/ UNCHANGED <<pc, ended>>
         \/ pc \in LoaderPoint \cup {"enter"} /\ pc' \in LoaderPoint
  PROVE  SessionInv'
<1>1. CASE UNCHANGED <<pc, ended>>
  BY <1>1 DEF SessionInv, SessionInHand
<1>2. CASE pc \in LoaderPoint \cup {"enter"} /\ pc' \in LoaderPoint
  BY <1>2 DEF SessionInv, SessionInHand, SetupPoint, LoaderPoint, Handler
<1> QED
  BY <1>1, <1>2

\* Each step of the loop keeps track of its session, whether it succeeds or
\* gives up.
LEMMA SetupInv ==
  ASSUME SessionInv, ended = "no", SetupStep
  PROVE  SessionInv'
<1> USE DEF SessionInv, SessionInHand, PairGoto, Abort, SetupPoint, LoaderPoint, Handler
<1> USE NPluginsAssumption DEF Plugin
<1>1. CASE AllocateArgs
  BY <1>1 DEF AllocateArgs, setupVars, threadVars
<1>2. CASE OpenSession
  BY <1>2 DEF OpenSession, threadVars
<1>3. CASE CompileFilter
  BY <1>3 DEF CompileFilter, CloseSession, threadVars
<1>4. CASE SetFilter
  <2>1. CASE PairGoto("capture")
    BY <1>4, <2>1 DEF SetFilter, CloseSession, threadVars
  <2>2. CASE CloseSession
    BY <1>4, <2>2 DEF SetFilter, CloseSession, threadVars
  <2> QED
    BY <1>4, <2>1, <2>2 DEF SetFilter
<1>5. CASE StartCapture
  BY <1>5 DEF StartCapture
<1>6. CASE StartProcess
  BY <1>6 DEF StartProcess
<1>7. CASE AppendPair
  BY <1>7 DEF AppendPair, threadVars
<1> QED
  BY <1>1, <1>2, <1>3, <1>4, <1>5, <1>6, <1>7 DEF SetupStep

\* A step of FrameworkLoader is one of these.
LEMMA StepCases ==
  ASSUME [Next]_vars
  PROVE  \/ ended = "no" /\ SetupStep /\ UNCHANGED <<loadVars, streamVars>>
         \/ ended = "no" /\ (MainStep \/ UseWidget)
         \/ ended = "no" /\ (PressEnter \/ LoopExits) /\ UNCHANGED pairVars
         \/ ended = "no" /\ \E p \in Plugin : Capture(p) /\ UNCHANGED <<loadVars, streamVars>>
         \/ ended = "no" /\ \E p \in Plugin : Report(p)
         \/ ended = "no" /\ \E s \in Stream : Pop(s) \/ Display(s)
         \/ ended = "no" /\ (OpenWindow \/ CloseWindow)
         \/ UNCHANGED vars
BY DEF Next, Running, Setup, Ended

\* From Enter on main() goes through the points of the framework loader.
LEMMA LoaderSteps ==
  ASSUME pc \in SetupPoint \cup LoaderPoint,
         MainStep \/ UseWidget \/ ((PressEnter \/ LoopExits) /\ UNCHANGED pairVars)
  PROVE  /\ pc \in LoaderPoint \cup {"enter"}
         /\ UNCHANGED pairVars
         /\ pc' \in LoaderPoint
BY DEF MainStep, UseWidget, PressEnter, LoopExits, DlOpen, FindShutdown, CallInit,
       FindManifest, FixWeakSym, StartHandler, BindKeys, Return, Goto, Exit,
       SetupPoint, LoaderPoint, Handler

\* The account of the sessions is kept by every step.
LEMMA SessionNextInv == SessionInv /\ [Next]_vars => SessionInv'
<1> SUFFICES ASSUME SessionInv, [Next]_vars
             PROVE  SessionInv'
  OBVIOUS
<1> USE DEF pairVars, setupVars, threadVars
<1>1. CASE ended = "no" /\ SetupStep
  BY <1>1, SetupInv
<1>2. CASE ended = "no" /\ (MainStep \/ UseWidget)
  BY <1>2, LoaderSteps, SessionsKept DEF SessionInv
<1>3. CASE ended = "no" /\ (PressEnter \/ LoopExits) /\ UNCHANGED pairVars
  BY <1>3, LoaderSteps, SessionsKept DEF SessionInv
<1>4. CASE ended = "no" /\ \E p \in Plugin : Capture(p)
  BY <1>4, SessionsKept DEF Capture
<1>5. CASE ended = "no" /\ \E p \in Plugin : Report(p)
  BY <1>5, SessionsKept DEF Report, Process
<1>6. CASE ended = "no" /\ \E s \in Stream : Pop(s) \/ Display(s)
  BY <1>6, SessionsKept DEF Pop, Display
<1>7. CASE ended = "no" /\ (OpenWindow \/ CloseWindow)
  BY <1>7, SessionsKept DEF OpenWindow, CloseWindow
<1>8. CASE UNCHANGED vars
  BY <1>8 DEF vars, SessionInv, SessionInHand
<1> QED
  BY <1>1, <1>2, <1>3, <1>4, <1>5, <1>6, <1>7, <1>8, StepCases

\* The program starts without sessions.
LEMMA SessionInitInv == Init => SessionInv
BY NPluginsAssumption DEF Init, PairInit, SessionInv, SessionInHand, SetupPoint, Plugin

\* The account of the sessions is true in every state.
THEOREM SessionInvariant == Spec => []SessionInv
BY SessionInitInv, SessionNextInv, PTL DEF Spec

\* Nobody captures from a session without its filter, and what main() gives up
\* it closes, for any number of plugins and wherever the setup fails.
THEOREM SessionsAreAccounted == Spec => []SessionsAccounted
<1>1. SessionInv => SessionsAccounted
  BY DEF SessionInv, SessionInHand, SessionsAccounted
<1> QED
  BY <1>1, SessionInvariant, PTL

-----------------------------------------------------------------------------
(* The framework                                                           *)

\* Points of the loading by what has been found in the framework before.
Found == {"init", "manifest", "symbols", "keys", "up", "return"} \cup Handler
Served == {"symbols", "keys", "up", "return"} \cup Handler

\* What is open, found and running at each point of the loading.
FrameworkInv ==
  /\ pc \in SetupPoint \cup LoaderPoint
  /\ fw \in Framework \cup {{}}
  /\ running \subseteq Handler \cap fw
  /\ pc \in SetupPoint \cup {"dlopen"} => fw = {} /\ running = {}
  /\ ended = "no" /\ pc \in LoaderPoint \ {"dlopen"} => mapped = TRUE
  /\ pc \in Found => "shutdown_framework" \in fw
  /\ pc \in Served => "fw_manifest" \in fw /\ mapped = TRUE
  /\ pc \in LoaderPoint \ Served => running = {}
  /\ pc \in {"symbols", "_f_stderr"} => running = {}
  /\ pc \in {"keys", "up", "return"} => running = Handler
  /\ pc = "_f_stdout" => running = {"_f_stderr"}
  /\ pc = "_f_input" => running = {"_f_stderr", "_f_stdout"}
  /\ pc \in {"up", "return"} => "ztf_map_ui_key" \in fw
  /\ ended = "crash" => fw # Symbol

\* Threads of plugins and of the framework take no part in the loading.
LEMMA FrameworkKept ==
  ASSUME FrameworkInv, UNCHANGED <<fw, mapped, running, pc, ended>>
  PROVE  FrameworkInv'
BY DEF FrameworkInv

\* Each step of the loader finds what it goes on with, or ends the program.
LEMMA LoadingInv ==
  ASSUME FrameworkInv, ended = "no",
         MainStep \/ UseWidget \/ PressEnter \/ LoopExits
  PROVE  FrameworkInv'
<1> USE DEF FrameworkInv, SetupPoint, LoaderPoint, Found, Served, Handler,
            Goto, Exit, loadVars
<1>1. CASE DlOpen
  BY <1>1 DEF DlOpen
<1>2. CASE FindShutdown
  BY <1>2 DEF FindShutdown, Symbol
<1>3. CASE CallInit
  BY <1>3 DEF CallInit
<1>4. CASE FindManifest
  BY <1>4 DEF FindManifest
<1>5. CASE FixWeakSym
  BY <1>5 DEF FixWeakSym
<1>6. CASE StartHandler("_f_stderr", "_f_stdout")
  BY <1>6 DEF StartHandler, Symbol
<1>7. CASE StartHandler("_f_stdout", "_f_input")
  BY <1>7 DEF StartHandler, Symbol
<1>8. CASE StartHandler("_f_input", "keys")
  BY <1>8 DEF StartHandler, Symbol
<1>9. CASE BindKeys
  <2>1. "ztf_map_ui_key" \in Symbol
    BY DEF Symbol, Weak
  <2> QED
    BY <1>9, <2>1 DEF BindKeys
<1>10. CASE Return
  BY <1>10 DEF Return
<1>11. CASE UseWidget
  <2>1. Widget \subseteq Symbol
    BY DEF Widget, Symbol
  <2> QED
    BY <1>11, <2>1 DEF UseWidget
<1>12. CASE PressEnter
  BY <1>12 DEF PressEnter
<1>13. CASE LoopExits
  BY <1>13 DEF LoopExits
<1> QED
  BY <1>1, <1>2, <1>3, <1>4, <1>5, <1>6, <1>7, <1>8, <1>9, <1>10, <1>11,
     <1>12, <1>13 DEF MainStep

\* The loop over the plugins stays in front of the loader; when it gives up,
\* there is no framework yet.
LEMMA SetupKeepsFramework ==
  ASSUME FrameworkInv, SetupStep, UNCHANGED <<loadVars, streamVars>>
  PROVE  FrameworkInv'
<1>1. pc \in SetupPoint /\ pc' \in SetupPoint /\ (ended' = ended \/ ended' = "exit1")
  BY DEF SetupStep, AllocateArgs, OpenSession, CompileFilter, SetFilter, CloseSession,
         StartCapture, StartProcess, AppendPair, PairGoto, Abort, SetupPoint
<1> QED
  BY <1>1 DEF FrameworkInv, loadVars, SetupPoint, LoaderPoint, Found, Served, Handler

\* The invariant of the loading is one of every step.
LEMMA FrameworkNextInv == FrameworkInv /\ [Next]_vars => FrameworkInv'
<1> SUFFICES ASSUME FrameworkInv, [Next]_vars
             PROVE  FrameworkInv'
  OBVIOUS
<1>1. CASE ended = "no" /\ SetupStep /\ UNCHANGED <<loadVars, streamVars>>
  BY <1>1, SetupKeepsFramework
<1>2. CASE ended = "no" /\ (MainStep \/ UseWidget \/ PressEnter \/ LoopExits)
  BY <1>2, LoadingInv
<1>3. CASE \E p \in Plugin : Capture(p) /\ UNCHANGED <<loadVars, streamVars>>
  BY <1>3, FrameworkKept DEF Capture, loadVars
<1>4. CASE \E p \in Plugin : Report(p)
  BY <1>4, FrameworkKept DEF Report, Process, loadVars
<1>5. CASE \E s \in Stream : Pop(s) \/ Display(s)
  BY <1>5, FrameworkKept DEF Pop, Display, loadVars
<1>6. CASE OpenWindow \/ CloseWindow
  BY <1>6, FrameworkKept DEF OpenWindow, CloseWindow, loadVars
<1>7. CASE UNCHANGED vars
  BY <1>7, FrameworkKept DEF vars, loadVars
<1> QED
  BY <1>1, <1>2, <1>3, <1>4, <1>5, <1>6, <1>7, StepCases

\* The program starts without a framework.
LEMMA FrameworkInitInv == Init => FrameworkInv
BY DEF Init, PairInit, FrameworkInv, SetupPoint, LoaderPoint, Found, Served, Handler, Symbol

\* A framework is what it is known to be at each point of the loading.
THEOREM FrameworkInvariant == Spec => []FrameworkInv
BY FrameworkInitInv, FrameworkNextInv, PTL DEF Spec

\* Whatever symbols a framework defines: a complete one never causes a crash,
\* an incomplete one does not get past what the loader tests, and threads only
\* ever run code that is mapped.
THEOREM OnlyPartialFrameworksCrash == Spec => []OnlyPartialCrash
<1>1. FrameworkInv => OnlyPartialCrash
  BY DEF FrameworkInv, OnlyPartialCrash, SetupPoint, LoaderPoint, Found, Served, Handler
<1> QED
  BY <1>1, FrameworkInvariant, PTL

-----------------------------------------------------------------------------
(* The messages                                                            *)

\* Messages are positions in the order of writing, from 1.
StreamInv ==
  /\ sent \in [Stream -> Nat]
  /\ queue \in [Stream -> Seq(Nat \ {0})]
  /\ inHand \in [Stream -> Nat]
  /\ shown \in [Stream -> Seq(Nat)]
  /\ modal \in BOOLEAN

\* What any step does to the messages.
LEMMA StreamSteps ==
  ASSUME [Next]_vars
  PROVE  \/ \E s \in Stream : Push(s)
         \/ \E s \in Stream : Pop(s) \/ Display(s)
         \/ OpenWindow \/ CloseWindow
         \/ UNCHANGED streamVars
<1>1. CASE MainStep \/ UseWidget \/ PressEnter \/ LoopExits
  BY <1>1 DEF MainStep, UseWidget, PressEnter, LoopExits, DlOpen, FindShutdown,
     CallInit, FindManifest, FixWeakSym, StartHandler, BindKeys, Return, Goto, Exit,
     Stream
<1>2. CASE \E p \in Plugin : Report(p)
  BY <1>2 DEF Report
<1>3. CASE UNCHANGED vars
  BY <1>3 DEF vars
<1> QED
  BY <1>1, <1>2, <1>3, StepCases

\* Nothing has been written, and no window is up.
LEMMA StreamInitInv == Init => StreamInv
<1> SUFFICES ASSUME Init
             PROVE  StreamInv
  OBVIOUS
<1>1. /\ sent = [s \in Stream |-> 0]
      /\ queue = [s \in Stream |-> <<>>]
      /\ inHand = [s \in Stream |-> 0]
      /\ shown = [s \in Stream |-> <<>>]
      /\ modal = FALSE
  BY DEF Init
<1>2. modal \in BOOLEAN
  BY <1>1
<1>3. /\ sent \in [Stream -> Nat]
      /\ inHand \in [Stream -> Nat]
      /\ queue \in [Stream -> Seq(Nat \ {0})]
      /\ shown \in [Stream -> Seq(Nat)]
  BY <1>1
<1> QED
  BY <1>2, <1>3 DEF StreamInv

\* The messages keep to their types.
LEMMA StreamNextInv == StreamInv /\ [Next]_vars => StreamInv'
<1> SUFFICES ASSUME StreamInv, [Next]_vars
             PROVE  StreamInv'
  OBVIOUS
<1> USE DEF StreamInv
<1>1. ASSUME NEW s \in Stream, Push(s)
      PROVE  StreamInv'
  <2>1. sent[s] + 1 \in Nat \ {0} /\ queue[s] \in Seq(Nat \ {0})
    OBVIOUS
  <2>2. Append(queue[s], sent[s] + 1) \in Seq(Nat \ {0})
    BY <2>1, AppendProperties
  <2> QED
    BY <1>1, <2>1, <2>2 DEF Push
<1>2. ASSUME NEW s \in Stream, Pop(s)
      PROVE  StreamInv'
  <2>1. queue[s] \in Seq(Nat \ {0}) /\ queue[s] # <<>>
    BY <1>2 DEF Pop
  <2>2. Head(queue[s]) \in Nat \ {0} /\ Tail(queue[s]) \in Seq(Nat \ {0})
    BY <2>1, HeadTailProperties
  <2> QED
    BY <1>2, <2>2 DEF Pop
<1>3. ASSUME NEW s \in Stream, Display(s)
      PROVE  StreamInv'
  <2>1. inHand[s] \in Nat /\ shown[s] \in Seq(Nat)
    OBVIOUS
  <2>2. Append(shown[s], inHand[s]) \in Seq(Nat)
    BY <2>1, AppendProperties
  <2> QED
    BY <1>3, <2>2 DEF Display
<1>4. CASE OpenWindow \/ CloseWindow
  BY <1>4 DEF OpenWindow, CloseWindow
<1>5. CASE UNCHANGED streamVars
  BY <1>5 DEF streamVars
<1> QED
  BY <1>1, <1>2, <1>3, <1>4, <1>5, StreamSteps

\* What is appended to the tail of a sequence is appended to the whole.
LEMMA AppendBehind ==
  ASSUME NEW q \in Seq(Nat), NEW h \in Nat, NEW m \in Nat
  PROVE  <<h>> \o Append(q, m) = Append(<<h>> \o q, m)
<1>1. <<h>> \in Seq(Nat) /\ <<m>> \in Seq(Nat) /\ <<h>> \o q \in Seq(Nat)
  OBVIOUS
<1>2. Append(q, m) = q \o <<m>>
  BY AppendIsConcat
<1>3. Append(<<h>> \o q, m) = (<<h>> \o q) \o <<m>>
  BY <1>1, AppendIsConcat
<1> QED
  BY <1>1, <1>2, <1>3, ConcatAssociative

\* Messages in hand and in the queues implement a stream: writing is a Write,
\* displaying a Display, and taking a message from its queue cannot be seen.
THEOREM MessagesKeepOrder == Spec => ImplementsStream
<1> USE DEF StreamInv
<1>1. Init => StreamInv /\ Messages!Init
  BY StreamInitInv DEF Init, Messages!Init, Waiting
<1>2. StreamInv /\ [Next]_vars => [Messages!Next]_Messages!vars
  <2> SUFFICES ASSUME StreamInv, [Next]_vars
               PROVE  [Messages!Next]_Messages!vars
    OBVIOUS
  <2>1. ASSUME NEW s \in Stream, Push(s)
        PROVE  Messages!Write(s)
    <3>1. /\ sent' = [sent EXCEPT ![s] = @ + 1]
          /\ queue' = [queue EXCEPT ![s] = Append(@, sent[s] + 1)]
          /\ UNCHANGED <<inHand, shown>>
      BY <2>1 DEF Push
    <3>2. \A t \in Stream : Waiting'[t] =
            IF t = s THEN Append(Waiting[s], sent[s] + 1) ELSE Waiting[t]
      <4> SUFFICES ASSUME NEW t \in Stream
                   PROVE  Waiting'[t] = IF t = s THEN Append(Waiting[s], sent[s] + 1)
                                                 ELSE Waiting[t]
        OBVIOUS
      <4>1. queue[t] \in Seq(Nat) /\ inHand[t] \in Nat /\ sent[s] + 1 \in Nat
        OBVIOUS
      <4>2. <<inHand[t]>> \o Append(queue[t], sent[s] + 1)
              = Append(<<inHand[t]>> \o queue[t], sent[s] + 1)
        BY <4>1, AppendBehind
      <4>3. queue'[t] = IF t = s THEN Append(queue[s], sent[s] + 1) ELSE queue[t]
        BY <3>1
      <4> QED
        BY <3>1, <4>2, <4>3 DEF Waiting
    <3>3. Waiting' = [Waiting EXCEPT ![s] = Append(@, sent[s] + 1)]
      BY <3>2 DEF Waiting
    <3> QED
      BY <3>1, <3>3 DEF Messages!Write
  <2>2. ASSUME NEW s \in Stream, Pop(s)
        PROVE  UNCHANGED Messages!vars
    <3>1. /\ inHand[s] = 0 /\ queue[s] # <<>> /\ queue[s] \in Seq(Nat \ {0})
          /\ inHand' = [inHand EXCEPT ![s] = Head(queue[s])]
          /\ queue' = [queue EXCEPT ![s] = Tail(@)]
          /\ UNCHANGED <<sent, shown>>
      BY <2>2 DEF Pop
    <3>2. Head(queue[s]) # 0 /\ <<Head(queue[s])>> \o Tail(queue[s]) = queue[s]
      BY <3>1
    <3>3. Waiting' = Waiting
      BY <3>1, <3>2 DEF Waiting
    <3> QED
      BY <3>1, <3>3 DEF Messages!vars
  <2>3. ASSUME NEW s \in Stream, Display(s)
        PROVE  Messages!Display(s)
    <3>1. /\ inHand[s] # 0 /\ queue[s] \in Seq(Nat)
          /\ shown' = [shown EXCEPT ![s] = Append(@, inHand[s])]
          /\ inHand' = [inHand EXCEPT ![s] = 0]
          /\ UNCHANGED <<sent, queue>>
      BY <2>3 DEF Display
    <3>2. Waiting[s] = <<inHand[s]>> \o queue[s]
      BY <3>1 DEF Waiting
    <3>3. Waiting[s] # <<>> /\ Head(Waiting[s]) = inHand[s] /\ Tail(Waiting[s]) = queue[s]
      BY <3>1, <3>2
    <3>4. Waiting' = [Waiting EXCEPT ![s] = Tail(@)]
      BY <3>1, <3>3 DEF Waiting
    <3> QED
      BY <3>1, <3>3, <3>4 DEF Messages!Display
  <2>4. CASE OpenWindow \/ CloseWindow
    BY <2>4 DEF OpenWindow, CloseWindow, Messages!vars, Waiting
  <2>5. CASE UNCHANGED streamVars
    BY <2>5 DEF streamVars, Messages!vars, Waiting
  <2> QED
    BY <2>1, <2>2, <2>3, <2>4, <2>5, StreamSteps DEF Messages!Next
<1> QED
  BY <1>1, <1>2, StreamNextInv, PTL DEF Spec, ImplementsStream, Messages!Spec

-----------------------------------------------------------------------------
(* The packets                                                             *)

\* Packets of a plugin, as they wait for its process thread.
PacketOf(p) == [by : {p}, packet : 1 .. MaxPackets]

\* What the bound on all packets leaves room for.
LEMMA RoomForOne ==
  ASSUME NEW p \in Plugin, Len(captured[p]) \in Nat, Cardinality(AllCaptured) < MaxPackets
  PROVE  Len(captured[p]) + 1 \in 1 .. MaxPackets
<1> SUFFICES ASSUME Len(captured[p]) >= MaxPackets
             PROVE  FALSE
  BY MaxPacketsAssumption
<1> DEFINE own == {p} \X (1 .. MaxPackets)
<1>1. /\ IsFiniteSet(Plugin)
      /\ IsFiniteSet(1 .. MaxPackets) /\ Cardinality(1 .. MaxPackets) = MaxPackets
  <2>1. 1 \in Int /\ NPlugins \in Int /\ MaxPackets \in Nat
    BY NPluginsAssumption, MaxPacketsAssumption
  <2>2. IsFiniteSet(Plugin)
    BY <2>1, FS_Interval DEF Plugin
  <2>3. IsFiniteSet(1 .. MaxPackets)
    BY <2>1, FS_Interval
  <2>4. Cardinality(1 .. MaxPackets) = IF 1 > MaxPackets THEN 0 ELSE MaxPackets - 1 + 1
    BY <2>1, FS_Interval
  <2> QED
    BY <2>1, <2>2, <2>3, <2>4
<1>2. IsFiniteSet(AllCaptured)
  <2>1. IsFiniteSet(Plugin \X (1 .. MaxPackets))
    BY <1>1, FS_Product
  <2> QED
    BY <2>1, FS_Subset DEF AllCaptured
<1>3. own \subseteq AllCaptured
  BY MaxPacketsAssumption DEF AllCaptured
<1>4. Cardinality(own) = MaxPackets
  <2>1. IsFiniteSet({p}) /\ Cardinality({p}) = 1
    BY FS_Singleton
  <2>2. Cardinality(own) = Cardinality({p}) * Cardinality(1 .. MaxPackets)
    BY <1>1, <2>1, FS_Product
  <2> QED
    BY <1>1, <2>1, <2>2, MaxPacketsAssumption
<1>5. MaxPackets <= Cardinality(AllCaptured) /\ Cardinality(AllCaptured) \in Nat
  BY <1>2, <1>3, <1>4, FS_Subset, FS_CardinalityType
<1> QED
  BY <1>5, MaxPacketsAssumption

\* The numbers of packets, in the order of a queue.
Numbers(q) == [i \in DOMAIN q |-> q[i].packet]

LEMMA NumbersSeq ==
  ASSUME NEW p, NEW q \in Seq(PacketOf(p))
  PROVE  /\ Numbers(q) \in Seq(1 .. MaxPackets)
         /\ Len(Numbers(q)) = Len(q)
         /\ \A i \in 1 .. Len(q) : Numbers(q)[i] = q[i].packet
<1>1. Len(q) \in Nat /\ DOMAIN q = 1 .. Len(q) /\ q \in [1 .. Len(q) -> PacketOf(p)]
  BY LenProperties
<1>2. Numbers(q) \in [1 .. Len(q) -> 1 .. MaxPackets]
  BY <1>1 DEF Numbers, PacketOf
<1>3. Numbers(q) \in Seq(1 .. MaxPackets)
  <2> DEFINE S == 1 .. MaxPackets
             f == Numbers(q)
  <2>1. \E n \in Nat : f \in [1 .. n -> S]
    BY <1>1, <1>2
  <2> HIDE DEF S, f
  <2>2. f \in Seq(S)
    BY <2>1, SeqDef
  <2> QED
    BY <2>2 DEF S, f
<1> QED
  BY <1>1, <1>3 DEF Numbers

LEMMA NumbersAppend ==
  ASSUME NEW p, NEW q \in Seq(PacketOf(p)), NEW m \in PacketOf(p)
  PROVE  Numbers(Append(q, m)) = Append(Numbers(q), m.packet)
<1> DEFINE a == Numbers(Append(q, m))
           b == Append(Numbers(q), m.packet)
<1>1. /\ Append(q, m) \in Seq(PacketOf(p)) /\ Len(Append(q, m)) = Len(q) + 1
      /\ \A i \in 1 .. Len(q) : Append(q, m)[i] = q[i]
      /\ Append(q, m)[Len(q) + 1] = m
  BY AppendProperties
<1>2. Len(q) \in Nat /\ m.packet \in 1 .. MaxPackets
  BY LenProperties DEF PacketOf
<1>3. /\ a \in Seq(1 .. MaxPackets) /\ Len(a) = Len(q) + 1
      /\ \A i \in 1 .. Len(q) + 1 : a[i] = Append(q, m)[i].packet
  BY <1>1, NumbersSeq
<1>4. /\ b \in Seq(1 .. MaxPackets) /\ Len(b) = Len(q) + 1
      /\ \A i \in 1 .. Len(q) : b[i] = q[i].packet
      /\ b[Len(q) + 1] = m.packet
  BY <1>2, NumbersSeq, AppendProperties
<1> HIDE DEF a, b
<1>5. \A i \in 1 .. Len(a) : a[i] = b[i]
  BY <1>1, <1>2, <1>3, <1>4
<1>6. a = b
  BY <1>3, <1>4, <1>5, SeqEqual
<1> QED
  BY <1>6 DEF a, b

LEMMA NumbersTail ==
  ASSUME NEW p, NEW q \in Seq(PacketOf(p)), q # <<>>
  PROVE  /\ Numbers(q) # <<>>
         /\ Head(Numbers(q)) = Head(q).packet
         /\ Numbers(Tail(q)) = Tail(Numbers(q))
<1> DEFINE a == Numbers(Tail(q))
           b == Tail(Numbers(q))
<1>1. Len(q) \in Nat \ {0}
  BY EmptySeq
<1>2. /\ Numbers(q) \in Seq(1 .. MaxPackets) /\ Len(Numbers(q)) = Len(q)
      /\ \A i \in 1 .. Len(q) : Numbers(q)[i] = q[i].packet
  BY NumbersSeq
<1>3. Numbers(q) # <<>> /\ Head(Numbers(q)) = Head(q).packet
  BY <1>1, <1>2
<1>4. /\ Tail(q) \in Seq(PacketOf(p)) /\ Len(Tail(q)) = Len(q) - 1
      /\ \A i \in 1 .. Len(q) - 1 : Tail(q)[i] = q[i + 1]
  BY HeadTailProperties
<1>5. /\ a \in Seq(1 .. MaxPackets) /\ Len(a) = Len(q) - 1
      /\ \A i \in 1 .. Len(q) - 1 : a[i] = q[i + 1].packet
  <2>1. /\ a \in Seq(1 .. MaxPackets) /\ Len(a) = Len(Tail(q))
        /\ \A i \in 1 .. Len(Tail(q)) : a[i] = Tail(q)[i].packet
    BY <1>4, NumbersSeq
  <2> HIDE DEF a
  <2> QED
    BY <1>4, <2>1
<1>6. /\ b \in Seq(1 .. MaxPackets) /\ Len(b) = Len(q) - 1
      /\ \A i \in 1 .. Len(q) - 1 : b[i] = Numbers(q)[i + 1]
  BY <1>2, <1>3, HeadTailProperties
<1> HIDE DEF a, b
<1>7. \A i \in 1 .. Len(a) : a[i] = b[i]
  BY <1>1, <1>2, <1>5, <1>6
<1>8. a = b
  BY <1>5, <1>6, <1>7, SeqEqual
<1> QED
  BY <1>3, <1>8 DEF a, b

\* The thread pairs, and whose packets are where.
ThreadsInv ==
  /\ proc_args \in [Plugin -> [packet_q : {0} \cup Plugin]]
  /\ processing \subseteq Plugin
  /\ \A p \in capturing : cap_args[p].packet_q = p
  /\ \A p \in processing :
       /\ p < ztp \/ (p = ztp /\ pc = "pair")
       /\ proc_args[p].packet_q = p
  /\ pairs \in Seq([parent_pi : Plugin, comm_queue : Plugin])
  /\ Len(pairs) = ztp - 1

PacketsInv ==
  /\ captured \in [Plugin -> Seq(1 .. MaxPackets)]
  /\ comms_q \in [Plugin -> Seq([by : Plugin, packet : 1 .. MaxPackets])]
  /\ processed \in [Plugin -> Seq([by : Plugin, packet : 1 .. MaxPackets])]
  /\ \A p \in Plugin :
       comms_q[p] \in Seq(PacketOf(p)) /\ processed[p] \in Seq(PacketOf(p))

DeliveryInv == SessionInv /\ ThreadsInv /\ PacketsInv

\* Each thread is started with the queue of its own plugin.
LEMMA SetupThreads ==
  ASSUME SessionInv, ThreadsInv, ended = "no", SetupStep
  PROVE  ThreadsInv'
<1> USE DEF ThreadsInv, PairGoto, Abort
<1>1. /\ ztp \in Plugin /\ ztp \in Nat /\ capturing \subseteq Plugin /\ Plugin \subseteq Nat
      /\ cap_args \in [Plugin -> [packet_q : {0} \cup Plugin, pcap_h : {0} \cup Plugin]]
      /\ \A p \in capturing : p < ztp \/ (p = ztp /\ pc \in {"process", "pair"})
  BY NPluginsAssumption
     DEF Plugin, SessionInv, SetupStep, AllocateArgs, OpenSession, CompileFilter, SetFilter,
         StartCapture, StartProcess, AppendPair, SetupPoint
<1>2. CASE AllocateArgs \/ OpenSession \/ CompileFilter \/ SetFilter
  <2>1. /\ UNCHANGED <<ztp, proc_args, processing, cap_args, capturing, pairs>>
        /\ pc # "pair"
    BY <1>2 DEF AllocateArgs, OpenSession, CompileFilter, SetFilter, CloseSession,
                setupVars, threadVars
  <2> QED
    BY <2>1
<1>3. CASE StartCapture
  <2>1. /\ UNCHANGED <<ztp, proc_args, processing, pairs>>
        /\ pc # "pair"
        /\ cap_args' = [cap_args EXCEPT ![ztp] = [packet_q |-> ztp, pcap_h |-> ztp]]
        /\ capturing' = capturing \cup {ztp}
    BY <1>3 DEF StartCapture
  <2>2. \A p \in capturing' : cap_args'[p].packet_q = p
    BY <1>1, <2>1
  <2> QED
    BY <2>1, <2>2
<1>4. CASE StartProcess
  <2>1. /\ UNCHANGED <<ztp, cap_args, capturing, pairs>>
        /\ pc = "process" /\ pc' = "pair"
        /\ proc_args' = [proc_args EXCEPT ![ztp].packet_q = ztp]
        /\ processing' = processing \cup {ztp}
    BY <1>4 DEF StartProcess
  <2>2. proc_args' \in [Plugin -> [packet_q : {0} \cup Plugin]]
    BY <1>1, <2>1
  <2>3. \A p \in processing' :
          /\ p < ztp \/ (p = ztp /\ pc' = "pair")
          /\ proc_args'[p].packet_q = p
    BY <1>1, <2>1
  <2> QED
    BY <1>1, <2>1, <2>2, <2>3
<1>5. CASE AppendPair
  <2>1. /\ UNCHANGED <<proc_args, processing, cap_args, capturing>>
        /\ pairs' = Append(pairs, [parent_pi |-> ztp, comm_queue |-> ztp])
        /\ ztp' = ztp + 1
    BY <1>5 DEF AppendPair, threadVars
  <2>2. [parent_pi |-> ztp, comm_queue |-> ztp] \in [parent_pi : Plugin, comm_queue : Plugin]
    BY <1>1
  <2>3. /\ pairs' \in Seq([parent_pi : Plugin, comm_queue : Plugin])
        /\ Len(pairs') = Len(pairs) + 1
    BY <2>1, <2>2, AppendProperties
  <2>4. Len(pairs') = ztp' - 1
    BY <1>1, <2>1, <2>3
  <2>5. \A p \in processing : p < ztp'
    BY <1>1, <2>1
  <2> QED
    BY <2>1, <2>3, <2>4, <2>5
<1> QED
  BY <1>2, <1>3, <1>4, <1>5 DEF SetupStep

\* Nobody else touches them.
LEMMA ThreadsNextInv == SessionInv /\ ThreadsInv /\ [Next]_vars => ThreadsInv'
<1> SUFFICES ASSUME SessionInv, ThreadsInv, [Next]_vars
             PROVE  ThreadsInv'
  OBVIOUS
<1>1. CASE ended = "no" /\ SetupStep
  BY <1>1, SetupThreads
<1>2. CASE MainStep \/ UseWidget \/ ((PressEnter \/ LoopExits) /\ UNCHANGED pairVars)
  BY <1>2, LoaderSteps
     DEF SessionInv, ThreadsInv, pairVars, setupVars, threadVars, LoaderPoint, Handler
<1>3. CASE \E p \in Plugin : Capture(p)
  BY <1>3 DEF Capture, ThreadsInv, setupVars, threadVars
<1>4. CASE \E p \in Plugin : Report(p)
  BY <1>4 DEF Report, Process, ThreadsInv, setupVars, threadVars
<1>5. CASE \E s \in Stream : Pop(s) \/ Display(s)
  BY <1>5 DEF Pop, Display, ThreadsInv, pairVars, setupVars, threadVars
<1>6. CASE OpenWindow \/ CloseWindow
  BY <1>6 DEF OpenWindow, CloseWindow, ThreadsInv, pairVars, setupVars, threadVars
<1>7. CASE UNCHANGED vars
  BY <1>7 DEF vars, ThreadsInv, pairVars, setupVars, threadVars
<1> QED
  BY <1>1, <1>2, <1>3, <1>4, <1>5, <1>6, <1>7, StepCases

\* What a capture and a process thread do to their queue.
LEMMA CaptureQueues ==
  ASSUME DeliveryInv, NEW p \in Plugin, Capture(p)
  PROVE  /\ captured' = [captured EXCEPT ![p] = Append(@, Len(@) + 1)]
         /\ comms_q' = [comms_q EXCEPT ![p] = Append(@, [by |-> p, packet |-> Len(captured[p]) + 1])]
         /\ processed' = processed
         /\ Len(captured[p]) + 1 \in 1 .. MaxPackets
<1>1. Len(captured[p]) \in Nat
  BY LenProperties DEF DeliveryInv, PacketsInv
<1> QED
  BY <1>1, RoomForOne DEF Capture, DeliveryInv, ThreadsInv

LEMMA ProcessQueues ==
  ASSUME DeliveryInv, NEW p \in Plugin, Process(p)
  PROVE  /\ captured' = captured
         /\ comms_q[p] # <<>>
         /\ comms_q' = [comms_q EXCEPT ![p] = Tail(@)]
         /\ processed' = [processed EXCEPT ![p] = Append(@, Head(comms_q[p]))]
BY DEF Process, DeliveryInv, ThreadsInv

\* What any step does to the packets.
LEMMA PacketSteps ==
  ASSUME [Next]_vars
  PROVE  \/ \E p \in Plugin : Capture(p)
         \/ \E p \in Plugin : Process(p)
         \/ UNCHANGED packetVars
<1>1. CASE SetupStep
  BY <1>1 DEF SetupStep, AllocateArgs, OpenSession, CompileFilter, SetFilter,
              StartCapture, StartProcess, AppendPair
<1>2. CASE UNCHANGED pairVars
  BY <1>2 DEF pairVars
<1> QED
  BY <1>1, <1>2, StepCases
  DEF MainStep, UseWidget, Pop, Display, OpenWindow, CloseWindow, Report, vars

\* Queues hold packets of their own plugin only.
LEMMA PacketsNextInv == DeliveryInv /\ [Next]_vars => PacketsInv'
<1> SUFFICES ASSUME DeliveryInv, [Next]_vars
             PROVE  PacketsInv'
  OBVIOUS
<1> USE DEF DeliveryInv, PacketsInv
<1>1. ASSUME NEW p \in Plugin, Capture(p)
      PROVE  PacketsInv'
  <2> DEFINE n == Len(captured[p]) + 1
             m == [by |-> p, packet |-> n]
  <2>1. n \in 1 .. MaxPackets
    BY <1>1, CaptureQueues
  <2>2. m \in PacketOf(p) /\ m \in [by : Plugin, packet : 1 .. MaxPackets]
    BY <2>1 DEF PacketOf
  <2>3. Append(captured[p], n) \in Seq(1 .. MaxPackets)
    BY <2>1, AppendProperties
  <2>4. /\ Append(comms_q[p], m) \in Seq(PacketOf(p))
        /\ Append(comms_q[p], m) \in Seq([by : Plugin, packet : 1 .. MaxPackets])
    BY <2>2, AppendProperties
  <2>5. /\ captured' = [captured EXCEPT ![p] = Append(@, n)]
        /\ comms_q' = [comms_q EXCEPT ![p] = Append(@, m)]
        /\ processed' = processed
    BY <1>1, CaptureQueues
  <2> HIDE DEF n, m
  <2> QED
    BY <2>3, <2>4, <2>5
<1>2. ASSUME NEW p \in Plugin, Process(p)
      PROVE  PacketsInv'
  <2> DEFINE q == comms_q[p]
  <2>1. q \in Seq(PacketOf(p)) /\ q # <<>> /\ PacketOf(p) \subseteq [by : Plugin, packet : 1 .. MaxPackets]
    BY <1>2, ProcessQueues DEF PacketOf
  <2>2. Head(q) \in PacketOf(p) /\ Tail(q) \in Seq(PacketOf(p))
    BY <2>1, HeadTailProperties
  <2>3. Tail(q) \in Seq([by : Plugin, packet : 1 .. MaxPackets])
    BY <2>1, <2>2, SeqMonotonic
  <2>4. /\ Append(processed[p], Head(q)) \in Seq(PacketOf(p))
        /\ Append(processed[p], Head(q)) \in Seq([by : Plugin, packet : 1 .. MaxPackets])
    BY <2>1, <2>2, AppendProperties
  <2>5. /\ captured' = captured
        /\ comms_q' = [comms_q EXCEPT ![p] = Tail(q)]
        /\ processed' = [processed EXCEPT ![p] = Append(@, Head(q))]
    BY <1>2, ProcessQueues
  <2> HIDE DEF q
  <2> QED
    BY <2>2, <2>3, <2>4, <2>5
<1>3. CASE UNCHANGED packetVars
  BY <1>3 DEF packetVars
<1> QED
  BY <1>1, <1>2, <1>3, PacketSteps

\* No thread has been started, and no packet captured.
LEMMA DeliveryInitInv == Init => DeliveryInv
BY SessionInitInv, NPluginsAssumption
   DEF Init, PairInit, DeliveryInv, ThreadsInv, PacketsInv, Plugin, PacketOf

THEOREM DeliveryInvariant == Spec => []DeliveryInv
<1>1. DeliveryInv /\ [Next]_vars => DeliveryInv'
  BY SessionNextInv, ThreadsNextInv, PacketsNextInv DEF DeliveryInv
<1> QED
  BY <1>1, DeliveryInitInv, PTL DEF Spec

\* The numbers of the packets a process thread has taken, as PairSetup maps
\* them: none is another plugin's.
LEMMA TakenNumbers ==
  ASSUME NEW p, NEW q \in Seq(PacketOf(p))
  PROVE  [i \in DOMAIN q |-> IF q[i].by = p THEN q[i].packet ELSE 0] = Numbers(q)
<1>1. DOMAIN q = 1 .. Len(q)
  BY LenProperties
<1>2. \A i \in DOMAIN q : q[i] \in PacketOf(p)
  BY <1>1, ElementOfSeq
<1> QED
  BY <1>2 DEF Numbers, PacketOf

\* Every thread pair implements a stream of packets: capturing is a Write and
\* processing a Display of module MessageStream.
THEOREM PacketsKeepOrder == Spec => Packets!Spec
<1> DEFINE Sent == [p \in Plugin |-> Len(captured[p])]
           Queued == [p \in Plugin |-> [i \in DOMAIN comms_q[p] |-> comms_q[p][i].packet]]
           Taken == [p \in Plugin |-> [i \in DOMAIN processed[p] |->
                      IF processed[p][i].by = p THEN processed[p][i].packet ELSE 0]]
<1>1. Init => Packets!Init
  <2> SUFFICES ASSUME Init
               PROVE  Packets!Init
    OBVIOUS
  <2>1. \A p \in Plugin : Sent[p] = 0 /\ Queued[p] = <<>> /\ Taken[p] = <<>>
    BY DEF Init, PairInit
  <2> QED
    BY <2>1 DEF Packets!Init
<1>2. DeliveryInv /\ DeliveryInv' /\ [Next]_vars => [Packets!Next]_(Packets!vars)
  <2> SUFFICES ASSUME DeliveryInv, DeliveryInv', [Next]_vars
               PROVE  [Packets!Next]_(Packets!vars)
    OBVIOUS
  <2>1. \A p \in Plugin : Queued[p] = Numbers(comms_q[p]) /\ Taken[p] = Numbers(processed[p])
    BY TakenNumbers DEF Numbers, DeliveryInv, PacketsInv
  <2>2. \A p \in Plugin : Queued'[p] = Numbers(comms_q'[p]) /\ Taken'[p] = Numbers(processed'[p])
    BY TakenNumbers DEF Numbers, DeliveryInv, PacketsInv
  <2>3. ASSUME NEW p \in Plugin, Capture(p)
        PROVE  Packets!Write(p)
    <3> DEFINE m == [by |-> p, packet |-> Len(captured[p]) + 1]
    <3>1. m \in PacketOf(p) /\ m.packet = Len(captured[p]) + 1
      BY <2>3, CaptureQueues DEF PacketOf
    <3>2. /\ captured' = [captured EXCEPT ![p] = Append(@, Len(@) + 1)]
          /\ comms_q' = [comms_q EXCEPT ![p] = Append(@, m)]
          /\ processed' = processed
      BY <2>3, CaptureQueues
    <3>3. Len(Append(captured[p], Len(captured[p]) + 1)) = Len(captured[p]) + 1
      BY <2>3, CaptureQueues, AppendProperties DEF DeliveryInv, PacketsInv
    <3>4. Numbers(Append(comms_q[p], m)) = Append(Numbers(comms_q[p]), m.packet)
      BY <3>1, NumbersAppend DEF DeliveryInv, PacketsInv
    <3>5. Sent' = [Sent EXCEPT ![p] = @ + 1]
      BY <3>2, <3>3 DEF DeliveryInv, PacketsInv
    <3>6. Queued' = [Queued EXCEPT ![p] = Append(@, Sent[p] + 1)]
      <4>1. \A x \in Plugin : Numbers(comms_q'[x]) =
              IF x = p THEN Append(Numbers(comms_q[p]), Len(captured[p]) + 1)
                       ELSE Numbers(comms_q[x])
        BY <3>1, <3>2, <3>4 DEF DeliveryInv, PacketsInv
      <4>2. \A x \in Plugin : Queued'[x] =
              IF x = p THEN Append(Queued[p], Sent[p] + 1) ELSE Queued[x]
        <5>1. Sent[p] = Len(captured[p])
          OBVIOUS
        <5> HIDE DEF Queued, Sent, Taken
        <5> QED
          BY <2>1, <2>2, <4>1, <5>1
      <4> QED
        BY <4>2
    <3>7. Taken' = Taken
      BY <3>2
    <3> QED
      BY <3>5, <3>6, <3>7 DEF Packets!Write
  <2>4. ASSUME NEW p \in Plugin, Process(p)
        PROVE  Packets!Display(p)
    <3>1. comms_q[p] \in Seq(PacketOf(p)) /\ processed[p] \in Seq(PacketOf(p))
      BY DEF DeliveryInv, PacketsInv
    <3>2. /\ captured' = captured
          /\ comms_q[p] # <<>>
          /\ comms_q' = [comms_q EXCEPT ![p] = Tail(@)]
          /\ processed' = [processed EXCEPT ![p] = Append(@, Head(comms_q[p]))]
      BY <2>4, ProcessQueues
    <3>3. /\ Numbers(comms_q[p]) # <<>>
          /\ Head(Numbers(comms_q[p])) = Head(comms_q[p]).packet
          /\ Numbers(Tail(comms_q[p])) = Tail(Numbers(comms_q[p]))
      BY <3>1, <3>2, NumbersTail
    <3>4. Head(comms_q[p]) \in PacketOf(p)
      BY <3>1, <3>2, HeadTailProperties
    <3>5. Numbers(Append(processed[p], Head(comms_q[p])))
            = Append(Numbers(processed[p]), Head(comms_q[p]).packet)
      BY <3>1, <3>4, NumbersAppend
    <3>6. Queued[p] # <<>>
      BY <2>1, <3>3
    <3>7. Sent' = Sent
      BY <3>2
    <3>8. Queued' = [Queued EXCEPT ![p] = Tail(@)]
      <4>1. \A x \in Plugin : Numbers(comms_q'[x]) =
              IF x = p THEN Tail(Numbers(comms_q[p])) ELSE Numbers(comms_q[x])
        BY <3>2, <3>3 DEF DeliveryInv, PacketsInv
      <4>2. \A x \in Plugin : Queued'[x] = IF x = p THEN Tail(Queued[p]) ELSE Queued[x]
        <5> HIDE DEF Queued, Taken
        <5> QED
          BY <2>1, <2>2, <4>1
      <4> QED
        BY <4>2
    <3>9. Taken' = [Taken EXCEPT ![p] = Append(@, Head(Queued[p]))]
      <4>1. \A x \in Plugin : Numbers(processed'[x]) =
              IF x = p THEN Append(Numbers(processed[p]), Head(Numbers(comms_q[p])))
                       ELSE Numbers(processed[x])
        BY <3>2, <3>3, <3>5 DEF DeliveryInv, PacketsInv
      <4>2. \A x \in Plugin : Taken'[x] =
              IF x = p THEN Append(Taken[p], Head(Queued[p])) ELSE Taken[x]
        <5> HIDE DEF Queued, Taken
        <5> QED
          BY <2>1, <2>2, <4>1
      <4> QED
        BY <4>2
    <3> QED
      BY <3>6, <3>7, <3>8, <3>9 DEF Packets!Display
  <2>5. CASE UNCHANGED packetVars
    BY <2>5 DEF packetVars, Packets!vars
  <2> QED
    BY <2>3, <2>4, <2>5, PacketSteps DEF Packets!Next
<1> QED
  BY <1>1, <1>2, DeliveryInvariant, PTL DEF Spec, Packets!Spec

-----------------------------------------------------------------------------
(* Types                                                                   *)

\* What the other invariants leave open of the types: how many names
\* _zt_fix_weak_syms() has been through, and how the program ends.
RestInv ==
  /\ pc \in SetupPoint \cup LoaderPoint
  /\ mapped \in BOOLEAN
  /\ sym \in 0 .. 4
  /\ pc \in SetupPoint \cup {"dlopen", "shutdown", "init", "manifest"} => sym = 0
  /\ pc = "symbols" => sym \in 0 .. 3
  /\ ended \in {"no", "return", "exit1", "crash"}

\* All steps but the loader's leave it alone.
LEMMA RestNextInv == RestInv /\ [Next]_vars => RestInv'
<1> SUFFICES ASSUME RestInv, [Next]_vars
             PROVE  RestInv'
  OBVIOUS
<1> USE DEF RestInv, SetupPoint, LoaderPoint, Handler, Goto, Exit, loadVars
<1>1. CASE SetupStep /\ UNCHANGED <<loadVars, streamVars>>
  BY <1>1 DEF SetupStep, AllocateArgs, OpenSession, CompileFilter, SetFilter, CloseSession,
              StartCapture, StartProcess, AppendPair, PairGoto, Abort
<1>2. CASE MainStep \/ UseWidget \/ PressEnter \/ LoopExits
  <2>1. Len(weak_symbol_names) = 3
    BY DEF weak_symbol_names
  <2>2. CASE FixWeakSym
    BY <2>1, <2>2 DEF FixWeakSym
  <2>3. CASE FindManifest
    BY <2>3 DEF FindManifest
  <2>4. CASE DlOpen
    BY <2>4 DEF DlOpen
  <2>5. CASE CallInit
    BY <2>5 DEF CallInit
  <2> QED
    BY <1>2, <2>2, <2>3, <2>4, <2>5 DEF MainStep, UseWidget, PressEnter, LoopExits,
       FindShutdown, StartHandler, BindKeys, Return
<1>3. CASE \E p \in Plugin : Capture(p) /\ UNCHANGED <<loadVars, streamVars>>
  BY <1>3 DEF Capture
<1>4. CASE \E p \in Plugin : Report(p)
  BY <1>4 DEF Report, Process
<1>5. CASE \E s \in Stream : Pop(s) \/ Display(s)
  BY <1>5 DEF Pop, Display
<1>6. CASE OpenWindow \/ CloseWindow
  BY <1>6 DEF OpenWindow, CloseWindow
<1>7. CASE UNCHANGED vars
  BY <1>7 DEF vars
<1> QED
  BY <1>1, <1>2, <1>3, <1>4, <1>5, <1>6, <1>7, StepCases

LEMMA RestInvariant == Spec => []RestInv
<1>1. Init => RestInv
  <2> SUFFICES ASSUME Init
               PROVE  RestInv
    OBVIOUS
  <2>1. pc = "alloc" /\ sym = 0 /\ ended = "no"
    BY DEF Init, PairInit
  <2>2. mapped \in BOOLEAN
    BY DEF Init
  <2> QED
    BY <2>1, <2>2 DEF RestInv, SetupPoint, LoaderPoint
<1> QED
  BY <1>1, RestNextInv, PTL DEF Spec

LEMMA StreamInvariant == Spec => []StreamInv
BY StreamInitInv, StreamNextInv, PTL DEF Spec

\* The types of all that the start of the program touches.
THEOREM TypeCorrect == Spec => []TypeOK
<1>1. DeliveryInv => PairTypeOK
  <2> SUFFICES ASSUME DeliveryInv
               PROVE  PairTypeOK
    OBVIOUS
  <2>1. program \subseteq Plugin
    BY DEF DeliveryInv, SessionInv, SetupPoint
  <2>2. Len(pairs) <= NPlugins
    BY NPluginsAssumption DEF DeliveryInv, SessionInv, ThreadsInv
  <2> QED
    BY <2>1, <2>2 DEF DeliveryInv, SessionInv, ThreadsInv, PacketsInv, PairTypeOK
<1>2. StreamInv => \A s \in Stream : queue[s] \in Seq(Nat)
  BY SeqMonotonic DEF StreamInv
<1>3. Len(weak_symbol_names) = 3
  BY DEF weak_symbol_names
<1>4. DeliveryInv /\ FrameworkInv /\ StreamInv /\ RestInv => TypeOK
  BY <1>1, <1>2, <1>3 DEF FrameworkInv, StreamInv, RestInv, TypeOK
<1> QED
  BY <1>4, DeliveryInvariant, FrameworkInvariant, StreamInvariant, RestInvariant, PTL
=============================================================================
