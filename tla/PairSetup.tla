------------------------------- MODULE PairSetup -------------------------------
(***************************************************************************)
(* The loop of main() that gives each loaded plugin a packet queue, a      *)
(* filtered pcap session and two threads (ztsniff.c, zt_setup_pcap() of    *)
(* plugin-core.c, pcapwrap.c), while the threads of the plugins before it  *)
(* are already capturing and processing.  Module FrameworkLoader has what  *)
(* main() does next, and the specification of both.                        *)
(***************************************************************************)
EXTENDS Naturals, Sequences, FiniteSets

CONSTANTS
  NPlugins,     \* length of the plugin list
  MaxPackets    \* bound on the packets captured

\* load_plugins() ends the program unless a plugin has been loaded.
ASSUME NPluginsAssumption == NPlugins \in Nat \ {0}
ASSUME MaxPacketsAssumption == MaxPackets \in Nat

\* A plugin is its position in the list; its queue and its session go by the
\* same number, 0 is a pointer that was never set.
Plugin == 1 .. NPlugins

VARIABLES
  ztp,         \* the plugin main() is at
  pc,          \* control point of main() and what it calls
  session,     \* state of each session: "none", "open" or "filtered"
  program,     \* sessions whose compiled filter is allocated
  cap_args, proc_args,   \* the arguments of the threads
  capturing, processing, \* plugins whose threads run
  pairs,       \* _g_thread_pairs
  captured,    \* packets each plugin's filter has let through
  comms_q,     \* the queues
  processed,   \* packets each process thread has popped
  ended

setupVars == <<session, program, cap_args, proc_args, pairs>>
threadVars == <<capturing, processing>>
packetVars == <<captured, comms_q, processed>>
pairVars == <<ztp, setupVars, threadVars, packetVars>>

PairInit ==
  /\ ztp = 1
  /\ pc = "alloc"
  /\ session = [p \in Plugin |-> "none"]
  /\ program = {}
  /\ cap_args = [p \in Plugin |-> [packet_q |-> 0, pcap_h |-> 0]]
  /\ proc_args = [p \in Plugin |-> [packet_q |-> 0]]
  /\ capturing = {}
  /\ processing = {}
  /\ pairs = <<>>
  /\ captured = [p \in Plugin |-> <<>>]
  /\ comms_q = [p \in Plugin |-> <<>>]
  /\ processed = [p \in Plugin |-> <<>>]
  /\ ended = "no"

PairGoto(label) == pc' = label /\ UNCHANGED <<ztp, ended>>
Abort == ended' = "exit1" /\ UNCHANGED <<ztp, pc>>

-----------------------------------------------------------------------------
(* The main thread                                                         *)

\* The queue and three times malloc().
AllocateArgs ==
  /\ pc = "alloc"
  /\ PairGoto("open") \/ Abort
  /\ UNCHANGED <<setupVars, threadVars, packetVars>>

OpenSession ==
  /\ pc = "open"
  /\ \/ session' = [session EXCEPT ![ztp] = "open"] /\ PairGoto("compile")
     \/ UNCHANGED session /\ Abort
  /\ UNCHANGED <<program, cap_args, proc_args, pairs, threadVars, packetVars>>

\* A failure of set_session_filter() closes the session.
CloseSession == session' = [session EXCEPT ![ztp] = "none"] /\ Abort

CompileFilter ==
  /\ pc = "compile"
  /\ \/ program' = program \cup {ztp} /\ PairGoto("setfilter") /\ UNCHANGED session
     \/ CloseSession /\ UNCHANGED program
  /\ UNCHANGED <<cap_args, proc_args, pairs, threadVars, packetVars>>

\* Fault: the result of pcap_setfilter() is not looked at.
SetFilterUnchecked ==
  /\ pc = "setfilter"
  /\ session' \in {session, [session EXCEPT ![ztp] = "filtered"]}
  /\ program' = program \ {ztp}
  /\ PairGoto("capture")
  /\ UNCHANGED <<cap_args, proc_args, pairs, threadVars, packetVars>>

\* The compiled filter is freed when it has been set, and only then.
SetFilter ==
  /\ pc = "setfilter"
  /\ \/ /\ session' = [session EXCEPT ![ztp] = "filtered"]
        /\ program' = program \ {ztp}
        /\ PairGoto("capture")
     \/ CloseSession /\ UNCHANGED program
  /\ UNCHANGED <<cap_args, proc_args, pairs, threadVars, packetVars>>

\* The capture thread runs before its plugin has a process thread.
StartCapture ==
  /\ pc = "capture"
  /\ cap_args' = [cap_args EXCEPT ![ztp] = [packet_q |-> ztp, pcap_h |-> ztp]]
  /\ capturing' = capturing \cup {ztp}
  /\ PairGoto("process")
  /\ UNCHANGED <<session, program, proc_args, pairs, processing, packetVars>>

\* Fault: the threads of all pairs read from the first queue.
StartProcessFirstQueue ==
  /\ pc = "process"
  /\ proc_args' = [proc_args EXCEPT ![ztp].packet_q = 1]
  /\ processing' = processing \cup {ztp}
  /\ PairGoto("pair")
  /\ UNCHANGED <<session, program, cap_args, pairs, capturing, packetVars>>

StartProcess ==
  /\ pc = "process"
  /\ proc_args' = [proc_args EXCEPT ![ztp].packet_q = ztp]
  /\ processing' = processing \cup {ztp}
  /\ PairGoto("pair")
  /\ UNCHANGED <<session, program, cap_args, pairs, capturing, packetVars>>

AppendPair ==
  /\ pc = "pair"
  /\ pairs' = Append(pairs, [parent_pi |-> ztp, comm_queue |-> ztp])
  /\ ztp' = ztp + 1
  /\ pc' = IF ztp = NPlugins THEN "enter" ELSE "alloc"
  /\ UNCHANGED <<session, program, cap_args, proc_args, threadVars,
                 packetVars, ended>>

SetupStep ==
  \/ AllocateArgs \/ OpenSession \/ CompileFilter \/ SetFilter
  \/ StartCapture \/ StartProcess \/ AppendPair

-----------------------------------------------------------------------------
(* The threads                                                             *)

\* The packets captured by all plugins.
AllCaptured == {c \in Plugin \X (1 .. MaxPackets) : c[2] <= Len(captured[c[1]])}

\* pcap_loop() in zt_capture_stub() hands a packet to the plugin, whose
\* capture() queues it.
Capture(p) ==
  /\ p \in capturing
  /\ Cardinality(AllCaptured) < MaxPackets
  /\ LET packet == Len(captured[p]) + 1
     IN /\ captured' = [captured EXCEPT ![p] = Append(@, packet)]
        /\ comms_q' = [comms_q EXCEPT ![cap_args[p].packet_q] =
                         Append(@, [by |-> p, packet |-> packet])]
  /\ UNCHANGED <<ztp, pc, setupVars, threadVars, processed, ended>>

Process(p) ==
  /\ p \in processing
  /\ LET q == proc_args[p].packet_q
     IN /\ comms_q[q] # <<>>
        /\ processed' = [processed EXCEPT ![p] = Append(@, Head(comms_q[q]))]
        /\ comms_q' = [comms_q EXCEPT ![q] = Tail(@)]
  /\ UNCHANGED <<ztp, pc, setupVars, threadVars, captured, ended>>

-----------------------------------------------------------------------------
(* Properties                                                              *)

PairTypeOK ==
  /\ ztp \in 1 .. (NPlugins + 1)
  /\ session \in [Plugin -> {"none", "open", "filtered"}]
  /\ program \subseteq Plugin
  /\ cap_args \in [Plugin -> [packet_q : {0} \cup Plugin, pcap_h : {0} \cup Plugin]]
  /\ proc_args \in [Plugin -> [packet_q : {0} \cup Plugin]]
  /\ capturing \subseteq Plugin
  /\ processing \subseteq Plugin
  /\ Len(pairs) <= NPlugins
  /\ captured \in [Plugin -> Seq(1 .. MaxPackets)]
  /\ comms_q \in [Plugin -> Seq([by : Plugin, packet : 1 .. MaxPackets])]
  /\ processed \in [Plugin -> Seq([by : Plugin, packet : 1 .. MaxPackets])]

\* No thread captures without its filter, however the setup of its own or of
\* a later session went.  And what main() gives up it closes: whatever ends
\* the program, the sessions that are open are those of the threads that run.
\* The compiled filter is left behind only by a failing pcap_setfilter().
SessionsAccounted ==
  /\ \A p \in capturing : session[cap_args[p].pcap_h] = "filtered"
  /\ ended # "no" => {p \in Plugin : session[p] # "none"} = capturing
  /\ program # {} => program = {ztp} /\ pc = "setfilter"

\* A thread pair as a stream of packets; a packet of another plugin is none of
\* the stream's.
Packets == INSTANCE MessageStream
  WITH Stream <- Plugin,
       sent <- [p \in Plugin |-> Len(captured[p])],
       waiting <- [p \in Plugin |-> [i \in DOMAIN comms_q[p] |-> comms_q[p][i].packet]],
       shown <- [p \in Plugin |-> [i \in DOMAIN processed[p] |->
                   IF processed[p][i].by = p THEN processed[p][i].packet ELSE 0]]

\* Each process thread gets its own plugin's packets, all of them in order,
\* those that were captured before it was started included, and in the end,
\* however the setup of later plugins goes and however long main() waits,
\* unless the program ends.
PacketsDelivered ==
  /\ Packets!Spec
  /\ \A p \in Plugin : \A n \in 1 .. MaxPackets :
       Len(captured[p]) >= n ~> (Len(processed[p]) >= n \/ ended # "no")
=============================================================================
