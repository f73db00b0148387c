------------------------------ MODULE Lifecycle ------------------------------
(***************************************************************************)
(* The life of the process: main() of ztsniff.c loads the plugins, starts  *)
(* one capture/process thread pair per plugin, loads the I/O framework,    *)
(* binds the command keys, serves master_q until a command ends the loop,  *)
(* unloads the plugins and returns.  The plugin threads and the input      *)
(* thread of the framework run beside it and are never joined.             *)
(***************************************************************************)
EXTENDS PluginCore

CONSTANTS
  UI,        \* the framework's input thread, as a sender of commands
  MaxSent    \* bound on the commands sent in one run of the program

ASSUME UIAssumption == UI \notin File
ASSUME MaxSentAssumption == MaxSent \in Nat

Sender == File \cup {UI}

\* zt-commands.h; "OTHER" is any value without a case in zt_main_loop().
Cmd == {"MC_KILL_SELF", "MC_KILL_ALL", "MC_EXIT", "OTHER"}

\* The commands that end zt_main_loop().
Final == {"MC_KILL_ALL", "MC_EXIT"}

Key == {"t", "F9", "F10"}

VARIABLES
  mainPc,     \* control point of main()
  paired,     \* number of plugins whose two threads have been started
  cap, proc,  \* state of each plugin's capture and process thread
  uiOn,       \* the framework's threads are running
  headLost,   \* _g_plugin_list has been overwritten with NULL
  bound,      \* keys with a command in _g_key_bindings
  master_q,   \* commands waiting for the main thread
  handled,    \* commands zt_main_loop() has handled (history)
  walk,       \* node ztc_show_plugins() is at, 0 when it is not running
  faulted,    \* a thread used a freed node or the code of a closed plugin
  ended       \* how the process ended, "no" while it runs

threadVars == <<paired, cap, proc, uiOn, headLost, bound, walk>>
queueVars == <<master_q, handled>>
vars == <<loaderVars, mainPc, threadVars, queueVars, faulted, ended>>

Init ==
  /\ LoaderInit
  /\ mainPc = "load"
  /\ paired = 0
  /\ cap = [p \in File |-> "none"]
  /\ proc = [p \in File |-> "none"]
  /\ uiOn = FALSE
  /\ headLost = FALSE
  /\ bound = {}
  /\ master_q = <<>>
  /\ handled = <<>>
  /\ walk = 0
  /\ faulted = FALSE
  /\ ended = "no"

-----------------------------------------------------------------------------
(* The main thread                                                         *)

Load ==
  /\ mainPc = "load"
  /\ LoadPlugins
  /\ mainPc' = IF loadPc' = "ready" THEN "pairs" ELSE "load"
  /\ ended' = IF loadPc' = "exit1" THEN "exit1" ELSE "no"
  /\ UNCHANGED <<threadVars, queueVars, faulted>>

\* malloc() and zt_setup_pcap() may fail, which ends the program even
\* though threads of earlier plugins are running.
StartCapture ==
  /\ mainPc = "pairs"
  /\ paired < Len(plugin_list)
  /\ cap[plugin_list[paired + 1]] = "none"
  /\ \/ /\ ended' = "exit1"
        /\ UNCHANGED cap
     \/ /\ cap' = [cap EXCEPT ![plugin_list[paired + 1]] = "running"]
        /\ UNCHANGED ended
  /\ UNCHANGED <<loaderVars, mainPc, paired, proc, uiOn, headLost, bound, walk,
                 queueVars, faulted>>

\* The capture thread of the plugin is running already.
StartProcess ==
  /\ mainPc = "pairs"
  /\ paired < Len(plugin_list)
  /\ cap[plugin_list[paired + 1]] # "none"
  /\ proc' = [proc EXCEPT ![plugin_list[paired + 1]] = "running"]
  /\ paired' = paired + 1
  /\ UNCHANGED <<loaderVars, mainPc, cap, uiOn, headLost, bound, walk, queueVars,
                 faulted, ended>>

\* Fault: main() goes on before all pairs have been started.
PressEnterEarly ==
  /\ mainPc = "pairs"
  /\ mainPc' = "framework"
  /\ UNCHANGED <<loaderVars, threadVars, queueVars, faulted, ended>>

\* The user presses Enter, getc(stdin).
PressEnter ==
  /\ mainPc = "pairs"
  /\ paired = Len(plugin_list)
  /\ mainPc' = "framework"
  /\ UNCHANGED <<loaderVars, threadVars, queueVars, faulted, ended>>

\* zt_load_framework() starts the input thread before main() binds a key.
\* Its first statement clears sizeof(zt_framework) bytes at the pointer fwork:
\* what else that reaches depends on the build.  With the default of gcc
\* since version 10 (-fno-common) it is pi_list_mutex, which nobody holds,
\* and _g_plugin_list; with older ones the mutex alone.
LoadFramework ==
  /\ mainPc = "framework"
  /\ headLost' \in BOOLEAN
  /\ \/ /\ ended' = "exit1"
        /\ UNCHANGED <<uiOn, mainPc>>
     \/ /\ uiOn' = TRUE
        /\ mainPc' = "bind"
        /\ UNCHANGED ended
  /\ UNCHANGED <<loaderVars, paired, cap, proc, bound, walk, queueVars, faulted>>

BindKey ==
  /\ mainPc = "bind"
  /\ \/ bound = {} /\ bound' = {"t"}
     \/ bound = {"t"} /\ bound' = {"t", "F9"}
     \/ bound = {"t", "F9"} /\ bound' = Key
  /\ mainPc' = IF bound' = Key THEN "loop" ELSE "bind"
  /\ UNCHANGED <<loaderVars, paired, cap, proc, uiOn, headLost, walk, queueVars,
                 faulted, ended>>

\* A turn of the main loop that is left on the commands of stops.
HandleStoppingOn(stops) ==
  /\ mainPc = "loop"
  /\ master_q # <<>>
  /\ master_q' = Tail(master_q)
  /\ handled' = Append(handled, Head(master_q))
  /\ mainPc' = IF Head(master_q).cmd \in stops THEN "unload" ELSE "loop"
  /\ UNCHANGED <<loaderVars, threadVars, faulted, ended>>

\* Fault: the case of MC_KILL_SELF falls through.
HandleCommandFallsThrough == HandleStoppingOn(Final \cup {"MC_KILL_SELF"})

\* Fault: MC_KILL_ALL is only reported, too.
HandleCommandKillAllStays == HandleStoppingOn({"MC_EXIT"})

\* One turn of zt_main_loop(): MC_KILL_SELF and unknown commands are only
\* reported.
HandleCommand ==
  /\ mainPc = "loop"
  /\ master_q # <<>>
  /\ master_q' = Tail(master_q)
  /\ handled' = Append(handled, Head(master_q))
  /\ mainPc' = IF Head(master_q).cmd \in Final THEN "unload" ELSE "loop"
  /\ UNCHANGED <<loaderVars, threadVars, faulted, ended>>

\* The plugins are closed while their threads run: the call that would stop
\* them, unload_thread_pairs(), is commented out.  unload_plugins() reads the
\* head of the list before it tests it.
Unload ==
  /\ mainPc = "unload"
  /\ \/ /\ ~headLost
        /\ UnloadPlugins
        /\ mainPc' = IF loadPc' = "unloaded" THEN "return" ELSE "unload"
        /\ ended' = IF loadPc' = "crash" THEN "crash" ELSE "no"
     \/ /\ headLost
        /\ ended' = "crash"
        /\ UNCHANGED <<loaderVars, mainPc>>
  /\ UNCHANGED <<threadVars, queueVars, faulted>>

Return ==
  /\ mainPc = "return"
  /\ ended' = "return"
  /\ UNCHANGED <<loaderVars, mainPc, threadVars, queueVars, faulted>>

MainStep ==
  \/ Load \/ StartCapture \/ StartProcess \/ LoadFramework \/ BindKey
  \/ HandleCommand \/ Unload \/ Return

-----------------------------------------------------------------------------
(* The other threads                                                       *)

\* Fault: the command overtakes those that wait.
CallInFront(sender, command) ==
  /\ Len(handled) + Len(master_q) < MaxSent
  /\ master_q' = <<[from |-> sender, cmd |-> command]>> \o master_q
  /\ UNCHANGED <<loaderVars, mainPc, threadVars, handled, faulted, ended>>

\* ztl_call_master().
Call(sender, command) ==
  /\ Len(handled) + Len(master_q) < MaxSent
  /\ master_q' = Append(master_q, [from |-> sender, cmd |-> command])
  /\ UNCHANGED <<loaderVars, mainPc, threadVars, handled, faulted, ended>>

\* A process thread talks to the master, as the SSDP plugin does on every
\* timeout.
PluginCall(p) ==
  /\ proc[p] = "running"
  /\ p \in opened
  /\ \E c \in Cmd : Call(p, c)

\* pcap_loop() returns, or a process function does.
ThreadEnds(p) ==
  /\ \/ /\ cap[p] = "running"
        /\ cap' = [cap EXCEPT ![p] = "ended"]
        /\ UNCHANGED proc
     \/ /\ proc[p] = "running"
        /\ p \in opened
        /\ proc' = [proc EXCEPT ![p] = "ended"]
        /\ UNCHANGED cap
  /\ UNCHANGED <<loaderVars, mainPc, paired, uiOn, headLost, bound, walk, queueVars,
                 faulted, ended>>

\* A thread returns into the code of a plugin that has been dlclose()d.
RunUnmapped(p) ==
  /\ p \notin opened
  /\ cap[p] = "running" \/ proc[p] = "running"
  /\ faulted' = TRUE
  /\ ended' = "crash"
  /\ UNCHANGED <<loaderVars, mainPc, threadVars, queueVars>>

\* 'q' or 'Q' in Input_Handler().
PressQuit ==
  /\ uiOn
  /\ walk = 0
  /\ Call(UI, "MC_EXIT")

\* ztc_show_plugins() starts at the head of _g_plugin_list, without the mutex.
OpenPluginList ==
  /\ uiOn
  /\ walk = 0
  /\ bound \cap {"F9", "F10"} # {}
  /\ walk' = IF headLost THEN Len(plugin_list) + 1 ELSE 1
  /\ UNCHANGED <<loaderVars, mainPc, paired, cap, proc, uiOn, headLost, bound,
                 queueVars, faulted, ended>>

\* Reading the node of plugin p, whether or not it is still allocated: a
\* freed node may read as if it were there, or bring the process down.
ReadNode(p) ==
  \/ /\ p \in allocated
     /\ UNCHANGED <<faulted, ended>>
  \/ /\ p \notin allocated
     /\ faulted' = TRUE
     /\ ended' \in {"no", "crash"}

\* One turn of the list loop.
ListNode ==
  /\ walk \in DOMAIN plugin_list
  /\ ReadNode(plugin_list[walk])
  /\ walk' = walk + 1
  /\ UNCHANGED <<loaderVars, mainPc, paired, cap, proc, uiOn, headLost, bound, queueVars>>

\* Fault: the cursor of the walk is not reset.
PickPluginKeepsCursor ==
  /\ walk = Len(plugin_list) + 1
  /\ uiOn
  /\ \/ ~headLost /\ \E i \in DOMAIN plugin_list : ReadNode(plugin_list[i])
     \/ UNCHANGED <<faulted, ended>>
  /\ walk' = walk + 1
  /\ UNCHANGED <<loaderVars, mainPc, paired, cap, proc, uiOn, headLost, bound, queueVars>>

\* The menu is up until the user picks a plugin, whose fields go into a
\* dialog, or cancels.
PickPlugin ==
  /\ walk = Len(plugin_list) + 1
  /\ uiOn
  /\ \/ ~headLost /\ \E i \in DOMAIN plugin_list : ReadNode(plugin_list[i])
     \/ UNCHANGED <<faulted, ended>>
  /\ walk' = 0
  /\ UNCHANGED <<loaderVars, mainPc, paired, cap, proc, uiOn, headLost, bound, queueVars>>

\* 't' runs test_func(), whose ztl_string_bag_dump() never leaves its
\* inner loop and writes past its buffer.
PressTest ==
  /\ uiOn
  /\ walk = 0
  /\ "t" \in bound
  /\ ended' = "crash"
  /\ UNCHANGED <<loaderVars, mainPc, threadVars, queueVars, faulted>>

ThreadStep ==
  \/ \E p \in File : PluginCall(p) \/ ThreadEnds(p) \/ RunUnmapped(p)
  \/ PressQuit \/ OpenPluginList \/ ListNode \/ PickPlugin \/ PressTest

\* Everything stops with the process.
Ended == ended # "no" /\ UNCHANGED vars

Next ==
  \/ ended = "no" /\ (MainStep \/ PressEnter \/ ThreadStep)
  \/ Ended

\* The main thread keeps running as long as it is not blocked.
Fairness == WF_vars(ended = "no" /\ MainStep)

Spec == Init /\ [][Next]_vars /\ Fairness

-----------------------------------------------------------------------------
(* Properties                                                              *)

ThreadState == {"none", "running", "ended"}

TypeOK ==
  /\ LoaderTypeOK
  /\ mainPc \in {"load", "pairs", "framework", "bind", "loop", "unload", "return"}
  /\ paired \in 0 .. Len(plugin_list)
  /\ cap \in [File -> ThreadState]
  /\ proc \in [File -> ThreadState]
  /\ uiOn \in BOOLEAN
  /\ headLost \in BOOLEAN
  /\ bound \subseteq Key
  /\ master_q \in Seq([from : Sender, cmd : Cmd])
  /\ handled \in Seq([from : Sender, cmd : Cmd])
  /\ walk \in 0 .. (Len(plugin_list) + 1)
  /\ faulted \in BOOLEAN
  /\ ended \in {"no", "return", "exit1", "crash"}

\* Control points of main() up to and including zt_main_loop().
Serving == mainPc \in {"load", "pairs", "framework", "bind", "loop"}

\* Until zt_main_loop() ends nothing can dangle: the code of every plugin
\* with a running thread is mapped, so is the tag of the sender of every
\* queued command (zt_main_loop() copies it out of the plugin's image), and
\* every node the input thread walks over is allocated.
ServingSafe ==
  Serving =>
    /\ \A p \in File : (cap[p] = "running" \/ proc[p] = "running") => p \in opened
    /\ \A i \in DOMAIN master_q : master_q[i].from \in opened \cup {UI}
    /\ \A i \in DOMAIN plugin_list : plugin_list[i] \in allocated
    /\ ~faulted

\* What unload_plugins() says of itself, "Close all opened plugin files": it
\* finds them, that is the list survives the loading of the framework.
PluginsReachable ==
  mainPc = "unload" => ~headLost

\* The price of the missing unload_thread_pairs() is paid in the shutdown
\* only: a thread uses freed memory or unmapped code only in a run whose
\* main loop has handled a command that ends it.
FaultOnlyAfterFinal ==
  faulted => \E i \in DOMAIN handled : handled[i].cmd \in Final

\* The interface comes up, and a key can reach the core, only after every
\* loaded plugin has both its threads; no other file ever gets a thread, and
\* no plugin a process thread without a capture thread to feed it.
PairsBeforeUI ==
  /\ \A p \in File : proc[p] # "none" => cap[p] # "none"
  /\ \A p \in File : cap[p] # "none" => \E i \in DOMAIN plugin_list : plugin_list[i] = p
  /\ uiOn => /\ plugin_list # <<>>
             /\ \A i \in DOMAIN plugin_list : proc[plugin_list[i]] # "none"

\* master_q behaves as the command channel: in order, nothing lost, nothing
\* handled after the command that ends the loop.
Channel == INSTANCE CommandChannel
  WITH pending <- master_q, open <- mainPc \notin {"unload", "return"}

ImplementsChannel == Channel!Spec

LastIsFinal == Channel!LastIsFinal

\* A command that ends the loop, once it is queued and the interface is up,
\* ends the process, whatever the plugins keep sending.  (Before that the
\* main thread may wait for Enter, and the command with it, for ever.)
ExitHonoured ==
  (uiOn /\ \E i \in DOMAIN master_q : master_q[i].cmd \in Final) ~> (ended # "no")
=============================================================================
