---------------------------- MODULE FrameworkLoader ----------------------------
(***************************************************************************)
(* main() from the thread pairs of module PairSetup to its return: the     *)
(* user's Enter, zt_load_framework() of zt-io.c step by step, and what is  *)
(* done with the framework before and after zt_main_loop().  The process   *)
(* threads run all the time and write messages, which wait in the queues   *)
(* of zt-io.c until the framework displays them.                           *)
(*                                                                         *)
(* A framework is the set of symbols its file defines, the members of its  *)
(* manifest that are not NULL included.                                    *)
(***************************************************************************)
EXTENDS PairSetup

CONSTANT Framework   \* the frameworks argv[2] may name

\* The functions of the manifest that become threads.
Handler == {"_f_stderr", "_f_stdout", "_f_input"}

\* The weak symbols of zt-framework.h, without a definition in the program.
Weak == {"ztf_new_list_window", "ztf_list_window_add", "ztf_list_window_show",
         "ztf_list_window_destroy", "ztf_map_ui_key", "ztf_new_dialog",
         "ztf_dialog_show", "ztf_dialog_vcat"}

\* The weak symbols _zt_fix_weak_syms() looks up.
weak_symbol_names ==
  <<"ztf_new_list_window", "ztf_list_window_show", "ztf_list_window_add">>

\* Those the commands of zt-builtin.c call.
Widget == Weak \ {"ztf_map_ui_key", "ztf_list_window_destroy"}

Symbol == {"shutdown_framework", "init_framework", "fw_manifest"} \cup Handler \cup Weak

ASSUME FrameworkAssumption == Framework \subseteq SUBSET Symbol

Stream == {"Stdout", "Stderr"}

\* The thread that displays a stream.
HandlerOf == [s \in Stream |-> IF s = "Stdout" THEN "_f_stdout" ELSE "_f_stderr"]

VARIABLES
  fw,        \* the framework that is loaded, {} before
  mapped,    \* the framework's file is open
  sym,       \* names _zt_fix_weak_syms() has gone through
  running,   \* the handlers that run as threads
  sent, queue, inHand, shown,  \* per stream: written, queued, popped, displayed
  modal      \* a window of the input thread is up, which holds the screen

loadVars == <<fw, mapped, sym, running>>
streamVars == <<sent, queue, inHand, shown, modal>>
vars == <<pairVars, loadVars, streamVars, pc, ended>>

Init ==
  /\ PairInit
  /\ fw = {}
  /\ mapped = FALSE
  /\ sym = 0
  /\ running = {}
  /\ sent = [s \in Stream |-> 0]
  /\ queue = [s \in Stream |-> <<>>]
  /\ inHand = [s \in Stream |-> 0]
  /\ shown = [s \in Stream |-> <<>>]
  /\ modal = FALSE

\* ztprint() and zterror().
Push(s) ==
  /\ sent' = [sent EXCEPT ![s] = @ + 1]
  /\ queue' = [queue EXCEPT ![s] = Append(@, sent[s] + 1)]
  /\ UNCHANGED <<inHand, shown, modal>>

Exit(how) == ended' = how /\ UNCHANGED <<pc, streamVars>>
Goto(label) == pc' = label /\ UNCHANGED <<streamVars, ended>>

-----------------------------------------------------------------------------
(* The main thread                                                         *)

PressEnter ==
  /\ pc = "enter"
  /\ Goto("dlopen")
  /\ UNCHANGED loadVars

DlOpen ==
  /\ pc = "dlopen"
  /\ \/ mapped' = TRUE /\ fw' \in Framework /\ Goto("shutdown")
     \/ UNCHANGED <<mapped, fw>> /\ Exit("exit1")
  /\ UNCHANGED <<sym, running>>

\* The routine is looked up and demanded; nothing ever calls it.
FindShutdown ==
  /\ pc = "shutdown"
  /\ IF "shutdown_framework" \in fw THEN Goto("init") ELSE Exit("exit1")
  /\ UNCHANGED loadVars

\* Without an init_framework() the loading goes on; a negative result ends
\* the program.
CallInit ==
  /\ pc = "init"
  /\ \/ /\ "init_framework" \notin fw
        /\ Goto("manifest")
        /\ UNCHANGED mapped
     \/ /\ "init_framework" \in fw
        /\ mapped' = FALSE
        /\ Exit("exit1")
     \/ /\ "init_framework" \in fw
        /\ Push("Stdout")
        /\ pc' = "manifest"
        /\ UNCHANGED <<mapped, ended>>
  /\ UNCHANGED <<fw, sym, running>>

\* Fault: the file is closed once the manifest has been found.
FindManifestCloses ==
  /\ pc = "manifest"
  /\ IF "fw_manifest" \in fw THEN Goto("symbols") ELSE Exit("exit1")
  /\ mapped' = FALSE
  /\ UNCHANGED <<fw, sym, running>>

FindManifest ==
  /\ pc = "manifest"
  /\ IF "fw_manifest" \in fw THEN Goto("symbols") ELSE Exit("exit1")
  /\ mapped' = ("fw_manifest" \in fw)
  /\ UNCHANGED <<fw, sym, running>>

\* Fault: the NULL at the end of the names is taken for one of them.
FixWeakSymPastEnd ==
  /\ pc = "symbols"
  /\ Push("Stdout")
  /\ sym' = sym + 1
  /\ pc' = IF sym > Len(weak_symbol_names) THEN "_f_stderr" ELSE "symbols"
  /\ UNCHANGED <<fw, mapped, running, ended>>

\* _zt_fix_weak_syms() prints a heading and, for each of its names, whether
\* the framework has it.
FixWeakSym ==
  /\ pc = "symbols"
  /\ Push("Stdout")
  /\ sym' = sym + 1
  /\ pc' = IF sym = Len(weak_symbol_names) THEN "_f_stderr" ELSE "symbols"
  /\ UNCHANGED <<fw, mapped, running, ended>>

\* Fault: the thread for the errors is forgotten.
StartHandlerSkipsStderr(h, next) ==
  /\ pc = h
  /\ IF mapped /\ h \in fw
       THEN running' = running \cup ({h} \ {"_f_stderr"}) /\ Goto(next)
       ELSE Exit("crash") /\ UNCHANGED running
  /\ UNCHANGED <<fw, mapped, sym>>

\* g_thread_new(); a member of the manifest that is NULL brings the program
\* down.
StartHandler(h, next) ==
  /\ pc = h
  /\ IF mapped /\ h \in fw
       THEN running' = running \cup {h} /\ Goto(next)
       ELSE Exit("crash") /\ UNCHANGED running
  /\ UNCHANGED <<fw, mapped, sym>>

\* main() asks the framework for its codes of F9 and F10.
BindKeys ==
  /\ pc = "keys"
  /\ IF "ztf_map_ui_key" \in fw THEN Goto("up") ELSE Exit("crash")
  /\ UNCHANGED loadVars

\* zt_main_loop() comes back, which main() reports.
LoopExits ==
  /\ pc = "up"
  /\ pc' = "return"
  /\ Push("Stdout")
  /\ UNCHANGED <<loadVars, ended>>

\* The display threads are not waited for, the framework is not shut down.
Return ==
  /\ pc = "return"
  /\ Exit("return")
  /\ UNCHANGED loadVars

MainStep ==
  /\ \/ DlOpen \/ FindShutdown \/ CallInit \/ FindManifest \/ FixWeakSym
     \/ StartHandler("_f_stderr", "_f_stdout") \/ StartHandler("_f_stdout", "_f_input")
     \/ StartHandler("_f_input", "keys") \/ BindKeys \/ Return
  /\ UNCHANGED pairVars

-----------------------------------------------------------------------------
(* The other threads                                                       *)

\* A plugin may report a packet, or that something is wrong with it.
Report(p) ==
  /\ Process(p)
  /\ (\E s \in Stream : Push(s)) \/ UNCHANGED streamVars
  /\ UNCHANGED loadVars

\* Fault: the newest message is taken first.
PopNewest(s) ==
  /\ HandlerOf[s] \in running
  /\ inHand[s] = 0
  /\ queue[s] # <<>>
  /\ inHand' = [inHand EXCEPT ![s] = queue[s][Len(queue[s])]]
  /\ queue' = [queue EXCEPT ![s] = SubSeq(@, 1, Len(@) - 1)]
  /\ UNCHANGED <<pairVars, loadVars, pc, sent, shown, modal, ended>>

Pop(s) ==
  /\ HandlerOf[s] \in running
  /\ inHand[s] = 0
  /\ queue[s] # <<>>
  /\ inHand' = [inHand EXCEPT ![s] = Head(queue[s])]
  /\ queue' = [queue EXCEPT ![s] = Tail(@)]
  /\ UNCHANGED <<pairVars, loadVars, pc, sent, shown, modal, ended>>

\* The handlers of ncurses, the only framework of the repository that gets this
\* far, print under curses_mutex: not while a window is up (module NcursesUI
\* has the details).
Display(s) ==
  /\ inHand[s] # 0
  /\ ~modal
  /\ shown' = [shown EXCEPT ![s] = Append(@, inHand[s])]
  /\ inHand' = [inHand EXCEPT ![s] = 0]
  /\ UNCHANGED <<pairVars, loadVars, pc, sent, queue, modal, ended>>

\* A command shows its window, which keeps the screen until the user leaves it.
OpenWindow ==
  /\ "_f_input" \in running
  /\ pc \in {"up", "return"}
  /\ {"ztf_new_list_window", "ztf_list_window_add", "ztf_list_window_show"} \subseteq fw
  /\ ~modal
  /\ modal' = TRUE
  /\ UNCHANGED <<pairVars, loadVars, pc, sent, queue, inHand, shown, ended>>

CloseWindow ==
  /\ modal
  /\ modal' = FALSE
  /\ UNCHANGED <<pairVars, loadVars, pc, sent, queue, inHand, shown, ended>>

\* A command calls a widget the framework does not have: the weak symbol is
\* NULL.
UseWidget ==
  /\ "_f_input" \in running
  /\ pc \in {"up", "return"}
  /\ Widget \ fw # {}
  /\ Exit("crash")
  /\ UNCHANGED <<pairVars, loadVars>>

Setup == SetupStep /\ UNCHANGED <<loadVars, streamVars>>

Running ==
  /\ ended = "no"
  /\ \/ Setup \/ MainStep \/ UseWidget \/ OpenWindow \/ CloseWindow
     \/ (PressEnter \/ LoopExits) /\ UNCHANGED pairVars
     \/ \E p \in Plugin : (Capture(p) /\ UNCHANGED <<loadVars, streamVars>>) \/ Report(p)
     \/ \E s \in Stream : Pop(s) \/ Display(s)

Ended == ended # "no" /\ UNCHANGED vars

Next == Running \/ Ended

\* The main thread runs but where it waits for the user and for commands, the
\* process threads as long as their queue has something.  A display thread
\* runs as long as it has a message and no window is up; if windows keep
\* coming it may miss the screen each time, for a GMutex promises no turn.
\* Nothing is assumed of the user, who may leave a window up for ever, and of
\* the network.
Fairness ==
  /\ WF_vars(ended = "no" /\ (Setup \/ MainStep))
  /\ \A p \in Plugin : WF_vars(ended = "no" /\ Report(p))
  /\ \A s \in Stream : WF_vars(ended = "no" /\ (Pop(s) \/ Display(s)))

Spec == Init /\ [][Next]_vars /\ Fairness

-----------------------------------------------------------------------------
(* Properties                                                              *)

SetupPoint == {"alloc", "open", "compile", "setfilter", "capture", "process", "pair", "enter"}
LoaderPoint == {"dlopen", "shutdown", "init", "manifest", "symbols", "keys", "up", "return"}
                 \cup Handler

TypeOK ==
  /\ PairTypeOK
  /\ pc \in SetupPoint \cup LoaderPoint
  /\ fw \in Framework \cup {{}}
  /\ mapped \in BOOLEAN
  /\ sym \in 0 .. Len(weak_symbol_names) + 1
  /\ running \subseteq Handler
  /\ sent \in [Stream -> Nat]
  /\ queue \in [Stream -> Seq(Nat)]
  /\ inHand \in [Stream -> Nat]
  /\ shown \in [Stream -> Seq(Nat)]
  /\ modal \in BOOLEAN
  /\ ended \in {"no", "return", "exit1", "crash"}

\* A framework that supplies all the program uses is never the cause of a
\* crash, at the loading or later; one whose manifest lacks a handler, or
\* that has no key codes, never gets as far as zt_main_loop().  The threads of
\* a framework execute code that is mapped and comes from a manifest that was
\* found, also when the loading goes on to fail.
OnlyPartialCrash ==
  /\ running # {} => mapped /\ {"shutdown_framework", "fw_manifest"} \cup running \subseteq fw
  /\ fw = Symbol => ended # "crash"
  /\ pc \in {"up", "return"} => Handler \cup {"ztf_map_ui_key"} \subseteq fw

\* Messages on their way to the screen.
Waiting == [s \in Stream |-> IF inHand[s] = 0 THEN queue[s] ELSE <<inHand[s]>> \o queue[s]]

Messages == INSTANCE MessageStream WITH waiting <- Waiting

\* What is written before, while and after the framework is loaded comes out
\* once and in order; when the program ends it is always the last messages of
\* a stream that are lost, never one from between.
ImplementsStream == Messages!Spec

\* ztsniff.c:132-135 says of the messages that they "will be buffered to be
\* read and displayed once the I/O framework is in place": once the user has
\* pressed Enter every message is displayed, those from before included,
\* unless the program ends, or the user keeps opening windows or leaves one up.
BufferedOutputShown ==
  <>[](~modal) =>
    \A s \in Stream : \A n \in 1 .. MaxPackets :
      (sent[s] >= n /\ pc \in LoaderPoint) ~> (Len(shown[s]) >= n \/ ended # "no")
=============================================================================
