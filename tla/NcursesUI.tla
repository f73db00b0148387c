------------------------------ MODULE NcursesUI ------------------------------
(***************************************************************************)
(* The ncurses framework at work: any thread writes messages with ztprint()*)
(* and zterror(), one thread per stream displays them, and the input       *)
(* thread reads keys and runs the commands of zt-builtin.c, whose menus and*)
(* dialogs hold curses_mutex for as long as they are up.                   *)
(***************************************************************************)
EXTENDS Naturals, Sequences

CONSTANTS
  NPlugins,      \* length of the plugin list
  NInterfaces,   \* interfaces ztc_show_interfaces() lists, at most 32
  MaxWrites,     \* bound on the messages the other threads write
  MaxKeys        \* bound on the keys the user presses

ASSUME NPluginsAssumption == NPlugins \in Nat
ASSUME NInterfacesAssumption == NInterfaces \in 0 .. 32
ASSUME BoundsAssumption == MaxWrites \in Nat /\ MaxKeys \in Nat

Stream == {"Stdout", "Stderr"}

\* The display threads are named after their streams.
Thread == Stream \cup {"Input"}

Menu == {"manage_plugins", "manage_interfaces", "show_plugins", "show_interfaces"}
Window == Menu \cup {"dialog"}

\* What picking an item of a menu returns: the command to run next, "value"
\* for a handle the caller only reads, "null" for an item added with NULL.
Items(menu) ==
  CASE menu = "manage_plugins" ->
         <<"show_plugins", "show_plugins", "null", "null", "show_plugins">>
    [] menu = "manage_interfaces" -> <<"show_interfaces", "show_plugins">>
    [] menu = "show_plugins" -> [i \in 1 .. NPlugins |-> "value"]
    [] menu = "show_interfaces" -> [i \in 1 .. NInterfaces |-> "value"]

VARIABLES
  queue,         \* the GAsyncQueues Stdout and Stderr
  sent,          \* messages written to each stream so far
  shown,         \* messages displayed on each stream (history)
  handPc,        \* control point of each display thread
  inHand,        \* out_msg of each display thread, 0 when it has none
  curses_mutex,  \* the thread that holds it, or "free"
  inputPc,       \* control point of the input thread
  window,        \* the window the input thread is working on, or "none"
  item,          \* loop counter of that work
  visible,       \* windows whose panel is not hidden
  result,        \* what the last menu returned
  exitSent,      \* MC_EXIT is in master_q
  writes, keys,  \* counters for the bounds
  ended          \* how the process ended, "no" while it runs

streamVars == <<queue, sent>>
handlerVars == <<shown, handPc, inHand>>
inputVars == <<inputPc, window, item, visible, result, exitSent>>
vars == <<streamVars, handlerVars, curses_mutex, inputVars, writes, keys, ended>>

Init ==
  /\ queue = [s \in Stream |-> <<>>]
  /\ sent = [s \in Stream |-> 0]
  /\ shown = [s \in Stream |-> <<>>]
  /\ handPc = [s \in Stream |-> "pop"]
  /\ inHand = [s \in Stream |-> 0]
  /\ curses_mutex = "free"
  /\ inputPc = "getch"
  /\ window = "none"
  /\ item = 0
  /\ visible = {}
  /\ result = "null"
  /\ exitSent = FALSE
  /\ writes = 0
  /\ keys = 0
  /\ ended = "no"

Acquire(t) == curses_mutex = "free" /\ curses_mutex' = t
Release(t) == curses_mutex = t /\ curses_mutex' = "free"

\* Fault: the message overtakes those that wait.
PushInFront(s) ==
  /\ sent' = [sent EXCEPT ![s] = @ + 1]
  /\ queue' = [queue EXCEPT ![s] = <<sent[s] + 1>> \o @]

\* ztprint() and zterror(): the message goes to the tail of its queue.
Push(s) ==
  /\ sent' = [sent EXCEPT ![s] = @ + 1]
  /\ queue' = [queue EXCEPT ![s] = Append(@, sent[s] + 1)]

-----------------------------------------------------------------------------
(* The other threads: plugins and main()                                   *)

Write(s) ==
  /\ writes < MaxWrites
  /\ Push(s)
  /\ writes' = writes + 1
  /\ UNCHANGED <<handlerVars, curses_mutex, inputVars, keys, ended>>

\* The main thread has got MC_EXIT, unloads and returns from main(); what
\* is still queued is lost.
MainReturns ==
  /\ exitSent
  /\ ended' = "exit"
  /\ UNCHANGED <<streamVars, handlerVars, curses_mutex, inputVars, writes, keys>>

-----------------------------------------------------------------------------
(* Stdout_Handler() and Stderr_Handler()                                   *)

Pop(s) ==
  /\ handPc[s] = "pop"
  /\ queue[s] # <<>>
  /\ inHand' = [inHand EXCEPT ![s] = Head(queue[s])]
  /\ queue' = [queue EXCEPT ![s] = Tail(@)]
  /\ handPc' = [handPc EXCEPT ![s] = "lock"]
  /\ UNCHANGED <<sent, shown, curses_mutex, inputVars, writes, keys, ended>>

\* Fault: a message that finds the screen busy is dropped.
LockScreenTries(s) ==
  /\ handPc[s] = "lock"
  /\ \/ Acquire(s) /\ handPc' = [handPc EXCEPT ![s] = "print"]
     \/ /\ curses_mutex # "free"
        /\ handPc' = [handPc EXCEPT ![s] = "pop"]
        /\ UNCHANGED curses_mutex
  /\ UNCHANGED <<streamVars, shown, inHand, inputVars, writes, keys, ended>>

LockScreen(s) ==
  /\ handPc[s] = "lock"
  /\ Acquire(s)
  /\ handPc' = [handPc EXCEPT ![s] = "print"]
  /\ UNCHANGED <<streamVars, shown, inHand, inputVars, writes, keys, ended>>

\* wprintw() and wrefresh().
Display(s) ==
  /\ handPc[s] = "print"
  /\ shown' = [shown EXCEPT ![s] = Append(@, inHand[s])]
  /\ handPc' = [handPc EXCEPT ![s] = "unlock"]
  /\ UNCHANGED <<streamVars, inHand, curses_mutex, inputVars, writes, keys, ended>>

\* g_mutex_unlock(), then the message is freed.
UnlockScreen(s) ==
  /\ handPc[s] = "unlock"
  /\ Release(s)
  /\ inHand' = [inHand EXCEPT ![s] = 0]
  /\ handPc' = [handPc EXCEPT ![s] = "pop"]
  /\ UNCHANGED <<streamVars, shown, inputVars, writes, keys, ended>>

Handler(s) == Pop(s) \/ LockScreen(s) \/ Display(s) \/ UnlockScreen(s)

-----------------------------------------------------------------------------
(* Input_Handler(): the keys                                               *)

PressKey == keys < MaxKeys /\ keys' = keys + 1

\* F9 and F10 run the command bound to them, whose first call creates a
\* window.
PressCommand(first) ==
  /\ inputPc = "getch"
  /\ PressKey
  /\ inputPc' = "create"
  /\ window' = first
  /\ UNCHANGED <<streamVars, handlerVars, curses_mutex, item, visible, result,
                 writes, ended, exitSent>>

\* 'q' and 'Q' send MC_EXIT to the main thread; the input thread reads on.
PressQuit ==
  /\ inputPc = "getch"
  /\ PressKey
  /\ exitSent' = TRUE
  /\ UNCHANGED <<streamVars, handlerVars, curses_mutex, inputPc, window, item,
                 visible, result, writes, ended>>

\* 't' runs test_func(), whose ztl_string_bag_dump() never leaves its inner
\* loop and writes past its buffer.
PressTest ==
  /\ inputPc = "getch"
  /\ PressKey
  /\ ended' = "crash"
  /\ UNCHANGED <<streamVars, handlerVars, curses_mutex, inputVars, writes>>

PressTab ==
  /\ inputPc = "getch"
  /\ PressKey
  /\ inputPc' = "focus"
  /\ UNCHANGED <<streamVars, handlerVars, curses_mutex, window, item, visible,
                 result, writes, ended, exitSent>>

PressUnbound ==
  /\ inputPc = "getch"
  /\ PressKey
  /\ Push("Stderr")
  /\ UNCHANGED <<handlerVars, curses_mutex, inputVars, writes, ended>>

\* change_stdio_focus() between lock and unlock.
LockFocus ==
  /\ inputPc = "focus"
  /\ Acquire("Input")
  /\ inputPc' = "unfocus"
  /\ UNCHANGED <<streamVars, handlerVars, window, item, visible, result,
                 writes, keys, ended, exitSent>>

\* Fault: the key is handled over and over.
UnlockFocusRepeats ==
  /\ inputPc = "unfocus"
  /\ Release("Input")
  /\ inputPc' = "focus"
  /\ UNCHANGED <<streamVars, handlerVars, window, item, visible, result,
                 writes, keys, ended, exitSent>>

UnlockFocus ==
  /\ inputPc = "unfocus"
  /\ Release("Input")
  /\ inputPc' = "getch"
  /\ UNCHANGED <<streamVars, handlerVars, window, item, visible, result,
                 writes, keys, ended, exitSent>>

-----------------------------------------------------------------------------
(* Menus and dialogs                                                       *)

\* generate_bordered_panel() locks to draw the new window, whose panel it
\* hides again.
LockCreate ==
  /\ inputPc = "create"
  /\ Acquire("Input")
  /\ inputPc' = "created"
  /\ UNCHANGED <<streamVars, handlerVars, window, item, visible, result,
                 writes, keys, ended, exitSent>>

UnlockCreate ==
  /\ inputPc = "created"
  /\ Release("Input")
  /\ inputPc' = CASE window = "show_interfaces" -> "scan"
                  [] window = "dialog" -> "vcat"
                  [] OTHER -> "show"
  /\ item' = 1
  /\ UNCHANGED <<streamVars, handlerVars, window, visible, result, writes, keys, ended, exitSent>>

\* ztc_show_plugins() writes the name and the filter into the new dialog with
\* ztf_dialog_vcat(), which does not take the mutex.
VcatDialog ==
  /\ inputPc = "vcat"
  /\ inputPc' = IF item < 2 THEN "vcat" ELSE "show"
  /\ item' = IF item < 2 THEN item + 1 ELSE 1
  /\ UNCHANGED <<streamVars, handlerVars, curses_mutex, window, visible, result,
                 writes, keys, ended, exitSent>>

\* What comes of the address of an interface.  One without addresses is read
\* through NULL.  inet_ntop() gets no buffer: a short text is written through
\* NULL, a long one is refused, which shows as "<null>".  zt-builtin.c sees no
\* declaration of ztc_sockaddr_toa() and takes its result for an int: whether
\* a pointer survives that depends on the build.
Address == {"none", "inet", "inet6 short", "inet6 long", "other"}

ztc_sockaddr_toa(address) ==
  CASE address = "none" -> {"NULL address"}
    [] address = "inet6 short" -> {"NULL buffer"}
    [] address = "inet6 long" -> {"text"}
    [] address \in {"inet", "other"} -> {"text", "cut pointer"}

\* ztc_show_interfaces() reports each interface it adds to the menu.
ScanInterface ==
  /\ inputPc = "scan"
  /\ item <= NInterfaces
  /\ \E address \in Address : \E outcome \in ztc_sockaddr_toa(address) :
       \/ outcome = "text" /\ Push("Stderr") /\ item' = item + 1 /\ UNCHANGED ended
       \/ outcome # "text" /\ ended' = outcome /\ UNCHANGED <<streamVars, item>>
  /\ UNCHANGED <<handlerVars, curses_mutex, inputPc, window, visible, result,
                 writes, keys, exitSent>>

\* pcap_findalldevs() fails: the command returns.
ScanFails ==
  /\ inputPc = "scan"
  /\ item = 1
  /\ Push("Stderr")
  /\ inputPc' = "getch"
  /\ window' = "none"
  /\ item' = 0
  /\ UNCHANGED <<handlerVars, curses_mutex, visible, result, writes, keys, ended, exitSent>>

ScanDone ==
  /\ inputPc = "scan"
  /\ item > NInterfaces
  /\ inputPc' = "show"
  /\ item' = 1
  /\ UNCHANGED <<streamVars, handlerVars, curses_mutex, window, visible, result,
                 writes, keys, ended, exitSent>>

\* ztf_list_window_show() and ztf_dialog_show() take the mutex for the
\* whole life of the window.
LockWindow ==
  /\ inputPc = "show"
  /\ Acquire("Input")
  /\ inputPc' = "post"
  /\ UNCHANGED <<streamVars, handlerVars, window, item, visible, result,
                 writes, keys, ended, exitSent>>

\* ztf_list_window_show() reports each item with zterror() while it holds
\* the mutex.
PostItem ==
  /\ inputPc = "post"
  /\ window \in Menu
  /\ item <= Len(Items(window))
  /\ Push("Stderr")
  /\ item' = item + 1
  /\ UNCHANGED <<handlerVars, curses_mutex, inputPc, window, visible, result,
                 writes, keys, ended, exitSent>>

\* Fault: the mutex is given back once the window is drawn.
ShowPanelUnlocks ==
  /\ inputPc = "post"
  /\ window \in Menu => item > Len(Items(window))
  /\ Release("Input")
  /\ visible' = visible \cup {window}
  /\ inputPc' = "driver"
  /\ item' = IF window \in Menu /\ Items(window) # <<>> THEN 1 ELSE 0
  /\ UNCHANGED <<streamVars, handlerVars, window, result, writes, keys, ended, exitSent>>

ShowPanel ==
  /\ inputPc = "post"
  /\ window \in Menu => item > Len(Items(window))
  /\ visible' = visible \cup {window}
  /\ inputPc' = "driver"
  /\ item' = IF window \in Menu /\ Items(window) # <<>> THEN 1 ELSE 0
  /\ UNCHANGED <<streamVars, handlerVars, curses_mutex, window, result,
                 writes, keys, ended, exitSent>>

\* nc_menu_driver(): the arrow keys move inside the menu.
PressArrow ==
  /\ inputPc = "driver"
  /\ window \in Menu
  /\ PressKey
  /\ item' \in {i \in DOMAIN Items(window) : i = item + 1 \/ i + 1 = item}
  /\ UNCHANGED <<streamVars, handlerVars, curses_mutex, inputPc, window,
                 visible, result, writes, ended, exitSent>>

\* Enter.
PressSelect ==
  /\ inputPc = "driver"
  /\ PressKey
  /\ result' = IF window \in Menu /\ item # 0 THEN Items(window)[item] ELSE "null"
  /\ inputPc' = "hide"
  /\ UNCHANGED <<streamVars, handlerVars, curses_mutex, window, item, visible,
                 writes, ended, exitSent>>

\* Fault: leaving a window with 'q' does not hide it.
PressCancelLeavesPanel ==
  /\ inputPc = "driver"
  /\ PressKey
  /\ result' = "null"
  /\ inputPc' = "hidden"
  /\ UNCHANGED <<streamVars, handlerVars, curses_mutex, window, item, visible,
                 writes, ended, exitSent>>

\* 'q', and in a dialog 'Q' as well.  The drivers then fall off their end
\* without a return value; what their callers find in its place is the key,
\* which is not ITEM_SELECTED, so the window reports no selection.
PressCancel ==
  /\ inputPc = "driver"
  /\ PressKey
  /\ result' = "null"
  /\ inputPc' = "hide"
  /\ UNCHANGED <<streamVars, handlerVars, curses_mutex, window, item, visible,
                 writes, ended, exitSent>>

HidePanel ==
  /\ inputPc = "hide"
  /\ visible' = visible \ {window}
  /\ inputPc' = "hidden"
  /\ UNCHANGED <<streamVars, handlerVars, curses_mutex, window, item, result,
                 writes, keys, ended, exitSent>>

UnlockWindow ==
  /\ inputPc = "hidden"
  /\ Release("Input")
  /\ inputPc' = "return"
  /\ item' = 0
  /\ UNCHANGED <<streamVars, handlerVars, window, visible, result, writes, keys, ended, exitSent>>

-----------------------------------------------------------------------------
(* zt-builtin.c: what a command does with the answer of its window         *)

\* Fault: whatever a menu returns is run as a command.
FollowingRunsAnything == IF result = "null" THEN "none" ELSE result

\* The windows that follow: a command of a menu of commands, and the dialog
\* for a plugin.
Following ==
  CASE window \in {"manage_plugins", "manage_interfaces"} /\ result # "null" -> result
    [] window = "show_plugins" /\ result # "null" -> "dialog"
    [] OTHER -> "none"

OpenFollowing ==
  /\ inputPc = "return"
  /\ Following # "none"
  /\ window' = Following
  /\ inputPc' = "create"
  /\ UNCHANGED <<streamVars, handlerVars, curses_mutex, item, visible, result,
                 writes, keys, ended, exitSent>>

\* ztc_show_interfaces() tells which interface was selected;
\* it and ztc_manage_interfaces() complain when nothing was.
CommandReturns ==
  /\ inputPc = "return"
  /\ Following = "none"
  /\ CASE window = "show_interfaces" /\ result # "null" -> Push("Stdout")
       [] window \in {"show_interfaces", "manage_interfaces"} /\ result = "null" ->
            Push("Stderr")
       [] OTHER -> UNCHANGED streamVars
  /\ inputPc' = "getch"
  /\ window' = "none"
  /\ result' = "null"
  /\ UNCHANGED <<handlerVars, curses_mutex, item, visible, writes, keys, ended,
                 exitSent>>

-----------------------------------------------------------------------------

UserStep ==
  \/ \E first \in {"manage_plugins", "manage_interfaces"} : PressCommand(first)
  \/ PressQuit \/ PressTest \/ PressTab \/ PressUnbound
  \/ PressArrow \/ PressSelect \/ PressCancel

InputStep ==
  \/ LockFocus \/ UnlockFocus \/ LockCreate \/ UnlockCreate \/ VcatDialog
  \/ ScanInterface \/ ScanFails \/ ScanDone
  \/ LockWindow \/ PostItem \/ ShowPanel \/ HidePanel \/ UnlockWindow
  \/ OpenFollowing \/ CommandReturns

Running ==
  /\ ended = "no"
  /\ \/ \E s \in Stream : Write(s) \/ Handler(s)
     \/ UserStep \/ InputStep \/ MainReturns

\* Every thread waits for a message or a key that does not come: the
\* program is idle, not deadlocked.
Quiescent ==
  /\ inputPc \in {"getch", "driver"}
  /\ keys = MaxKeys
  /\ writes = MaxWrites
  /\ \A s \in Stream :
       \/ handPc[s] = "pop" /\ queue[s] = <<>>
       \/ handPc[s] = "lock" /\ inputPc = "driver"

Idle == (ended # "no" \/ Quiescent) /\ UNCHANGED vars

Next == Running \/ Idle

\* The threads run whenever they can; nothing is assumed of the user, of the
\* other threads' writes, or of the fairness of curses_mutex between waiters.
Fairness ==
  /\ \A s \in Stream : WF_vars(ended = "no" /\ Handler(s))
  /\ WF_vars(ended = "no" /\ InputStep)

Spec == Init /\ [][Next]_vars /\ Fairness

-----------------------------------------------------------------------------
(* Properties                                                              *)

\* Control points of the input thread at which it holds curses_mutex.
InputHolds == {"unfocus", "created", "post", "driver", "hide", "hidden"}

TypeOK ==
  /\ queue \in [Stream -> Seq(Nat)]
  /\ sent \in [Stream -> Nat]
  /\ shown \in [Stream -> Seq(Nat)]
  /\ handPc \in [Stream -> {"pop", "lock", "print", "unlock"}]
  /\ inHand \in [Stream -> Nat]
  /\ curses_mutex \in Thread \cup {"free"}
  /\ inputPc \in InputHolds \cup
       {"getch", "focus", "create", "vcat", "scan", "show", "return"}
  /\ window \in Window \cup {"none"}
  /\ item \in Nat
  /\ visible \subseteq Window
  /\ result \in {"null", "value", "show_plugins", "show_interfaces"}
  /\ exitSent \in BOOLEAN
  /\ writes \in 0 .. MaxWrites
  /\ keys \in 0 .. MaxKeys
  /\ ended \in {"no", "exit", "crash", "NULL address", "NULL buffer", "cut pointer"}

\* ncurses-ztfw.h:18 demands the mutex of anything that refreshes: whoever
\* is at a point that does so holds it, every path gives it back, and no panel
\* is left on the screen when the menus have returned.  ztf_dialog_vcat()
\* writes without it, possibly while another thread has it and prints; it only
\* ever writes into the dialog to come, which is not on the screen and is shown
\* by a refresh under the mutex.
ScreenOwned ==
  /\ \A s \in Stream : handPc[s] \in {"print", "unlock"} <=> curses_mutex = s
  /\ inputPc \in InputHolds <=> curses_mutex = "Input"
  /\ inputPc = "vcat" => window = "dialog"
  /\ visible = IF inputPc \in {"driver", "hide"} THEN {window} ELSE {}

\* A window is modal: no message is displayed over it while it is up.
ModalWindow == [][visible # {} => shown' = shown]_vars

\* Messages on their way to the screen.
InFlight(s) ==
  IF handPc[s] \in {"lock", "print"} THEN <<inHand[s]>> \o queue[s] ELSE queue[s]

\* Each stream delivers every message once and in order, whatever windows
\* open and close in between.
Messages == INSTANCE MessageStream
  WITH waiting <- [s \in Stream |-> InFlight(s)]

ImplementsStream == Messages!Spec

\* The input thread never hangs: from any point it gets back to reading
\* keys, at the top level or in a window, unless the process ends.
InputResponds ==
  inputPc \notin {"getch", "driver"}
    ~> (inputPc \in {"getch", "driver"} \/ ended # "no")

\* If the user closes every window sooner or later, every message is
\* displayed, unless the process ends first.
MessagesDisplayed ==
  []<>(visible = {}) =>
    \A s \in Stream :
      (Len(shown[s]) < sent[s]) ~> (Len(shown[s]) = sent[s] \/ ended # "no")
=============================================================================
