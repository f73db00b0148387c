----------------------------- MODULE NcursesProofs -----------------------------
(***************************************************************************)
(* Proofs about the ncurses framework, for any number of plugins,          *)
(* interfaces, messages and keys: who holds curses_mutex and what is on    *)
(* the screen meanwhile, that windows are modal, and that messages keep    *)
(* their order.                                                            *)
(***************************************************************************)
EXTENDS NcursesUI, SequenceTheorems, TLAPS

-----------------------------------------------------------------------------
(* The mutex and the windows                                               *)

\* Where the input thread works on a window, from its creation to its return.
InWindow == {"create", "created", "vcat", "scan", "show", "post", "driver",
             "hide", "hidden", "return"}

\* Types of what the input thread keeps.
InputTypes ==
  /\ inputPc \in {"getch", "focus", "unfocus"} \cup InWindow
  /\ window \in Window \cup {"none"}
  /\ inputPc \in InWindow => window \in Window
  /\ item \in Nat
  /\ result \in {"null", "value", "show_plugins", "show_interfaces"}
  /\ exitSent \in BOOLEAN

\* A menu of commands returns commands, and the cursor of a menu stays in it.
MenuAt ==
  /\ inputPc = "driver" /\ window \in Menu /\ item # 0 => item \in DOMAIN Items(window)
  /\ inputPc \in {"hide", "hidden", "return"}
       /\ window \in {"manage_plugins", "manage_interfaces"} => result # "value"

\* Types of what the display threads keep, the messages excepted.
HandlerTypes ==
  /\ handPc \in [Stream -> {"pop", "lock", "print", "unlock"}]
  /\ curses_mutex \in Thread \cup {"free"}

ScreenInv == InputTypes /\ MenuAt /\ HandlerTypes /\ ScreenOwned

\* What the items of a menu stand for.
LEMMA ItemsOfMenus ==
  ASSUME NEW menu \in Menu, NEW i \in DOMAIN Items(menu)
  PROVE  /\ i \in Nat
         /\ Items(menu)[i] \in {"null", "value", "show_plugins", "show_interfaces"}
         /\ menu \in {"manage_plugins", "manage_interfaces"} => Items(menu)[i] # "value"
<1>1. CASE menu = "manage_plugins"
  BY <1>1 DEF Items
<1>2. CASE menu = "manage_interfaces"
  BY <1>2 DEF Items
<1>3. CASE menu = "show_plugins"
  BY <1>3, NPluginsAssumption DEF Items
<1>4. CASE menu = "show_interfaces"
  BY <1>4, NInterfacesAssumption DEF Items
<1> QED
  BY <1>1, <1>2, <1>3, <1>4 DEF Menu

\* A menu with items has a first one.
LEMMA FirstItem ==
  ASSUME NEW menu \in Menu, Items(menu) # <<>>
  PROVE  1 \in DOMAIN Items(menu)
<1>1. CASE menu = "manage_plugins"
  BY <1>1 DEF Items
<1>2. CASE menu = "manage_interfaces"
  BY <1>2 DEF Items
<1>3. CASE menu = "show_plugins"
  <2>1. Items(menu) = [i \in 1 .. NPlugins |-> "value"]
    BY <1>3 DEF Items
  <2>2. NPlugins # 0
    BY <2>1
  <2> QED
    BY <2>1, <2>2, NPluginsAssumption
<1>4. CASE menu = "show_interfaces"
  <2>1. Items(menu) = [i \in 1 .. NInterfaces |-> "value"]
    BY <1>4 DEF Items
  <2>2. NInterfaces # 0
    BY <2>1
  <2> QED
    BY <2>1, <2>2, NInterfacesAssumption
<1> QED
  BY <1>1, <1>2, <1>3, <1>4 DEF Menu

\* Steps of the display threads: each takes the mutex before it prints and
\* gives it back, while the input thread stays where it is.
LEMMA HandlerInv ==
  ASSUME ScreenInv, NEW s \in Stream, Handler(s)
  PROVE  ScreenInv'
<1> USE DEF ScreenInv
<1>1. UNCHANGED <<inputPc, window, item, visible, result, exitSent>>
  BY DEF Handler, Pop, LockScreen, Display, UnlockScreen, inputVars
<1>2. InputTypes' /\ MenuAt'
  BY <1>1 DEF InputTypes, MenuAt
<1>3. \A t \in Stream : t # "Input" /\ t # "free"
  BY DEF Stream
<1>4. HandlerTypes'
  BY DEF Handler, Pop, LockScreen, Display, UnlockScreen, Acquire, Release,
         HandlerTypes, Thread
<1>5. ScreenOwned'
  <2>1. CASE Pop(s)
    BY <1>1, <2>1 DEF Pop, ScreenOwned, HandlerTypes
  <2>2. CASE LockScreen(s)
    <3>1. \A t \in Stream : handPc'[t] \in {"print", "unlock"} <=> curses_mutex' = t
      <4> SUFFICES ASSUME NEW t \in Stream
                   PROVE  handPc'[t] \in {"print", "unlock"} <=> curses_mutex' = t
        OBVIOUS
      <4>1. handPc'[t] = IF t = s THEN "print" ELSE handPc[t]
        BY <2>2 DEF LockScreen, HandlerTypes
      <4>2. handPc[t] \in {"print", "unlock"} <=> curses_mutex = t
        BY DEF ScreenOwned
      <4> QED
        BY <1>3, <2>2, <4>1, <4>2 DEF LockScreen, Acquire
    <3>2. curses_mutex # "Input" /\ curses_mutex' # "Input"
      BY <1>3, <2>2 DEF LockScreen, Acquire
    <3> QED
      BY <1>1, <3>1, <3>2 DEF ScreenOwned
  <2>3. CASE Display(s)
    BY <1>1, <2>3 DEF Display, ScreenOwned, HandlerTypes
  <2>4. CASE UnlockScreen(s)
    <3>1. \A t \in Stream : handPc'[t] \in {"print", "unlock"} <=> curses_mutex' = t
      <4> SUFFICES ASSUME NEW t \in Stream
                   PROVE  handPc'[t] \in {"print", "unlock"} <=> curses_mutex' = t
        OBVIOUS
      <4>1. handPc'[t] = IF t = s THEN "pop" ELSE handPc[t]
        BY <2>4 DEF UnlockScreen, HandlerTypes
      <4>2. handPc[t] \in {"print", "unlock"} <=> curses_mutex = t
        BY DEF ScreenOwned
      <4> QED
        BY <1>3, <2>4, <4>1, <4>2 DEF UnlockScreen, Release
    <3>2. curses_mutex # "Input" /\ curses_mutex' # "Input"
      BY <1>3, <2>4 DEF UnlockScreen, Release
    <3> QED
      BY <1>1, <3>1, <3>2 DEF ScreenOwned
  <2> QED
    BY <2>1, <2>2, <2>3, <2>4 DEF Handler
<1> QED
  BY <1>2, <1>4, <1>5

\* What a step of the input thread may do to the mutex and the panels.
LEMMA InputOwns ==
  ASSUME ScreenOwned, HandlerTypes, UNCHANGED handPc,
         \/ UNCHANGED curses_mutex /\ (inputPc \in InputHolds <=> inputPc' \in InputHolds)
         \/ Acquire("Input") /\ inputPc' \in InputHolds
         \/ Release("Input") /\ inputPc' \notin InputHolds,
         inputPc' = "vcat" => window' = "dialog",
         visible' = IF inputPc' \in {"driver", "hide"} THEN {window'} ELSE {}
  PROVE  ScreenOwned' /\ HandlerTypes'
<1>1. \A t \in Stream : t # "Input" /\ t # "free"
  BY DEF Stream
<1>2. HandlerTypes'
  BY DEF HandlerTypes, Acquire, Release, Thread
<1>3. ASSUME NEW t \in Stream
      PROVE  handPc'[t] \in {"print", "unlock"} <=> curses_mutex' = t
  BY <1>1 DEF ScreenOwned, Acquire, Release
<1>4. inputPc' \in InputHolds <=> curses_mutex' = "Input"
  BY DEF ScreenOwned, Acquire, Release
<1> QED
  BY <1>2, <1>3, <1>4 DEF ScreenOwned

\* The command that follows a menu is a window or none.
LEMMA FollowingWindow ==
  ASSUME InputTypes, MenuAt, inputPc = "return"
  PROVE  Following \in Window \cup {"none"}
BY DEF InputTypes, MenuAt, Following, Window, Menu

\* Every step of the input thread keeps the invariant.
LEMMA InputInv ==
  ASSUME ScreenInv, UserStep \/ InputStep
  PROVE  ScreenInv'
<1> USE DEF ScreenInv, InputTypes, InWindow, handlerVars, inputVars
<1>1. ASSUME NEW first \in {"manage_plugins", "manage_interfaces"}, PressCommand(first)
      PROVE  ScreenInv'
  <2>1. InputTypes' /\ MenuAt'
    BY <1>1 DEF PressCommand, MenuAt, Window, Menu
  <2> QED
    BY <1>1, <2>1, InputOwns DEF PressCommand, ScreenOwned, InputHolds
<1>2. CASE PressQuit
  <2>1. InputTypes' /\ MenuAt'
    BY <1>2 DEF PressQuit, MenuAt, InWindow
  <2> QED
    BY <1>2, <2>1, InputOwns DEF PressQuit, ScreenOwned, InputHolds
<1>3. CASE PressTest
  <2>1. InputTypes' /\ MenuAt'
    BY <1>3 DEF PressTest, MenuAt, InWindow
  <2> QED
    BY <1>3, <2>1, InputOwns DEF PressTest, ScreenOwned, InputHolds
<1>4. CASE PressTab
  <2>1. InputTypes' /\ MenuAt'
    BY <1>4 DEF PressTab, MenuAt, InWindow
  <2> QED
    BY <1>4, <2>1, InputOwns DEF PressTab, ScreenOwned, InputHolds
<1>5. CASE PressUnbound
  <2>1. InputTypes' /\ MenuAt'
    BY <1>5 DEF PressUnbound, MenuAt, InWindow
  <2> QED
    BY <1>5, <2>1, InputOwns DEF PressUnbound, ScreenOwned, InputHolds
<1>6. CASE PressArrow
  <2>1. InputTypes' /\ MenuAt'
    BY <1>6, ItemsOfMenus DEF PressArrow, MenuAt, InWindow
  <2> QED
    BY <1>6, <2>1, InputOwns DEF PressArrow, ScreenOwned, InputHolds
<1>7. CASE PressSelect
  <2>1. InputTypes' /\ MenuAt'
    BY <1>7, ItemsOfMenus DEF PressSelect, MenuAt, InWindow
  <2> QED
    BY <1>7, <2>1, InputOwns DEF PressSelect, ScreenOwned, InputHolds
<1>8. CASE PressCancel
  <2>1. InputTypes' /\ MenuAt'
    BY <1>8 DEF PressCancel, MenuAt, InWindow
  <2> QED
    BY <1>8, <2>1, InputOwns DEF PressCancel, ScreenOwned, InputHolds
<1>9. CASE LockFocus
  <2>1. InputTypes' /\ MenuAt'
    BY <1>9 DEF LockFocus, MenuAt, InWindow
  <2> QED
    BY <1>9, <2>1, InputOwns DEF LockFocus, ScreenOwned, InputHolds
<1>10. CASE UnlockFocus
  <2>1. InputTypes' /\ MenuAt'
    BY <1>10 DEF UnlockFocus, MenuAt, InWindow
  <2> QED
    BY <1>10, <2>1, InputOwns DEF UnlockFocus, ScreenOwned, InputHolds
<1>11. CASE LockCreate
  <2>1. InputTypes' /\ MenuAt'
    BY <1>11 DEF LockCreate, MenuAt, InWindow
  <2> QED
    BY <1>11, <2>1, InputOwns DEF LockCreate, ScreenOwned, InputHolds
<1>12. CASE UnlockCreate
  <2>1. InputTypes' /\ MenuAt'
    BY <1>12 DEF UnlockCreate, MenuAt, InWindow
  <2> QED
    BY <1>12, <2>1, InputOwns DEF UnlockCreate, ScreenOwned, InputHolds
<1>13. CASE ScanInterface
  <2>1. InputTypes' /\ MenuAt'
    BY <1>13 DEF ScanInterface, MenuAt, InWindow
  <2> QED
    BY <1>13, <2>1, InputOwns DEF ScanInterface, ScreenOwned, InputHolds
<1>14. CASE ScanFails
  <2>1. InputTypes' /\ MenuAt'
    BY <1>14 DEF ScanFails, MenuAt, InWindow
  <2> QED
    BY <1>14, <2>1, InputOwns DEF ScanFails, ScreenOwned, InputHolds
<1>15. CASE ScanDone
  <2>1. InputTypes' /\ MenuAt'
    BY <1>15 DEF ScanDone, MenuAt, InWindow
  <2> QED
    BY <1>15, <2>1, InputOwns DEF ScanDone, ScreenOwned, InputHolds
<1>16. CASE LockWindow
  <2>1. InputTypes' /\ MenuAt'
    BY <1>16 DEF LockWindow, MenuAt, InWindow
  <2> QED
    BY <1>16, <2>1, InputOwns DEF LockWindow, ScreenOwned, InputHolds
<1>17. CASE PostItem
  <2>1. InputTypes' /\ MenuAt'
    BY <1>17 DEF PostItem, MenuAt, InWindow
  <2> QED
    BY <1>17, <2>1, InputOwns DEF PostItem, ScreenOwned, InputHolds
<1>18. CASE ShowPanel
  <2>1. InputTypes' /\ MenuAt'
    BY <1>18, FirstItem DEF ShowPanel, MenuAt, InWindow
  <2> QED
    BY <1>18, <2>1, InputOwns DEF ShowPanel, ScreenOwned, InputHolds
<1>19. CASE HidePanel
  <2>1. InputTypes' /\ MenuAt'
    BY <1>19 DEF HidePanel, MenuAt, InWindow
  <2> QED
    BY <1>19, <2>1, InputOwns DEF HidePanel, ScreenOwned, InputHolds
<1>20. CASE UnlockWindow
  <2>1. InputTypes' /\ MenuAt'
    BY <1>20 DEF UnlockWindow, MenuAt, InWindow
  <2> QED
    BY <1>20, <2>1, InputOwns DEF UnlockWindow, ScreenOwned, InputHolds
<1>21. CASE OpenFollowing
  <2>1. InputTypes' /\ MenuAt'
    BY <1>21, FollowingWindow DEF OpenFollowing, MenuAt, InWindow
  <2> QED
    BY <1>21, <2>1, InputOwns DEF OpenFollowing, ScreenOwned, InputHolds
<1>22. CASE CommandReturns
  <2>1. InputTypes' /\ MenuAt'
    BY <1>22 DEF CommandReturns, MenuAt, InWindow
  <2> QED
    BY <1>22, <2>1, InputOwns DEF CommandReturns, ScreenOwned, InputHolds
<1>23. CASE VcatDialog
  <2>1. InputTypes' /\ MenuAt'
    BY <1>23 DEF VcatDialog, MenuAt, InWindow
  <2> QED
    BY <1>23, <2>1, InputOwns DEF VcatDialog, ScreenOwned, InputHolds
<1> QED
  BY <1>1, <1>2, <1>3, <1>4, <1>5, <1>6, <1>7, <1>8, <1>9, <1>10, <1>11, <1>12,
     <1>13, <1>14, <1>15, <1>16, <1>17, <1>18, <1>19, <1>20, <1>21, <1>22, <1>23
  DEF UserStep, InputStep

\* The invariant of the screen is one of every step.
LEMMA ScreenNextInv == ScreenInv /\ [Next]_vars => ScreenInv'
<1> SUFFICES ASSUME ScreenInv, [Next]_vars
             PROVE  ScreenInv'
  OBVIOUS
<1>1. CASE \E s \in Stream : Handler(s)
  BY <1>1, HandlerInv
<1>2. CASE UserStep \/ InputStep
  BY <1>2, InputInv
<1>3. CASE (\E s \in Stream : Write(s)) \/ MainReturns \/ UNCHANGED vars
  <2>1. UNCHANGED <<handPc, curses_mutex, inputPc, window, item, visible, result, exitSent>>
    BY <1>3 DEF Write, MainReturns, vars, handlerVars, inputVars
  <2> QED
    BY <2>1 DEF ScreenInv, InputTypes, MenuAt, HandlerTypes, ScreenOwned
<1> QED
  BY <1>1, <1>2, <1>3 DEF Next, Running, Idle

\* The screen is free at first, and nothing is on it.
LEMMA ScreenInitInv == Init => ScreenInv
<1> SUFFICES ASSUME Init
             PROVE  ScreenInv
  OBVIOUS
<1>1. InputTypes /\ MenuAt
  BY DEF Init, InputTypes, MenuAt, InWindow
<1>2. HandlerTypes
  BY DEF Init, HandlerTypes
<1>3. ScreenOwned
  BY DEF Init, ScreenOwned, InputHolds, Stream
<1> QED
  BY <1>1, <1>2, <1>3 DEF ScreenInv

\* Who refreshes holds the mutex, and what is on the screen is the window in use.
THEOREM ScreenInvariant == Spec => []ScreenInv
BY ScreenInitInv, ScreenNextInv, PTL DEF Spec

\* curses_mutex is held exactly by the thread that refreshes the screen, every
\* path gives it back, and no panel stays on the screen.  The one write without
\* it, ztf_dialog_vcat(), goes into a dialog that is not on the screen.
THEOREM ScreenIsOwned == Spec => []ScreenOwned
<1>1. ScreenInv => ScreenOwned
  BY DEF ScreenInv
<1> QED
  BY <1>1, ScreenInvariant, PTL

\* No message is displayed while a window is up: its thread would need the
\* mutex the input thread holds.
THEOREM WindowsAreModal == Spec => ModalWindow
<1>1. ScreenInv /\ [Next]_vars => [visible # {} => shown' = shown]_vars
  <2> SUFFICES ASSUME ScreenInv, [Next]_vars, visible # {}
               PROVE  shown' = shown
    BY DEF vars, handlerVars
  <2>1. curses_mutex = "Input"
    BY DEF ScreenInv, ScreenOwned, InputHolds
  <2>2. \A s \in Stream : handPc[s] # "print"
    BY <2>1 DEF ScreenInv, ScreenOwned, Stream
  <2>3. CASE \E s \in Stream : Handler(s)
    BY <2>2, <2>3 DEF Handler, Pop, LockScreen, Display, UnlockScreen
  <2>4. CASE (\E s \in Stream : Write(s)) \/ MainReturns \/ UNCHANGED vars
    BY <2>4 DEF Write, MainReturns, vars, handlerVars
  <2>5. CASE UserStep \/ InputStep
    BY <2>5 DEF UserStep, InputStep, PressCommand, PressQuit, PressTest, PressTab,
       PressUnbound, PressArrow, PressSelect, PressCancel, LockFocus, UnlockFocus,
       LockCreate, UnlockCreate, VcatDialog, ScanInterface, ScanFails, ScanDone,
       LockWindow, PostItem, ShowPanel, HidePanel, UnlockWindow, OpenFollowing, CommandReturns,
       handlerVars
  <2> QED
    BY <2>3, <2>4, <2>5 DEF Next, Running, Idle
<1> QED
  BY <1>1, ScreenInvariant, PTL DEF Spec, ModalWindow

-----------------------------------------------------------------------------
(* The messages                                                            *)

\* Types of the messages on their way.
StreamInv ==
  /\ queue \in [Stream -> Seq(Nat)]
  /\ sent \in [Stream -> Nat]
  /\ shown \in [Stream -> Seq(Nat)]
  /\ inHand \in [Stream -> Nat]
  /\ handPc \in [Stream -> {"pop", "lock", "print", "unlock"}]

\* The input thread and main() write at most; they take no message.
LEMMA StreamSteps ==
  ASSUME [Next]_vars
  PROVE  \/ \E s \in Stream : Push(s) /\ UNCHANGED handlerVars
         \/ \E s \in Stream : Handler(s)
         \/ UNCHANGED <<streamVars, handlerVars>>
<1>1. CASE \E s \in Stream : Write(s)
  BY <1>1 DEF Write
<1>2. CASE MainReturns \/ UNCHANGED vars
  BY <1>2 DEF MainReturns, vars
<1>3. CASE UserStep
  BY <1>3 DEF UserStep, PressCommand, PressQuit, PressTest, PressTab, PressUnbound,
     PressArrow, PressSelect, PressCancel, Stream
<1>4. CASE InputStep
  <2>1. CASE ScanInterface \/ ScanFails \/ PostItem \/ CommandReturns
    BY <2>1 DEF ScanInterface, ScanFails, PostItem, CommandReturns, Stream
  <2>2. CASE ~(ScanInterface \/ ScanFails \/ PostItem \/ CommandReturns)
    BY <1>4, <2>2 DEF InputStep, LockFocus, UnlockFocus, LockCreate, UnlockCreate, VcatDialog,
       ScanDone, LockWindow, ShowPanel, HidePanel, UnlockWindow, OpenFollowing
  <2> QED
    BY <2>1, <2>2
<1> QED
  BY <1>1, <1>2, <1>3, <1>4 DEF Next, Running, Idle

\* The messages keep to their types.
LEMMA StreamNextInv == StreamInv /\ [Next]_vars => StreamInv'
<1> SUFFICES ASSUME StreamInv, [Next]_vars
             PROVE  StreamInv'
  OBVIOUS
<1> USE DEF StreamInv
<1>1. ASSUME NEW s \in Stream, Push(s), UNCHANGED handlerVars
      PROVE  StreamInv'
  <2>1. sent[s] + 1 \in Nat /\ queue[s] \in Seq(Nat)
    OBVIOUS
  <2>2. Append(queue[s], sent[s] + 1) \in Seq(Nat)
    BY <2>1, AppendProperties
  <2> QED
    BY <1>1, <2>1, <2>2 DEF Push, handlerVars
<1>2. ASSUME NEW s \in Stream, Pop(s)
      PROVE  StreamInv'
  <2>1. queue[s] \in Seq(Nat) /\ queue[s] # <<>>
    BY <1>2 DEF Pop
  <2>2. Head(queue[s]) \in Nat /\ Tail(queue[s]) \in Seq(Nat)
    BY <2>1, HeadTailProperties
  <2> QED
    BY <1>2, <2>2 DEF Pop
<1>3. ASSUME NEW s \in Stream, LockScreen(s) \/ UnlockScreen(s)
      PROVE  StreamInv'
  <2>1. CASE LockScreen(s)
    <3>1. UNCHANGED <<sent, queue, shown, inHand>>
      BY <2>1 DEF LockScreen, streamVars
    <3>2. handPc' = [handPc EXCEPT ![s] = "print"]
      BY <2>1 DEF LockScreen
    <3> QED
      BY <3>1, <3>2
  <2>2. CASE UnlockScreen(s)
    <3>1. UNCHANGED <<sent, queue, shown>>
      BY <2>2 DEF UnlockScreen, streamVars
    <3>2. /\ handPc' = [handPc EXCEPT ![s] = "pop"]
          /\ inHand' = [inHand EXCEPT ![s] = 0]
      BY <2>2 DEF UnlockScreen
    <3> QED
      BY <3>1, <3>2
  <2> QED
    BY <1>3, <2>1, <2>2
<1>4. ASSUME NEW s \in Stream, Display(s)
      PROVE  StreamInv'
  <2>1. inHand[s] \in Nat /\ shown[s] \in Seq(Nat)
    OBVIOUS
  <2>2. Append(shown[s], inHand[s]) \in Seq(Nat)
    BY <2>1, AppendProperties
  <2> QED
    BY <1>4, <2>2 DEF Display, streamVars
<1>5. CASE UNCHANGED <<streamVars, handlerVars>>
  BY <1>5 DEF streamVars, handlerVars
<1> QED
  BY <1>1, <1>2, <1>3, <1>4, <1>5, StreamSteps DEF Handler

\* What is appended to the tail of a sequence is appended to the whole.
LEMMA AppendBehind ==
  ASSUME NEW q \in Seq(Nat), NEW h \in Nat, NEW m \in Nat
  PROVE  <<h>> \o Append(q, m) = Append(<<h>> \o q, m)
<1>1. <<h>> \in Seq(Nat) /\ <<m>> \in Seq(Nat) /\ <<h>> \o q \in Seq(Nat)
  OBVIOUS
<1>2. Append(q, m) = q \o <<m>>
  BY AppendIsConcat
<1>3. Append(<<h>> \o q, m) = (<<h>> \o q) \o <<m>>
  BY <1>1, AppendIsConcat
<1> QED
  BY <1>1, <1>2, <1>3, ConcatAssociative

\* A message leaves the stream where its thread draws it: writing is a Write,
\* drawing a Display, and what else a thread does with it cannot be seen.
THEOREM MessagesKeepOrder == Spec => ImplementsStream
<1> DEFINE inFlight == [s \in Stream |-> InFlight(s)]
<1> USE DEF StreamInv
<1>1. Init => StreamInv /\ Messages!Init
  BY DEF Init, Messages!Init, InFlight
<1>2. StreamInv /\ [Next]_vars => [Messages!Next]_Messages!vars
  <2> SUFFICES ASSUME StreamInv, [Next]_vars
               PROVE  [Messages!Next]_Messages!vars
    OBVIOUS
  <2>1. ASSUME NEW s \in Stream, Push(s), UNCHANGED handlerVars
        PROVE  Messages!Write(s)
    <3>1. /\ sent' = [sent EXCEPT ![s] = @ + 1]
          /\ queue' = [queue EXCEPT ![s] = Append(@, sent[s] + 1)]
          /\ UNCHANGED <<handPc, inHand, shown>>
      BY <2>1 DEF Push, handlerVars
    <3>2. \A t \in Stream : inFlight'[t] =
            IF t = s THEN Append(inFlight[s], sent[s] + 1) ELSE inFlight[t]
      <4> SUFFICES ASSUME NEW t \in Stream
                   PROVE  inFlight'[t] = IF t = s THEN Append(inFlight[s], sent[s] + 1)
                                                  ELSE inFlight[t]
        OBVIOUS
      <4>1. queue[t] \in Seq(Nat) /\ inHand[t] \in Nat /\ sent[s] + 1 \in Nat
        OBVIOUS
      <4>2. <<inHand[t]>> \o Append(queue[t], sent[s] + 1)
              = Append(<<inHand[t]>> \o queue[t], sent[s] + 1)
        BY <4>1, AppendBehind
      <4>3. queue'[t] = IF t = s THEN Append(queue[s], sent[s] + 1) ELSE queue[t]
        BY <3>1
      <4> QED
        BY <3>1, <4>2, <4>3 DEF InFlight
    <3>3. inFlight' = [inFlight EXCEPT ![s] = Append(@, sent[s] + 1)]
      BY <3>2
    <3> QED
      BY <3>1, <3>3 DEF Messages!Write
  <2>2. ASSUME NEW s \in Stream, Pop(s) \/ LockScreen(s) \/ UnlockScreen(s)
        PROVE  UNCHANGED Messages!vars
    <3>1. UNCHANGED <<sent, shown>>
      BY <2>2 DEF Pop, LockScreen, UnlockScreen, streamVars
    <3>2. CASE Pop(s)
      <4>1. /\ handPc[s] = "pop" /\ queue[s] # <<>> /\ queue[s] \in Seq(Nat)
            /\ inHand' = [inHand EXCEPT ![s] = Head(queue[s])]
            /\ queue' = [queue EXCEPT ![s] = Tail(@)]
            /\ handPc' = [handPc EXCEPT ![s] = "lock"]
        BY <3>2 DEF Pop
      <4>2. <<Head(queue[s])>> \o Tail(queue[s]) = queue[s]
        BY <4>1
      <4>3. inFlight' = inFlight
        BY <4>1, <4>2 DEF InFlight
      <4> QED
        BY <3>1, <4>3 DEF Messages!vars
    <3>3. CASE LockScreen(s)
      <4>1. inFlight' = inFlight
        BY <3>3 DEF LockScreen, InFlight, streamVars
      <4> QED
        BY <3>1, <4>1 DEF Messages!vars
    <3>4. CASE UnlockScreen(s)
      <4>1. inFlight' = inFlight
        BY <3>4 DEF UnlockScreen, InFlight, streamVars
      <4> QED
        BY <3>1, <4>1 DEF Messages!vars
    <3> QED
      BY <2>2, <3>2, <3>3, <3>4
  <2>3. ASSUME NEW s \in Stream, Display(s)
        PROVE  Messages!Display(s)
    <3>1. /\ handPc[s] = "print" /\ queue[s] \in Seq(Nat) /\ inHand[s] \in Nat
          /\ shown' = [shown EXCEPT ![s] = Append(@, inHand[s])]
          /\ handPc' = [handPc EXCEPT ![s] = "unlock"]
          /\ UNCHANGED <<sent, queue, inHand>>
      BY <2>3 DEF Display, streamVars
    <3>2. inFlight[s] = <<inHand[s]>> \o queue[s]
      BY <3>1 DEF InFlight
    <3>3. inFlight[s] # <<>> /\ Head(inFlight[s]) = inHand[s] /\ Tail(inFlight[s]) = queue[s]
      <4>1. \A h \in Nat : \A q \in Seq(Nat) :
              /\ <<h>> \o q # <<>>
              /\ Head(<<h>> \o q) = h
              /\ Tail(<<h>> \o q) = q
        OBVIOUS
      <4>2. /\ <<inHand[s]>> \o queue[s] # <<>>
            /\ Head(<<inHand[s]>> \o queue[s]) = inHand[s]
            /\ Tail(<<inHand[s]>> \o queue[s]) = queue[s]
        BY ONLY <3>1, <4>1
      <4> QED
        BY ONLY <3>2, <4>2
    <3>4. inFlight' = [inFlight EXCEPT ![s] = Tail(@)]
      BY <3>1, <3>3 DEF InFlight
    <3> QED
      BY <3>1, <3>3, <3>4 DEF Messages!Display
  <2>4. CASE UNCHANGED <<streamVars, handlerVars>>
    BY <2>4 DEF streamVars, handlerVars, Messages!vars, InFlight
  <2> QED
    BY <2>1, <2>2, <2>3, <2>4, StreamSteps DEF Messages!Next, Handler
<1> QED
  BY <1>1, <1>2, StreamNextInv, PTL DEF Spec, ImplementsStream, Messages!Spec
-----------------------------------------------------------------------------
(* The types of all variables                                              *)

\* The counters that bound the model, and how the process may end.
BoundsInv ==
  /\ writes \in 0 .. MaxWrites
  /\ keys \in 0 .. MaxKeys
  /\ ended \in {"no", "exit", "crash", "NULL address", "NULL buffer", "cut pointer"}

\* A counter below its bound can be counted up.
LEMMA CountUp ==
  ASSUME NEW n \in Nat, NEW k \in 0 .. n, k < n
  PROVE  k + 1 \in 0 .. n
OBVIOUS

\* What any step does to the bounds.
LEMMA BoundsNextInv == BoundsInv /\ [Next]_vars => BoundsInv'
<1> SUFFICES ASSUME BoundsInv, [Next]_vars
             PROVE  BoundsInv'
  OBVIOUS
<1> USE DEF BoundsInv
<1>0. MaxWrites \in Nat /\ MaxKeys \in Nat
  BY BoundsAssumption
<1>1. ASSUME NEW s \in Stream, Write(s)
      PROVE  BoundsInv'
  <2>1. writes < MaxWrites /\ writes' = writes + 1 /\ UNCHANGED <<keys, ended>>
    BY <1>1 DEF Write
  <2>2. writes' \in 0 .. MaxWrites
    BY <1>0, <2>1, CountUp
  <2> QED
    BY <2>1, <2>2
<1>2. ASSUME NEW s \in Stream, Handler(s)
      PROVE  BoundsInv'
  BY <1>2 DEF Handler, Pop, LockScreen, Display, UnlockScreen
<1>3. CASE UserStep
  <2>1. /\ keys < MaxKeys /\ keys' = keys + 1 /\ UNCHANGED writes
        /\ ended' \in {ended, "crash"}
    BY <1>3 DEF UserStep, PressCommand, PressQuit, PressTest, PressTab, PressUnbound,
                PressArrow, PressSelect, PressCancel, PressKey
  <2>2. keys' \in 0 .. MaxKeys
    BY <1>0, <2>1, CountUp
  <2> QED
    BY <2>1, <2>2
<1>4. CASE ScanInterface
  BY <1>4 DEF ScanInterface, ztc_sockaddr_toa, Address
<1>5. CASE InputStep /\ ~ScanInterface
  BY <1>5 DEF InputStep, LockFocus, UnlockFocus, LockCreate, UnlockCreate, VcatDialog,
              ScanFails, ScanDone, LockWindow, PostItem, ShowPanel, HidePanel, UnlockWindow,
              OpenFollowing, CommandReturns
<1>6. CASE MainReturns
  BY <1>6 DEF MainReturns
<1>7. CASE UNCHANGED vars
  BY <1>7 DEF vars
<1> QED
  BY <1>1, <1>2, <1>3, <1>4, <1>5, <1>6, <1>7 DEF Next, Running, Idle, InputStep

\* Every variable of the framework keeps to its type, for any number of
\* plugins, interfaces, messages and keys.
THEOREM TypeCorrect == Spec => []TypeOK
<1>1. Init => StreamInv /\ BoundsInv
  BY BoundsAssumption DEF Init, StreamInv, BoundsInv
<1>2. ScreenInv => visible \subseteq Window
  BY DEF ScreenInv, ScreenOwned, InputTypes, InWindow
<1>3. ScreenInv /\ StreamInv /\ BoundsInv => TypeOK
  BY <1>2 DEF ScreenInv, InputTypes, InWindow, InputHolds, HandlerTypes, StreamInv,
              BoundsInv, TypeOK
<1> QED
  BY <1>1, <1>3, ScreenInvariant, StreamNextInv, BoundsNextInv, PTL DEF Spec
=============================================================================
