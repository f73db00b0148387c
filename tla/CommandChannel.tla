---------------------------- MODULE CommandChannel ----------------------------
(***************************************************************************)
(* What the command queue to the master thread promises: commands are      *)
(* handled one at a time in the order they were sent, and the receiver     *)
(* stops with the first command of Final, which is the last it handles.    *)
(***************************************************************************)
EXTENDS Sequences

CONSTANTS Sender, Cmd, Final

Message == [from : Sender, cmd : Cmd]

VARIABLES
  pending,   \* sent and not handled, oldest first
  handled,   \* everything handled so far, oldest first
  open       \* the receiver is still serving

vars == <<pending, handled, open>>

Init ==
  /\ pending = <<>>
  /\ handled = <<>>
  /\ open = TRUE

Send ==
  /\ \E m \in Message : pending' = Append(pending, m)
  /\ UNCHANGED <<handled, open>>

Handle ==
  /\ open
  /\ pending # <<>>
  /\ pending' = Tail(pending)
  /\ handled' = Append(handled, Head(pending))
  /\ open' = (Head(pending).cmd \notin Final)

Next == Send \/ Handle

Spec == Init /\ [][Next]_vars

\* Only the last handled command can be final, and it is exactly when the
\* receiver has stopped.
LastIsFinal ==
  /\ \A i \in DOMAIN handled : handled[i].cmd \in Final => i = Len(handled)
  /\ open <=> (\A i \in DOMAIN handled : handled[i].cmd \notin Final)
=============================================================================
