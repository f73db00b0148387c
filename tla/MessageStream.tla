----------------------------- MODULE MessageStream -----------------------------
(***************************************************************************)
(* What ztprint() and zterror() promise their callers: a message written   *)
(* to a stream is displayed once, after every message written to the same  *)
(* stream before it.  A message is its position in the order of writing.   *)
(***************************************************************************)
EXTENDS Naturals, Sequences

CONSTANT Stream

VARIABLES
  sent,      \* number of messages written to each stream
  waiting,   \* messages written and not displayed, oldest first
  shown      \* messages displayed, oldest first

vars == <<sent, waiting, shown>>

Init ==
  /\ sent = [s \in Stream |-> 0]
  /\ waiting = [s \in Stream |-> <<>>]
  /\ shown = [s \in Stream |-> <<>>]

Write(s) ==
  /\ sent' = [sent EXCEPT ![s] = @ + 1]
  /\ waiting' = [waiting EXCEPT ![s] = Append(@, sent[s] + 1)]
  /\ UNCHANGED shown

Display(s) ==
  /\ waiting[s] # <<>>
  /\ shown' = [shown EXCEPT ![s] = Append(@, Head(waiting[s]))]
  /\ waiting' = [waiting EXCEPT ![s] = Tail(@)]
  /\ UNCHANGED sent

Next == \E s \in Stream : Write(s) \/ Display(s)

Spec == Init /\ [][Next]_vars
=============================================================================
