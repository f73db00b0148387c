------------------------------- MODULE Timeouts -------------------------------
(***************************************************************************)
(* The timeouts of both plugins with those of SSDP in their own steps: the *)
(* process thread tells the main thread, builds and sends a discovery      *)
(* datagram (ssdp-util.c), and adapts its timeout, while the mDNS thread   *)
(* has timeouts and messages of its own.  Times are in the units of module *)
(* Boredom, which says what the two together amount to.                    *)
(***************************************************************************)
EXTENDS Integers, Sequences

CONSTANT MaxQuiet   \* bound of the counter of consecutive mDNS timeouts

\* The counter can tell the 33 timeouts after which mDNS's first overflows.
ASSUME MaxQuietAssumption == MaxQuiet \in Nat /\ MaxQuiet >= 33

SSDP_BOREDOM_THRESH == 5
SSDP_BOREDOM_MIN_TIMEOUT == 31250
SSDP_BOREDOM_MAX_TIMEOUT == 14062500

VARIABLES
  pc,              \* control point of process() in ssdp.c
  held,            \* "packet" and "sock" while they are allocated and open
  called,          \* commands sent to the main thread since the last wait
  boredom_level, timeout,
  capped,          \* timeout has been set to the maximum (history)
  mdns_level, mdns_timeout, mdns_quiet   \* as in module Boredom

timeVars == <<boredom_level, timeout, capped>>
probeVars == <<pc, held, called, timeVars>>
mdnsVars == <<mdns_level, mdns_timeout, mdns_quiet>>
vars == <<probeVars, mdnsVars>>

\* Between its two steps below the level of SSDP is not yet counted.
Waits == INSTANCE Boredom
  WITH ssdp_level <- IF pc = "grow" THEN boredom_level - 1 ELSE boredom_level,
       ssdp_timeout <- timeout

Init ==
  /\ pc = "wait"
  /\ held = {}
  /\ called = <<>>
  /\ boredom_level = 0
  /\ timeout = SSDP_BOREDOM_MIN_TIMEOUT
  /\ capped = FALSE
  /\ mdns_level = 0
  /\ mdns_timeout = Waits!MdnsTimeout
  /\ mdns_quiet = 0

\* A packet comes first: nothing of this changes.  Otherwise the main thread
\* is sent MC_KILL_SELF.
TimeOut ==
  /\ pc = "wait"
  /\ called' = <<"MC_KILL_SELF">>
  /\ pc' = "build"
  /\ UNCHANGED <<held, timeVars>>

\* ssdp_build_udp_from_buffer(); the caller gives up when malloc() fails.
BuildDatagram ==
  /\ pc = "build"
  /\ \/ held' = held \cup {"packet"} /\ pc' = "socket"
     \/ pc' = "bored" /\ UNCHANGED held
  /\ UNCHANGED <<called, timeVars>>

\* Fault: the packet is not freed when there is no socket.
OpenSocketLeaks ==
  /\ pc = "socket"
  /\ \/ held' = held \cup {"sock"} /\ pc' = "send"
     \/ pc' = "bored" /\ UNCHANGED held
  /\ UNCHANGED <<called, timeVars>>

OpenSocket ==
  /\ pc = "socket"
  /\ \/ held' = held \cup {"sock"} /\ pc' = "send"
     \/ held' = held \ {"packet"} /\ pc' = "bored"
  /\ UNCHANGED <<called, timeVars>>

\* sendto() succeeds or is reported to have failed.
Send ==
  /\ pc = "send"
  /\ held' = held \ {"packet", "sock"}
  /\ pc' = "bored"
  /\ UNCHANGED <<called, timeVars>>

-----------------------------------------------------------------------------
(* The boredom level                                                       *)

Bored ==
  /\ pc = "bored"
  /\ boredom_level' = boredom_level + 1
  /\ pc' = IF boredom_level' = SSDP_BOREDOM_THRESH THEN "grow" ELSE "wait"
  /\ UNCHANGED <<held, called, timeout, capped>>

\* Doubling the timeout, with a limit above which it is set to the maximum
\* and the main thread is sent 666, which is no command of zt-commands.h.
GrowUpTo(limit, level) ==
  /\ pc = "grow"
  /\ boredom_level' = level
  /\ IF Waits!Doubled(timeout) >= limit
       THEN /\ called' = Append(called, "OTHER")
            /\ timeout' = SSDP_BOREDOM_MAX_TIMEOUT
            /\ capped' = TRUE
       ELSE timeout' = Waits!Doubled(timeout) /\ UNCHANGED <<called, capped>>
  /\ pc' = "wait"
  /\ UNCHANGED held

\* Fault: the limit is the maximum itself, as its name suggests.
GrowAtMaximum == GrowUpTo(SSDP_BOREDOM_MAX_TIMEOUT, 0)

\* Fault: the growth has no limit.
GrowUnlimited == GrowUpTo(Waits!Wrap, 0)

\* Fault: the level is not set back.
GrowKeepsLevel == GrowUpTo(SSDP_BOREDOM_MAX_TIMEOUT \div 4, boredom_level)

\* Fault: the main thread is told of every doubling.
GrowTellsAlways ==
  /\ pc = "grow"
  /\ boredom_level' = 0
  /\ called' = Append(called, "OTHER")
  /\ timeout' = IF Waits!Doubled(timeout) >= SSDP_BOREDOM_MAX_TIMEOUT \div 4
                  THEN SSDP_BOREDOM_MAX_TIMEOUT ELSE Waits!Doubled(timeout)
  /\ capped' = (capped \/ timeout' = SSDP_BOREDOM_MAX_TIMEOUT)
  /\ pc' = "wait"
  /\ UNCHANGED held

Grow == GrowUpTo(SSDP_BOREDOM_MAX_TIMEOUT \div 4, 0)

Probe == TimeOut \/ BuildDatagram \/ OpenSocket \/ Send \/ Bored \/ Grow

\* process() of mdns.c: nothing in its queue in time, or a message.
Mdns ==
  /\ UNCHANGED probeVars
  /\ Waits!MdnsBored \/ Waits!MdnsMessage

Next == (Probe /\ UNCHANGED mdnsVars) \/ Mdns

\* On a quiet network every wait ends in a timeout.
Spec == Init /\ [][Next]_vars /\ WF_vars(Probe /\ UNCHANGED mdnsVars)

-----------------------------------------------------------------------------
(* Properties                                                              *)

\* Whether malloc(), socket() or sendto() fails, a probe gives back its packet
\* and its socket: the thread, which probes for days, waits without either.
ProbeReleases == pc \in {"wait", "build", "bored", "grow"} => held = {}

\* The main thread hears of each timeout once, and of the maximum when it has
\* just been set and at no other time.
ToldOfTimeouts ==
  (pc = "wait" /\ called # <<>>) =>
    called = IF boredom_level = 0 /\ timeout = SSDP_BOREDOM_MAX_TIMEOUT
               THEN <<"MC_KILL_SELF", "OTHER">> ELSE <<"MC_KILL_SELF">>

\* A timeout with all its probing changes level and timeout as module Boredom
\* says, whichever of its calls fail.
ImplementsBoredom == Waits!Spec

\* Once it has overflowed, the SSDP timeout comes back to its maximum, and does
\* not get stuck at zero, where doubling would leave it.
SsdpRecovers == Waits!SsdpRecovers

\* Neither timeout overflows soon: the climb of SSDP's is caught before it can
\* pass its maximum, and mDNS's takes 33 timeouts in a row.
OverflowsLate == Waits!SsdpClimbBounded /\ Waits!MdnsWaitsUnlessQuiet

\* ssdp.h:11 gives the maximum of the timeout, "30 minutes", and ssdp.h:10
\* its minimum.
SsdpWaitInRange == Waits!SsdpWaitInRange
=============================================================================
