------------------------------- MODULE Boredom -------------------------------
(***************************************************************************)
(* The "boredom" timeouts of the two plugins: how long the process threads *)
(* of ssdp.c and mdns.c wait for a packet before they call it a timeout,   *)
(* each timeout in one step.  Module Timeouts has those of SSDP in detail. *)
(* Both are C ints of microseconds that are doubled with <<=.  All values  *)
(* the code computes are multiples of 128, so they are counted in units of *)
(* 128 microseconds: a 32-bit int wraps at 2^25 units.                     *)
(***************************************************************************)
EXTENDS Integers

CONSTANT MaxQuiet   \* bound of the counter of consecutive mDNS timeouts

SSDP_BOREDOM_THRESH == 5
SSDP_BOREDOM_MIN_TIMEOUT == 31250      \* 4000000 / 128, 4 seconds
SSDP_BOREDOM_MAX_TIMEOUT == 14062500   \* 1800000000 / 128, 30 minutes

BOREDOM_SCALE_THRESH == 3
MdnsTimeout == 15625                   \* 2000000 / 128, 2 seconds

Wrap == 33554432                       \* 2^32 / 128

\* timeout <<= 1 on a two's complement int.
Doubled(t) ==
  LET d == (2 * t) % Wrap
  IN IF d >= Wrap \div 2 THEN d - Wrap ELSE d

\* How long g_async_queue_timeout_pop() waits: a negative int, widened to
\* guint64 and added to the clock, is a deadline in the past.
Wait(t) == IF t < 0 THEN 0 ELSE t

VARIABLES
  ssdp_level, ssdp_timeout,   \* boredom_level and timeout of ssdp.c
  capped,                     \* ssdp_timeout has been set to the maximum (history)
  mdns_level, mdns_timeout,   \* boredom_level and timeout of mdns.c
  mdns_quiet                  \* timeouts since the last message, up to MaxQuiet (history)

ssdpVars == <<ssdp_level, ssdp_timeout, capped>>
mdnsVars == <<mdns_level, mdns_timeout, mdns_quiet>>
vars == <<ssdpVars, mdnsVars>>

Init ==
  /\ ssdp_level = 0
  /\ ssdp_timeout = SSDP_BOREDOM_MIN_TIMEOUT
  /\ capped = FALSE
  /\ mdns_level = 0
  /\ mdns_timeout = MdnsTimeout
  /\ mdns_quiet = 0

\* The pop times out.  (A packet leaves level and timeout as they are.)
SsdpTimeout ==
  LET bored == ssdp_level + 1 = SSDP_BOREDOM_THRESH
      next == Doubled(ssdp_timeout)
      cap == bored /\ next >= SSDP_BOREDOM_MAX_TIMEOUT \div 4
  IN /\ ssdp_level' = IF bored THEN 0 ELSE ssdp_level + 1
     /\ ssdp_timeout' = CASE cap -> SSDP_BOREDOM_MAX_TIMEOUT
                          [] bored /\ ~cap -> next
                          [] OTHER -> ssdp_timeout
     /\ capped' = IF cap THEN TRUE ELSE capped
     /\ UNCHANGED mdnsVars

MdnsBored ==
  LET bored == mdns_level + 1 = BOREDOM_SCALE_THRESH
  IN /\ mdns_level' = IF bored THEN 0 ELSE mdns_level + 1
     /\ mdns_timeout' = IF bored THEN Doubled(mdns_timeout) ELSE mdns_timeout
     /\ mdns_quiet' = IF mdns_quiet < MaxQuiet THEN mdns_quiet + 1 ELSE mdns_quiet
     /\ UNCHANGED ssdpVars

\* Fault: a message resets the level only.
MdnsMessageKeepsTimeout ==
  /\ mdns_level' = 0
  /\ mdns_quiet' = 0
  /\ UNCHANGED <<mdns_timeout, ssdpVars>>

MdnsMessage ==
  /\ mdns_level' = 0
  /\ mdns_timeout' = MdnsTimeout
  /\ mdns_quiet' = 0
  /\ UNCHANGED ssdpVars

Next == SsdpTimeout \/ MdnsBored \/ MdnsMessage

Spec == Init /\ [][Next]_vars

-----------------------------------------------------------------------------
(* Properties                                                              *)

\* Until it is capped for the first time the SSDP timeout climbs from its
\* minimum towards a quarter of its maximum: the test catches the growth
\* before it can pass the maximum, let alone overflow.
SsdpClimbBounded ==
  ~capped =>
    /\ ssdp_timeout >= SSDP_BOREDOM_MIN_TIMEOUT
    /\ ssdp_timeout < SSDP_BOREDOM_MAX_TIMEOUT \div 4

\* A zero timeout would stay zero for ever under doubling: the SSDP thread
\* never gets there, and from a negative one (with which it probes without
\* waiting) it always comes back to the maximum.
SsdpRecovers == (ssdp_timeout < 0) ~> (ssdp_timeout = SSDP_BOREDOM_MAX_TIMEOUT)

\* The mDNS thread waits at all unless it has timed out 33 times in a row:
\* eleven doublings, more than three hours of silence, before the first
\* overflow.
MdnsWaitsUnlessQuiet == Wait(mdns_timeout) = 0 => mdns_quiet >= 33

\* ssdp.h:11 gives the maximum of the timeout, "30 minutes", and ssdp.h:10
\* its minimum.
SsdpWaitInRange ==
  /\ Wait(ssdp_timeout) >= SSDP_BOREDOM_MIN_TIMEOUT
  /\ Wait(ssdp_timeout) <= SSDP_BOREDOM_MAX_TIMEOUT
=============================================================================
