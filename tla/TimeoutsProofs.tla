---------------------------- MODULE TimeoutsProofs ----------------------------
(***************************************************************************)
(* Proofs about the timeouts of both plugins: what a probe holds and what  *)
(* the main thread is told, which values the timeouts take, and that a     *)
(* timeout with all its steps is one of module Boredom.                    *)
(***************************************************************************)
EXTENDS Timeouts, SequenceTheorems, TLAPS

\* The values of the SSDP timeout before it is set to the maximum.
Climb == {31250, 62500, 125000, 250000, 500000, 1000000, 2000000}

\* And from then on: the maximum, and its doublings, both of which overflow.
Plateau == {14062500, -5429432, -10858864}

ProbeTypes ==
  /\ pc \in {"wait", "build", "socket", "send", "bored", "grow"}
  /\ boredom_level \in 0 .. SSDP_BOREDOM_THRESH
  /\ capped \in BOOLEAN
  /\ capped => timeout \in Plateau
  /\ ~capped => timeout \in Climb

\* What a probe has in its hands at each of its points.
HeldAt ==
  /\ pc = "socket" => held = {"packet"}
  /\ pc = "send" => held = {"packet", "sock"}
  /\ pc \notin {"socket", "send"} => held = {}

\* The level is below its threshold but when the timeout is about to grow, and
\* the main thread has been told of the timeout, and of nothing else yet.
ToldAt ==
  /\ boredom_level = SSDP_BOREDOM_THRESH <=> pc = "grow"
  /\ pc # "wait" => called = <<"MC_KILL_SELF">>
  /\ ToldOfTimeouts

ProbeInv == ProbeTypes /\ HeldAt /\ ToldAt

-----------------------------------------------------------------------------
(* What the operators of Boredom compute                                   *)

\* Reducing a number less than one turn away from the range.
LEMMA ModOnce ==
  ASSUME NEW w \in Int, w > 0, NEW d \in Int, -w <= d, d < w
  PROVE  d % w = IF d < 0 THEN d + w ELSE d
<1>1. CASE d < 0
  BY <1>1, SMT
<1>2. CASE d >= 0
  BY <1>2, SMT
<1> QED
  BY <1>1, <1>2, SMT

\* Doubling a positive int: one that is too large becomes negative.
LEMMA DoubledPositive ==
  ASSUME NEW t \in Int, 0 <= t, t < 16777216
  PROVE  Waits!Doubled(t) = IF t >= 8388608 THEN 2 * t - 33554432 ELSE 2 * t
<1>1. (2 * t) % Waits!Wrap = 2 * t
  BY ModOnce, SMT DEF Waits!Wrap
<1>2. Waits!Wrap \div 2 = 16777216 /\ Waits!Wrap = 33554432
  BY SMT DEF Waits!Wrap
<1>3. Waits!Doubled(t) = IF 2 * t >= 16777216 THEN 2 * t - 33554432 ELSE 2 * t
  BY <1>1, <1>2, SMT DEF Waits!Doubled
<1> QED
  BY <1>3, SMT

\* And a negative one: one that is too small becomes positive.
LEMMA DoubledNegative ==
  ASSUME NEW t \in Int, -16777216 <= t, t < 0
  PROVE  Waits!Doubled(t) = IF t < -8388608 THEN 2 * t + 33554432 ELSE 2 * t
<1>1. (2 * t) % Waits!Wrap = 2 * t + Waits!Wrap
  BY ModOnce, SMT DEF Waits!Wrap
<1>2. Waits!Wrap \div 2 = 16777216 /\ Waits!Wrap = 33554432
  BY SMT DEF Waits!Wrap
<1>3. Waits!Doubled(t) = IF 2 * t + 33554432 >= 16777216
                           THEN 2 * t ELSE 2 * t + 33554432
  BY <1>1, <1>2, SMT DEF Waits!Doubled
<1> QED
  BY <1>3, SMT

\* Doubling the values the SSDP timeout takes.
LEMMA Doublings ==
  /\ \A t \in Climb : Waits!Doubled(t) = 2 * t
  /\ Waits!Doubled(14062500) = -5429432
  /\ Waits!Doubled(-5429432) = -10858864
  /\ Waits!Doubled(-10858864) = 11836704
<1>1. \A t \in Climb : Waits!Doubled(t) = 2 * t
  BY DoubledPositive, SMT DEF Climb
<1>2. Waits!Doubled(14062500) = -5429432
  BY DoubledPositive, SMT
<1>3. Waits!Doubled(-5429432) = -10858864
  BY DoubledNegative, SMT
<1>4. Waits!Doubled(-10858864) = 11836704
  BY DoubledNegative, SMT
<1> QED
  BY <1>1, <1>2, <1>3, <1>4, SMT

\* Appending to a sequence of one element.
LEMMA AppendToOne ==
  ASSUME NEW x, NEW y
  PROVE  Append(<<x>>, y) = <<x, y>>
<1> DEFINE S == {x, y}
           a == Append(<<x>>, y)
           b == <<x, y>>
<1>1. a \in Seq(S) /\ Len(a) = 2 /\ a[1] = x /\ a[2] = y
  BY AppendProperties
<1>2. b \in Seq(S) /\ Len(b) = 2 /\ b[1] = x /\ b[2] = y
  OBVIOUS
<1> HIDE DEF a, b
<1>3. \A i \in 1 .. Len(a) : a[i] = b[i]
  BY <1>1, <1>2
<1>4. a = b
  BY <1>1, <1>2, <1>3, SeqEqual
<1> QED
  BY <1>4 DEF a, b

-----------------------------------------------------------------------------
(* A probe and the SSDP timeout                                            *)

\* The thread starts at the minimum and with nothing.
LEMMA ProbeInitInv == Init => ProbeInv
<1> SUFFICES ASSUME Init
             PROVE  ProbeInv
  OBVIOUS
<1>1. ProbeTypes
  <2>1. capped \in BOOLEAN /\ ~capped
    BY DEF Init
  <2>2. timeout \in Climb
    BY SMT DEF Init, Climb, SSDP_BOREDOM_MIN_TIMEOUT
  <2>3. pc = "wait" /\ boredom_level \in 0 .. SSDP_BOREDOM_THRESH
    BY SMT DEF Init, SSDP_BOREDOM_THRESH
  <2> QED
    BY <2>1, <2>2, <2>3 DEF ProbeTypes
<1>2. HeldAt
  BY DEF Init, HeldAt
<1>3. ToldAt
  BY SMT DEF Init, ToldAt, ToldOfTimeouts, SSDP_BOREDOM_THRESH
<1> QED
  BY <1>1, <1>2, <1>3 DEF ProbeInv

\* What a timeout that has reached the threshold makes of itself.
LEMMA GrowInv ==
  ASSUME ProbeInv, Grow
  PROVE  ProbeInv'
<1> USE DEF ProbeInv, ProbeTypes, SSDP_BOREDOM_MAX_TIMEOUT, SSDP_BOREDOM_THRESH
<1>1. /\ pc = "grow" /\ pc' = "wait" /\ boredom_level' = 0 /\ held' = held
      /\ called = <<"MC_KILL_SELF">>
  BY SMT DEF Grow, GrowUpTo, ToldAt
<1>2. CASE Waits!Doubled(timeout) >= 3515625
  <2>1. /\ called' = Append(called, "OTHER")
        /\ timeout' = 14062500
    BY SMT, <1>2 DEF Grow, GrowUpTo
  <2>2. called' = <<"MC_KILL_SELF", "OTHER">>
    <3>1. Append(<<"MC_KILL_SELF">>, "OTHER") = <<"MC_KILL_SELF", "OTHER">>
      BY AppendToOne
    <3> QED
      BY <1>1, <2>1, <3>1
  <2>3. capped' \in BOOLEAN /\ capped'
    BY SMT, <1>2 DEF Grow, GrowUpTo
  <2>4. timeout' \in Plateau
    BY SMT, <2>1 DEF Plateau
  <2> QED
    <3>1. ProbeTypes'
      BY SMT, <1>1, <2>3, <2>4
    <3>2. HeldAt'
      BY SMT, <1>1 DEF HeldAt
    <3>3. ToldAt'
      <4>1. timeout' = SSDP_BOREDOM_MAX_TIMEOUT
        BY SMT, <2>1
      <4> HIDE DEF SSDP_BOREDOM_MAX_TIMEOUT
      <4>2. ToldOfTimeouts'
        BY <1>1, <2>2, <4>1 DEF ToldOfTimeouts
      <4> QED
        BY SMT, <1>1, <4>2 DEF ToldAt
    <3> QED
      BY <3>1, <3>2, <3>3 DEF ProbeInv
<1>3. CASE ~(Waits!Doubled(timeout) >= 3515625)
  <2>1. /\ timeout' = Waits!Doubled(timeout)
        /\ UNCHANGED <<called, capped>>
    BY SMT, <1>3 DEF Grow, GrowUpTo
  <2>2. /\ timeout' # 14062500
        /\ capped => timeout' \in Plateau
        /\ ~capped => timeout' \in Climb
    BY SMT, <1>3, <2>1, Doublings DEF Climb, Plateau
  <2> QED
    BY SMT, <1>1, <2>1, <2>2 DEF HeldAt, ToldAt, ToldOfTimeouts
<1> QED
  BY SMT, <1>2, <1>3

\* Every step of a probe keeps the invariant, whichever of its calls fails.
LEMMA ProbeStepInv ==
  ASSUME ProbeInv, Probe
  PROVE  ProbeInv'
<1> USE DEF ProbeInv, ProbeTypes, HeldAt, ToldAt, ToldOfTimeouts, timeVars,
            SSDP_BOREDOM_THRESH
<1>1. CASE TimeOut
  BY SMT, <1>1 DEF TimeOut
<1>2. CASE BuildDatagram
  BY SMT, <1>2 DEF BuildDatagram
<1>3. CASE OpenSocket
  BY SMT, <1>3 DEF OpenSocket
<1>4. CASE Send
  BY SMT, <1>4 DEF Send
<1>5. CASE Bored
  BY SMT, <1>5 DEF Bored
<1>6. CASE Grow
  BY SMT, <1>6, GrowInv
<1> QED
  BY SMT, <1>1, <1>2, <1>3, <1>4, <1>5, <1>6 DEF Probe

\* The mDNS thread has no part in it.
LEMMA ProbeNextInv == ProbeInv /\ [Next]_vars => ProbeInv'
<1> SUFFICES ASSUME ProbeInv, [Next]_vars
             PROVE  ProbeInv'
  OBVIOUS
<1>1. CASE UNCHANGED probeVars
  BY SMT, <1>1 DEF probeVars, timeVars, ProbeInv, ProbeTypes, HeldAt, ToldAt, ToldOfTimeouts
<1> QED
  BY SMT, <1>1, ProbeStepInv DEF Next, Mdns, vars

\* Which values the SSDP timeout takes, what a probe holds and what it has
\* told the main thread, at every point and for ever.
THEOREM ProbeInvariant == Spec => []ProbeInv
BY ProbeInitInv, ProbeNextInv, PTL DEF Spec

\* A probe releases what it has allocated and opened, whatever fails on the
\* way: process() of ssdp.c waits with empty hands.
THEOREM ReleasesWhatItHolds == Spec => []ProbeReleases
<1>1. ProbeInv => ProbeReleases
  BY DEF ProbeInv, HeldAt, ProbeReleases
<1> QED
  BY <1>1, ProbeInvariant, PTL

\* The main thread is told of a timeout once, and of the maximum only when it
\* has just been set.
THEOREM TellsOfTimeouts == Spec => []ToldOfTimeouts
<1>1. ProbeInv => ToldOfTimeouts
  BY DEF ProbeInv, ToldAt
<1> QED
  BY <1>1, ProbeInvariant, PTL

\* The SSDP timeout takes ten values, whatever the probes run into.  None of
\* them is zero, which doubling would keep for ever; two are negative.
TenValues == timeout \in Climb \cup Plateau /\ timeout # 0

THEOREM SsdpTakesTenValues == Spec => []TenValues
<1>1. ProbeInv => TenValues
  BY SMT DEF ProbeInv, ProbeTypes, TenValues, Climb, Plateau
<1> QED
  BY <1>1, ProbeInvariant, PTL

-----------------------------------------------------------------------------
(* The mDNS timeout                                                        *)

\* So many doublings since the last message, and this the timeout.
AfterDoublings(n, t) ==
  mdns_quiet = 3 * n + mdns_level /\ mdns_timeout = t

\* Before its eleventh doubling the mDNS timeout is what the quiet time made
\* of it.
MdnsClimb ==
  \/ AfterDoublings(0, 15625)
  \/ AfterDoublings(1, 31250)
  \/ AfterDoublings(2, 62500)
  \/ AfterDoublings(3, 125000)
  \/ AfterDoublings(4, 250000)
  \/ AfterDoublings(5, 500000)
  \/ AfterDoublings(6, 1000000)
  \/ AfterDoublings(7, 2000000)
  \/ AfterDoublings(8, 4000000)
  \/ AfterDoublings(9, 8000000)
  \/ AfterDoublings(10, 16000000)

MdnsInv ==
  /\ mdns_level \in 0 .. 2
  /\ mdns_quiet \in Nat
  /\ mdns_quiet < 33 => MdnsClimb

\* One more timeout, at any of the doublings but the last.
LEMMA MdnsBoredClimbs ==
  ASSUME MdnsInv, Waits!MdnsBored,
         NEW n \in 0 .. 9, NEW t \in Int, 0 < t, t < 8388608,
         AfterDoublings(n, t)
  PROVE  (AfterDoublings(n, t) \/ AfterDoublings(n + 1, 2 * t))'
<1>1. Waits!Doubled(t) = 2 * t
  <2>1. 0 <= t /\ t < 16777216 /\ ~(t >= 8388608)
    BY SMT
  <2> QED
    BY ONLY <2>1, DoubledPositive, t \in Int, SMT
<1>2. mdns_quiet < MaxQuiet
  BY MaxQuietAssumption, SMT DEF MdnsInv, AfterDoublings
<1>3. mdns_quiet' = mdns_quiet + 1
  BY <1>2 DEF Waits!MdnsBored
<1>4. CASE mdns_level = 2
  <2>1. mdns_level' = 0 /\ mdns_timeout' = Waits!Doubled(mdns_timeout)
    BY <1>4, SMT DEF Waits!MdnsBored, Waits!BOREDOM_SCALE_THRESH
  <2> QED
    BY <1>1, <1>3, <1>4, <2>1, SMT DEF AfterDoublings
<1>5. CASE mdns_level # 2
  <2>1. mdns_level' = mdns_level + 1 /\ mdns_timeout' = mdns_timeout
    BY <1>5, SMT DEF Waits!MdnsBored, Waits!BOREDOM_SCALE_THRESH, MdnsInv
  <2> QED
    BY <1>3, <2>1, SMT DEF AfterDoublings, MdnsInv
<1> QED
  BY <1>4, <1>5

\* Whatever happens, it stays what the quiet time has made of it.
LEMMA MdnsNextInv == MdnsInv /\ [Next]_vars => MdnsInv'
<1> SUFFICES ASSUME MdnsInv, [Next]_vars
             PROVE  MdnsInv'
  OBVIOUS
<1>1. CASE Waits!MdnsBored
  <2>1. mdns_level' \in 0 .. 2 /\ mdns_quiet' \in Nat /\ mdns_quiet' >= mdns_quiet
    BY <1>1, SMT DEF Waits!MdnsBored, Waits!BOREDOM_SCALE_THRESH, MdnsInv
  <2>2. CASE mdns_quiet >= 33
    BY <2>1, <2>2, SMT DEF MdnsInv
  <2>3. CASE AfterDoublings(10, 16000000)
    <3>1. CASE mdns_level = 2
      BY <1>1, <2>1, <2>3, <3>1, MaxQuietAssumption, SMT
         DEF Waits!MdnsBored, AfterDoublings, MdnsInv
    <3>2. CASE mdns_level # 2
      BY <1>1, <2>1, <2>3, <3>2, MaxQuietAssumption, SMT
         DEF Waits!MdnsBored, Waits!BOREDOM_SCALE_THRESH, AfterDoublings, MdnsInv, MdnsClimb
    <3> QED
      BY <3>1, <3>2
  <2>4. CASE AfterDoublings(0, 15625)
    BY MdnsBoredClimbs, <1>1, <2>1, <2>4, SMT DEF MdnsInv, MdnsClimb
  <2>5. CASE AfterDoublings(1, 31250)
    BY MdnsBoredClimbs, <1>1, <2>1, <2>5, SMT DEF MdnsInv, MdnsClimb
  <2>6. CASE AfterDoublings(2, 62500)
    BY MdnsBoredClimbs, <1>1, <2>1, <2>6, SMT DEF MdnsInv, MdnsClimb
  <2>7. CASE AfterDoublings(3, 125000)
    BY MdnsBoredClimbs, <1>1, <2>1, <2>7, SMT DEF MdnsInv, MdnsClimb
  <2>8. CASE AfterDoublings(4, 250000)
    BY MdnsBoredClimbs, <1>1, <2>1, <2>8, SMT DEF MdnsInv, MdnsClimb
  <2>9. CASE AfterDoublings(5, 500000)
    BY MdnsBoredClimbs, <1>1, <2>1, <2>9, SMT DEF MdnsInv, MdnsClimb
  <2>10. CASE AfterDoublings(6, 1000000)
    BY MdnsBoredClimbs, <1>1, <2>1, <2>10, SMT DEF MdnsInv, MdnsClimb
  <2>11. CASE AfterDoublings(7, 2000000)
    BY MdnsBoredClimbs, <1>1, <2>1, <2>11, SMT DEF MdnsInv, MdnsClimb
  <2>12. CASE AfterDoublings(8, 4000000)
    BY MdnsBoredClimbs, <1>1, <2>1, <2>12, SMT DEF MdnsInv, MdnsClimb
  <2>13. CASE AfterDoublings(9, 8000000)
    BY MdnsBoredClimbs, <1>1, <2>1, <2>13, SMT DEF MdnsInv, MdnsClimb
  <2> QED
    BY <2>1, <2>2, <2>3, <2>4, <2>5, <2>6, <2>7, <2>8, <2>9, <2>10, <2>11, <2>12, <2>13, SMT
       DEF MdnsInv, MdnsClimb
<1>2. CASE Waits!MdnsMessage
  BY <1>2, SMT DEF Waits!MdnsMessage, Waits!MdnsTimeout, MdnsInv, MdnsClimb, AfterDoublings
<1>3. CASE UNCHANGED mdnsVars
  BY <1>3, SMT DEF mdnsVars, MdnsInv, MdnsClimb, AfterDoublings
<1> QED
  BY <1>1, <1>2, <1>3 DEF Next, Mdns, vars

THEOREM MdnsInvariant == Spec => []MdnsInv
<1>1. Init => MdnsInv
  BY SMT DEF Init, Waits!MdnsTimeout, MdnsInv, MdnsClimb, AfterDoublings
<1> QED
  BY <1>1, MdnsNextInv, PTL DEF Spec

\* Neither timeout overflows early: SSDP's is caught below its maximum, and
\* mDNS's takes 33 timeouts in a row to run past what an int holds.
THEOREM OverflowsAreLate == Spec => []OverflowsLate
<1>1. ProbeInv => Waits!SsdpClimbBounded
  BY SMT DEF ProbeInv, ProbeTypes, Climb, Waits!SsdpClimbBounded,
             Waits!SSDP_BOREDOM_MIN_TIMEOUT, Waits!SSDP_BOREDOM_MAX_TIMEOUT
<1>2. MdnsInv => Waits!MdnsWaitsUnlessQuiet
  BY SMT DEF MdnsInv, MdnsClimb, AfterDoublings, Waits!MdnsWaitsUnlessQuiet, Waits!Wait
<1>3. ProbeInv /\ MdnsInv => OverflowsLate
  BY <1>1, <1>2 DEF OverflowsLate
<1> QED
  BY <1>3, ProbeInvariant, MdnsInvariant, PTL

-----------------------------------------------------------------------------
(* The probes implement the timeouts of module Boredom                     *)

\* The thread starts with a level and a timeout as Boredom's.
LEMMA BoredomInit == Init => Waits!Init
BY SMT DEF Init, Waits!Init, SSDP_BOREDOM_MIN_TIMEOUT, Waits!SSDP_BOREDOM_MIN_TIMEOUT

\* The level below the threshold is counted, or the timeout grows, in the step
\* that ends a probe; all other steps of it leave both as they are.
LEMMA BoredomStep == ProbeInv /\ [Next]_vars => [Waits!Next]_(Waits!vars)
<1> SUFFICES ASSUME ProbeInv, [Next]_vars
             PROVE  [Waits!Next]_(Waits!vars)
  OBVIOUS
<1>1. CASE Bored /\ UNCHANGED mdnsVars
  <2>1. CASE boredom_level' = SSDP_BOREDOM_THRESH
    BY <1>1, <2>1, SMT DEF Bored, Waits!vars, Waits!ssdpVars, Waits!mdnsVars, mdnsVars,
       ProbeInv, ProbeTypes, SSDP_BOREDOM_THRESH
  <2>2. CASE boredom_level' # SSDP_BOREDOM_THRESH
    <3>1. /\ pc = "bored" /\ pc' = "wait"
          /\ boredom_level + 1 # 5
          /\ boredom_level' = boredom_level + 1
          /\ UNCHANGED <<timeout, capped, mdnsVars>>
      BY <1>1, <2>2, SMT DEF Bored, SSDP_BOREDOM_THRESH
    <3>2. capped \in BOOLEAN
      BY DEF ProbeInv, ProbeTypes
    <3>3. Waits!SsdpTimeout
      BY <3>1, <3>2, SMT DEF Waits!SsdpTimeout, Waits!SSDP_BOREDOM_THRESH, Waits!mdnsVars, mdnsVars
    <3> QED
      BY <3>3 DEF Waits!Next
  <2> QED
    BY <2>1, <2>2
<1>2. CASE Grow /\ UNCHANGED mdnsVars
  <2>1. /\ pc = "grow" /\ pc' = "wait"
        /\ boredom_level = 5 /\ boredom_level' = 0
        /\ UNCHANGED mdnsVars
    BY <1>2, SMT DEF ProbeInv, ToldAt, Grow, GrowUpTo, SSDP_BOREDOM_THRESH
  <2>2. CASE Waits!Doubled(timeout) >= 3515625
    <3>1. timeout' = 14062500
      BY <1>2, <2>2, SMT DEF Grow, GrowUpTo, SSDP_BOREDOM_MAX_TIMEOUT
    <3>2. capped' \in BOOLEAN /\ capped'
      BY <1>2, <2>2, SMT DEF Grow, GrowUpTo, SSDP_BOREDOM_MAX_TIMEOUT
    <3>3. Waits!SsdpTimeout
      BY <2>1, <2>2, <3>1, <3>2, SMT DEF Waits!SsdpTimeout, Waits!SSDP_BOREDOM_THRESH,
         Waits!SSDP_BOREDOM_MAX_TIMEOUT, Waits!mdnsVars, mdnsVars
    <3> QED
      BY <3>3 DEF Waits!Next
  <2>3. CASE ~(Waits!Doubled(timeout) >= 3515625)
    <3>1. timeout' = Waits!Doubled(timeout)
      BY <1>2, <2>3, SMT DEF Grow, GrowUpTo, SSDP_BOREDOM_MAX_TIMEOUT
    <3>2. capped' = capped /\ capped \in BOOLEAN
      BY <1>2, <2>3, SMT DEF Grow, GrowUpTo, SSDP_BOREDOM_MAX_TIMEOUT, ProbeInv, ProbeTypes
    <3>3. Waits!SsdpTimeout
      BY <2>1, <2>3, <3>1, <3>2, SMT DEF Waits!SsdpTimeout, Waits!SSDP_BOREDOM_THRESH,
         Waits!SSDP_BOREDOM_MAX_TIMEOUT, Waits!mdnsVars, mdnsVars
    <3> QED
      BY <3>3 DEF Waits!Next
  <2> QED
    BY <2>2, <2>3
<1>3. CASE (TimeOut \/ BuildDatagram \/ OpenSocket \/ Send) /\ UNCHANGED mdnsVars
  BY <1>3, SMT DEF TimeOut, BuildDatagram, OpenSocket, Send, timeVars,
     Waits!vars, Waits!ssdpVars, Waits!mdnsVars, mdnsVars
<1>4. CASE Mdns
  BY <1>4 DEF Mdns, Waits!Next
<1>5. CASE UNCHANGED vars
  BY <1>5 DEF vars, probeVars, timeVars, mdnsVars, Waits!vars, Waits!ssdpVars, Waits!mdnsVars
<1> QED
  BY <1>1, <1>2, <1>3, <1>4, <1>5 DEF Next, Probe

\* A timeout with all its probing is one of module Boredom, for which its
\* properties need not ask what a probe ran into.
THEOREM ProbesImplementBoredom == Spec => ImplementsBoredom
BY BoredomInit, BoredomStep, ProbeInvariant, PTL DEF Spec, ImplementsBoredom, Waits!Spec
=============================================================================
