--------------------------- MODULE PresenceProofs ---------------------------
(***************************************************************************)
(* Proofs about Presence, for every freshness window, skew limit, status   *)
(* timeout and number of heartbeats.                                       *)
(***************************************************************************)
EXTENDS Presence, TLAPS

PresenceInvariant == TypeOK /\ Stamped

LEMMA InitPresence == Init => PresenceInvariant
  BY PresenceAssumption
     DEF Init, PresenceInvariant, TypeOK, Stamped, Asleep, FailsClosed

\* What a heartbeat says when it is sent: the reading is not newer than the
\* stamp, and not older than the status timeout.
LEMMA SendStamps ==
  ASSUME PresenceInvariant, Send
  PROVE  PresenceInvariant'
  <1> DEFINE hb == [sent |-> now + nodeAhead, at |-> reading.at,
                    answered |-> reading.answered, ok |-> StatusOk(reading),
                    free |-> StatusOk(reading) /\ reading.free]
  <1> USE PresenceAssumption
  <1>1. /\ reading \in Reading
        /\ now \in Nat /\ nodeAhead \in Nat
        /\ reading.at <= now /\ now <= reading.at + MaxRTT
    BY DEF PresenceInvariant, TypeOK, Stamped, Send
  <1>2. /\ hb \in Heartbeat
        /\ FailsClosed(hb)
    <2>1. StatusOk(reading) \in BOOLEAN /\ (StatusOk(reading) /\ reading.free) \in BOOLEAN
      BY <1>1 DEF StatusOk, Reading
    <2>2. hb \in Heartbeat
      BY <1>1, <2>1 DEF Heartbeat, Reading
    <2>3. FailsClosed(hb)
      BY DEF FailsClosed, StatusOk
    <2> QED BY <2>2, <2>3
  <1>3. /\ hb.at + nodeAhead <= hb.sent
        /\ hb.sent <= hb.at + nodeAhead + MaxRTT
        /\ hb.sent <= now + nodeAhead
    BY <1>1 DEF Reading
  <1> HIDE DEF hb
  <1>4. network' \subseteq network \cup {hb}
    BY DEF Send, hb
  <1>5. /\ reading' = Asleep /\ wakes' = now + 1
        /\ UNCHANGED <<now, nodeAhead, schedulerAhead, retireAt, alive, seen>>
        /\ network \subseteq network'
    BY DEF Send, clocks
  <1>6. TypeOK'
    BY <1>1, <1>2, <1>4, <1>5 DEF PresenceInvariant, TypeOK, FailsClosed
  <1>7. Stamped'
    BY <1>3, <1>4, <1>5 DEF PresenceInvariant, Stamped
  <1> QED BY <1>6, <1>7 DEF PresenceInvariant

LEMMA NextPresence == PresenceInvariant /\ [Next]_presenceVars => PresenceInvariant'
  <1> USE PresenceAssumption
  <1> SUFFICES ASSUME PresenceInvariant, [Next]_presenceVars
               PROVE  PresenceInvariant'
    OBVIOUS
  <1>1. ASSUME NEW answered \in BOOLEAN, NEW free \in BOOLEAN, AskStatus(answered, free)
        PROVE  PresenceInvariant'
    <2>1. /\ reading' = [at |-> now, answered |-> answered, free |-> free]
          /\ UNCHANGED <<now, nodeAhead, schedulerAhead, retireAt, alive, wakes, network, seen>>
      BY <1>1 DEF AskStatus, clocks
    <2>2. now \in Nat
      BY DEF PresenceInvariant, TypeOK
    <2>3. reading' \in Reading
      BY <2>1, <2>2 DEF Reading
    <2>4. TypeOK'
      BY <2>1, <2>3 DEF PresenceInvariant, TypeOK, FailsClosed
    <2>5. Stamped'
      BY <2>1, <2>2 DEF PresenceInvariant, Stamped
    <2> QED BY <2>4, <2>5 DEF PresenceInvariant
  <1>2. CASE Send
    BY <1>2, SendStamps
  <1>3. CASE NodeDies
    BY <1>3 DEF NodeDies, PresenceInvariant, TypeOK, Stamped, clocks, FailsClosed
  <1>4. ASSUME NEW hb \in network, Deliver(hb)
        PROVE  PresenceInvariant'
    BY <1>4 DEF Deliver, PresenceInvariant, TypeOK, Stamped, clocks, announcer, FailsClosed
  <1>5. CASE Tick
    <2>1. /\ now' = now + 1
          /\ UNCHANGED <<nodeAhead, schedulerAhead, retireAt, alive, wakes, reading, network, seen>>
          /\ reading # Asleep => now < reading.at + MaxRTT
      BY <1>5 DEF Tick, clocks, announcer
    <2>2. now \in Nat /\ nodeAhead \in Nat
      BY DEF PresenceInvariant, TypeOK
    <2>3. TypeOK'
      BY <2>1 DEF PresenceInvariant, TypeOK, FailsClosed
    <2>4. reading' # Asleep => reading'.at <= now' /\ now' <= reading'.at + MaxRTT
      <3> SUFFICES ASSUME reading # Asleep
                   PROVE  reading.at <= now + 1 /\ now + 1 <= reading.at + MaxRTT
        BY <2>1
      <3>1. reading \in Reading
        BY DEF PresenceInvariant, TypeOK
      <3>2. reading.at \in Nat /\ reading.at <= now
        BY <3>1 DEF PresenceInvariant, Stamped, Reading
      <3> QED BY <2>1, <2>2, <3>2
    <2>5. \A hb \in network' : /\ hb.at + nodeAhead' <= hb.sent
                               /\ hb.sent <= hb.at + nodeAhead' + MaxRTT
                               /\ hb.sent <= now' + nodeAhead'
      <3> SUFFICES ASSUME NEW hb \in network
                   PROVE  /\ hb.at + nodeAhead <= hb.sent
                          /\ hb.sent <= hb.at + nodeAhead + MaxRTT
                          /\ hb.sent <= now + 1 + nodeAhead
        BY <2>1
      <3>1. hb.sent \in Nat
        BY DEF PresenceInvariant, TypeOK, Heartbeat
      <3> QED BY <2>2, <3>1 DEF PresenceInvariant, Stamped
    <2> QED BY <2>3, <2>4, <2>5 DEF PresenceInvariant, Stamped
  <1>6. CASE UNCHANGED presenceVars
    BY <1>6 DEF presenceVars, PresenceInvariant, TypeOK, Stamped, clocks, announcer, FailsClosed
  <1> QED BY <1>1, <1>2, <1>3, <1>4, <1>5, <1>6 DEF Next

(* Heartbeats are well-formed, fail closed, and say when they were read:   *)
(* never before the status request, never later than its timeout.          *)
THEOREM HeartbeatsAreStamped == Spec => [](TypeOK /\ Stamped)
  <1>1. PresenceInvariant => TypeOK /\ Stamped
    BY DEF PresenceInvariant
  <1> QED BY InitPresence, NextPresence, <1>1, PTL DEF Spec

(* Whatever a scheduler remembers, what it finds eligible was read within  *)
(* the freshness window, the status round trip and the clock difference.   *)
THEOREM EligibilityIsFresh == Spec => []EligibleIsRecent
  <1>1. PresenceInvariant => EligibleIsRecent
    <2> SUFFICES ASSUME PresenceInvariant, NEW hb \in seen, Eligible(hb)
                 PROVE  now <= hb.at + MaxRTT + MaxAge + nodeAhead - schedulerAhead
      BY DEF EligibleIsRecent
    <2> USE PresenceAssumption
    <2>1. hb \in Heartbeat
      BY DEF PresenceInvariant, TypeOK
    <2>2. /\ hb.sent \in Nat /\ hb.at \in Nat
          /\ now \in Nat /\ nodeAhead \in Nat /\ schedulerAhead \in Nat
      BY <2>1 DEF Heartbeat, PresenceInvariant, TypeOK
    <2>3. now + schedulerAhead - hb.sent <= MaxAge
      BY <2>2 DEF Eligible, Stale, Skew, SchedulerNow
    <2>4. hb.sent <= hb.at + nodeAhead + MaxRTT
      BY DEF PresenceInvariant, TypeOK, Stamped
    <2> QED BY <2>2, <2>3, <2>4
  <1> QED BY InitPresence, NextPresence, <1>1, PTL DEF Spec

\* A heartbeat that counts after a step counted before it, unless it was
\* from beyond the limit in the future.
LEMMA EligibilityEnds ==
  ASSUME PresenceInvariant, [Next]_presenceVars,
         NEW hb \in seen, -Skew(hb) <= MaxSkew, Eligible(hb)'
  PROVE  Eligible(hb)
  <1> USE PresenceAssumption
  <1>1. hb \in Heartbeat
    BY DEF PresenceInvariant, TypeOK
  <1>2. /\ hb.sent \in Nat
        /\ now \in Nat /\ nodeAhead \in Nat /\ schedulerAhead \in Nat /\ retireAt \in Nat
    BY <1>1 DEF Heartbeat, PresenceInvariant, TypeOK
  <1>3. UNCHANGED <<nodeAhead, schedulerAhead, retireAt>> /\ now' \in {now, now + 1}
    BY DEF Next, AskStatus, Send, NodeDies, Deliver, Tick, presenceVars, clocks
  <1>4. hb.ok /\ hb.free /\ AvailabilityLive(hb)' /\ ~Stale(hb)' /\ ~SkewBad(hb)'
    BY Zenon DEF Eligible
  <1>5. TTL \in Nat /\ MaxAge \in Nat /\ MaxSkew \in Nat
    BY DEF PresenceAssumption
  <1>6. /\ now' + schedulerAhead <= hb.sent + TTL /\ now' + schedulerAhead < retireAt
        /\ now' + schedulerAhead - hb.sent <= MaxAge
        /\ now' + schedulerAhead - hb.sent <= MaxSkew
    <2>1. now' + schedulerAhead <= hb.sent + TTL /\ now' + schedulerAhead < retireAt
      BY <1>4, <1>3 DEF AvailabilityLive, Expires, SchedulerNow
    <2>2. now' + schedulerAhead - hb.sent <= MaxAge
      BY <1>4, <1>2, <1>3, <1>5 DEF Stale, Skew, SchedulerNow
    <2>3. now' + schedulerAhead - hb.sent <= MaxSkew
      BY <1>4, <1>2, <1>3, <1>5 DEF SkewBad, Skew, SchedulerNow
    <2> QED BY <2>1, <2>2, <2>3
  <1>7. AvailabilityLive(hb)
    <2>1. hb.sent + TTL \in Nat
      BY <1>2, <1>5
    <2>2. now + schedulerAhead <= hb.sent + TTL /\ now + schedulerAhead < retireAt
      <3>1. CASE now' = now
        BY <1>6, <3>1
      <3>2. CASE now' = now + 1
        BY <1>2, <1>6, <2>1, <3>2
      <3> QED BY <1>3, <3>1, <3>2
    <2> QED BY <2>2 DEF AvailabilityLive, Expires, SchedulerNow
  <1>8. ~Stale(hb)
    BY <1>2, <1>3, <1>6, <1>5 DEF Stale, Skew, SchedulerNow
  <1>9. ~SkewBad(hb)
    BY <1>2, <1>3, <1>6, <1>5 DEF SkewBad, Skew, SchedulerNow
  <1> QED BY <1>4, <1>7, <1>8, <1>9, Zenon DEF Eligible

(* Whatever the clocks are, a heartbeat that has lost its force never gets *)
(* it back; only one from beyond the limit in the future comes into force  *)
(* by the passing of time.                                                 *)
THEOREM NeverRevived == Spec => NoRevival
  <1>1. PresenceInvariant /\ [Next]_presenceVars
          => [\A hb \in seen :
                (~Eligible(hb) /\ -Skew(hb) <= MaxSkew) => ~Eligible(hb)']_presenceVars
    BY EligibilityEnds
  <1> QED BY InitPresence, NextPresence, <1>1, PTL DEF Spec, NoRevival
=============================================================================
