------------------------------ MODULE Presence ------------------------------
(***************************************************************************)
(* What a heartbeat says and how long it counts: run_announce reads the    *)
(* local /status and stamps its wall clock (blitter_heartbeat.py), the     *)
(* datagram is lost, repeated or delayed, and a scheduler turns it into a  *)
(* slot-pool view whenever it looks (slot_pool_from_heartbeat of           *)
(* slot_scheduler.py).  One node; the scheduler may keep every heartbeat   *)
(* it ever received.  Two clocks run at the same rate, each ahead of real  *)
(* time by a fixed amount.                                                 *)
(*                                                                         *)
(* Left out: clocks before 2000 (time_anomaly), malformed heartbeats, the  *)
(* spawn envelope; how a busy pool compares to others is in Placement.     *)
(***************************************************************************)
EXTENDS Integers

CONSTANTS TTL,      \* availability_ttl_ms, in heartbeat intervals
          MaxAge,   \* max_age_ms
          MaxSkew,  \* max_abs_skew_ms
          MaxRTT,   \* assumed: the most a read of /status takes; --timeout-ms
                    \* bounds each of its socket operations, not the whole
          Ahead,    \* how far a clock may be ahead of real time
          RetireTimes, \* retire_at_unix_ms, as the operator may set it
          LastSend, \* bound: no heartbeat is sent after this time
          Horizon   \* bound: the end of time

ASSUME PresenceAssumption ==
  /\ TTL \in Nat \ {0}
  /\ {MaxAge, MaxSkew, MaxRTT, LastSend, Horizon} \subseteq Nat
  /\ RetireTimes \subseteq Nat
  /\ Ahead \subseteq Nat

VARIABLES now,        \* real time
          nodeAhead, schedulerAhead,
          retireAt,   \* what the announcer says of its retirement
          alive,      \* the announcer runs
          wakes,      \* when it wakes from time.sleep
          reading,    \* the /status it has read for its next heartbeat
          network,    \* the datagrams that may still arrive
          seen        \* the heartbeats the scheduler has received

clocks == <<nodeAhead, schedulerAhead, retireAt>>
announcer == <<alive, wakes, reading>>
presenceVars == <<now, clocks, announcer, network, seen>>

\* A reading: when it was asked for, whether the endpoint answered, and
\* whether it said that a slot is free.
Asleep == [at |-> -1, answered |-> FALSE, free |-> FALSE]
Reading == [at : Nat, answered : BOOLEAN, free : BOOLEAN]
Heartbeat == [sent : Nat, at : Nat, answered : BOOLEAN, ok : BOOLEAN, free : BOOLEAN]

\* What is not known counts as busy.
FailsClosed(hb) == /\ hb.ok => hb.answered
                   /\ hb.free => hb.ok

Init == /\ now = 0
        /\ nodeAhead \in Ahead
        /\ schedulerAhead \in Ahead
        /\ retireAt \in RetireTimes
        /\ alive = TRUE
        /\ wakes = 0
        /\ reading = Asleep
        /\ network = {}
        /\ seen = {}

-----------------------------------------------------------------------------
\* status_snapshot begins.  Its answer may be late by MaxRTT; what it says is
\* what holds when the endpoint reads its counters, at the earliest now.
AskStatus(answered, free) ==
  /\ alive
  /\ reading = Asleep
  /\ wakes <= now /\ now <= LastSend
  /\ free => answered
  /\ reading' = [at |-> now, answered |-> answered, free |-> free]
  /\ UNCHANGED <<now, clocks, alive, wakes, network, seen>>

\* Mutant of StatusOk: the reason of the failure is reported, not the failure.
StatusOkAlways(r) == TRUE

\* An answer that lacks the daemon's fields (the lease gate's does) is
\* refused like no answer at all: `answered' is an answer of the daemon.
StatusOk(r) == r.answered

\* heartbeat_payload and sendto, then time.sleep for one interval.
Send ==
  /\ alive
  /\ reading # Asleep
  /\ \/ network' = network \cup
          {[sent |-> now + nodeAhead, at |-> reading.at, answered |-> reading.answered,
            ok |-> StatusOk(reading), free |-> StatusOk(reading) /\ reading.free]}
     \/ UNCHANGED network
  /\ reading' = Asleep
  /\ wakes' = now + 1
  /\ UNCHANGED <<now, clocks, alive, seen>>

\* The node is gone for good: a rental that ended, a crash.
NodeDies ==
  /\ alive
  /\ alive' = FALSE
  /\ reading' = Asleep
  /\ UNCHANGED <<now, clocks, wakes, network, seen>>

Deliver(hb) ==
  /\ hb \in network
  /\ seen' = seen \cup {hb}
  /\ UNCHANGED <<now, clocks, announcer, network>>

Tick ==
  /\ now < Horizon
  /\ reading # Asleep => now < reading.at + MaxRTT
  /\ now' = now + 1
  /\ UNCHANGED <<clocks, announcer, network, seen>>

Next == \/ \E answered, free \in BOOLEAN : AskStatus(answered, free)
        \/ Send
        \/ NodeDies
        \/ \E hb \in network : Deliver(hb)
        \/ Tick
        \/ now = Horizon /\ UNCHANGED presenceVars

Spec == Init /\ [][Next]_presenceVars

\* Time passes, and while it runs the announcer goes on.
FairSpec == Spec /\ WF_presenceVars(Tick) /\ WF_presenceVars(Send)

-----------------------------------------------------------------------------
(* The scheduler looks at heartbeat hb at this moment.                     *)

SchedulerNow == now + schedulerAhead
Skew(hb) == SchedulerNow - hb.sent
Expires(hb) == hb.sent + TTL

Stale(hb) == Skew(hb) > MaxAge
SkewBad(hb) == Skew(hb) > MaxSkew \/ -Skew(hb) > MaxSkew
AvailabilityLive(hb) == SchedulerNow <= Expires(hb) /\ SchedulerNow < retireAt

\* Mutants of Eligible: no limit to the age; no heartbeat from the future; a
\* known node is taken at its word.
EligibleAtAnyAge(hb) == hb.ok /\ hb.free /\ AvailabilityLive(hb) /\ ~SkewBad(hb)
EligibleNotFuture(hb) ==
  hb.ok /\ hb.free /\ AvailabilityLive(hb) /\ ~Stale(hb) /\ Skew(hb) >= 0
EligibleAsRemembered(hb) == hb.ok /\ hb.free

\* healthy and with a slot to offer: rank_slot_pools lets it in.
Eligible(hb) ==
  hb.ok /\ hb.free /\ AvailabilityLive(hb) /\ ~Stale(hb) /\ ~SkewBad(hb)

-----------------------------------------------------------------------------
TypeOK == /\ now \in Nat
          /\ {nodeAhead, schedulerAhead} \subseteq Ahead
          /\ retireAt \in RetireTimes
          /\ alive \in BOOLEAN
          /\ wakes \in Nat
          /\ reading \in Reading \cup {Asleep}
          /\ network \subseteq Heartbeat
          /\ \A hb \in network : FailsClosed(hb)
          /\ seen \subseteq network

\* A heartbeat is stamped after its reading and within the status timeout.
Stamped == /\ reading # Asleep => reading.at <= now /\ now <= reading.at + MaxRTT
           /\ \A hb \in network : /\ hb.at + nodeAhead <= hb.sent
                                  /\ hb.sent <= hb.at + nodeAhead + MaxRTT
                                  /\ hb.sent <= now + nodeAhead

(* Availability is soft: whatever the scheduler keeps, what makes a slot   *)
(* eligible was read from the node's own status at most the freshness      *)
(* window ago, stretched by the status round trip and by the lead of the   *)
(* sender's clock, and never by delay, loss or repetition in the network.  *)
(* It is the age of a heartbeat that decides (slot_scheduler.py:203),      *)
(* before its expiry and well before the limit on the skew.                *)
EligibleIsRecent ==
  \A hb \in seen : Eligible(hb) =>
    now <= hb.at + MaxRTT + MaxAge + nodeAhead - schedulerAhead

(* "Availability is soft state derived only from a fresh heartbeat. ...    *)
(* old log ... can never by itself make a slot eligible for placement"     *)
(* (slot_scheduler.py:4-6): a heartbeat that has lost its force, by its    *)
(* age, its expiry, the retirement of the node or a skew towards the past, *)
(* never gets it back, whatever the clocks are.  Only one that is from     *)
(* beyond the limit in the future (slot_scheduler.py:204) gains force by   *)
(* time alone, once, when the scheduler's clock comes near enough to it.   *)
NoRevival ==
  [][\A hb \in seen : (~Eligible(hb) /\ -Skew(hb) <= MaxSkew) => ~Eligible(hb)']_presenceVars

(* A node that has gone disappears from placement by itself, late copies   *)
(* of its last heartbeats included.                                        *)
DeadNodeDisappears == ~alive ~> [](\A hb \in seen : ~Eligible(hb))
=============================================================================
