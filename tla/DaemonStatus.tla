---------------------------- MODULE DaemonStatus ----------------------------
(***************************************************************************)
(* GET /status of blitter-daemon.rs beside the compute threads: status_json*)
(* loads one counter after the other and takes no lock, so a snapshot is   *)
(* made of values of different moments.  One scheduler polls, over and over.*)
(* Only the two counters that say busy or idle are loaded here: the loads  *)
(* that follow them (start times, totals) only make a request longer.      *)
(***************************************************************************)
EXTENDS Daemon, Sequences

VARIABLES snapshot,  \* the values loaded so far
          steady     \* observer: <<thread, kind of occupancy>> unbroken since
                     \* this snapshot began

readerVars == <<snapshot, steady>>
statusVars == <<daemonVars, readerVars>>

\* The order of the loads in status_json.
Fields == <<"active", "queued">>

Counter == [active |-> active, queued |-> queued]

Done(s) == Len(s) = Len(Fields)

Value(s, field) == s[CHOOSE i \in 1..Len(Fields) : Fields[i] = field]

Busy(s) == Value(s, "active") # 0 \/ Value(s, "queued") # 0

\* A thread waits, counted in queued, or computes, counted in active; or it
\* is anywhere between its entry into the queue and its result.
Waiting == At({"queueing", "granted", "refused"})
Computing == At({"beginning", "computing", "replying"})
Inside == Waiting \cup Computing \cup At({"leaving", "starting", "marking"})
Occupancy == (Waiting \X {"waiting"}) \cup (Computing \X {"computing"})
             \cup (Inside \X {"inside"})

StatusInit == /\ Init
              /\ snapshot = <<>>
              /\ steady = {}

BeginPoll == /\ Done(snapshot)
             /\ snapshot' = <<>>
             /\ steady' = Occupancy
             /\ UNCHANGED daemonVars

Load == /\ ~Done(snapshot)
        /\ snapshot' = Append(snapshot, Counter[Fields[Len(snapshot) + 1]])
        /\ UNCHANGED <<daemonVars, steady>>

StatusNext == \/ BeginPoll
              \/ Load
              \/ /\ Next
                 /\ steady' = IF Done(snapshot) THEN steady ELSE steady \cap Occupancy'
                 /\ UNCHANGED snapshot

StatusSpec == StatusInit /\ [][StatusNext]_statusVars

\* The daemon's threads go on; nobody has to ask for the status.
FairStatusSpec == StatusSpec /\ Fairness

(* A job that waits, or that computes, during the whole of a status        *)
(* request is reported: a scheduler is never told idle while one and the   *)
(* same counter has covered a job all along.                               *)
SteadyWorkIsSeen ==
  Done(snapshot) =>
    /\ (\E t \in Thread : <<t, "waiting">> \in steady) => Value(snapshot, "queued") # 0
    /\ (\E t \in Thread : <<t, "computing">> \in steady) => Value(snapshot, "active") # 0

(* "`active_compute` covers the interval in which a request owns the       *)
(* process-wide GPU compute mutex. `queued_compute` covers valid compute   *)
(* requests that have entered the daemon but are waiting for that mutex"   *)
(* (STATUS_API.md:78): a request inside from the start to the end of a     *)
(* status request makes it say busy.                                       *)
OccupiedIsBusy ==
  (Done(snapshot) /\ \E t \in Thread : <<t, "inside">> \in steady) => Busy(snapshot)
=============================================================================
