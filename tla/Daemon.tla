------------------------------- MODULE Daemon -------------------------------
(***************************************************************************)
(* The compute path of blitter-daemon.rs: one thread per connection, one   *)
(* mutex around the GPU, and the RuntimeState counters that GET /status    *)
(* reports.  The counters are separate atomics: every access of one is a   *)
(* step of its own, and anything may run between two of them.  All of them *)
(* are read-modify-writes with AcqRel ordering, so a thread's accesses are *)
(* seen in program order and interleaving is what the memory model allows. *)
(*                                                                         *)
(* A panic unwinds one thread.  compute_exact may panic (wgpu's default    *)
(* handler for uncaptured errors does); eprintln! does when stderr is      *)
(* closed, which matters under debug only.                                 *)
(*                                                                         *)
(* Left out: the bytes on the wire, job contents (LaurentProduct), times.  *)
(***************************************************************************)
EXTENDS Naturals, FiniteSets

CONSTANTS Thread,  \* the connections that bring a POST /compute
          Nobody   \* nobody holds the mutex; no job has a start time

ASSUME ThreadAssumption == Nobody \notin Thread /\ IsFiniteSet(Thread)

VARIABLES debug,    \* --debug or BLITTER_DEBUG, with a stderr that may close
          active, queued, total, completed, failed, seq,  \* RuntimeState
          current,  \* whose start time current_job_started_unix_ms holds
          owner,    \* who holds GpuContext.gate
          poisoned, \* a panic poisoned the gate
          pc,       \* where each thread is in handle_compute
          success,  \* the threads whose ActiveGuard is marked successful
          replied   \* the threads that wrote a response

counters == <<active, queued, total, completed, failed, seq, current>>
gate == <<owner, poisoned>>
threadVars == <<pc, success, replied>>
daemonVars == <<debug, counters, gate, threadVars>>

\* A transition ends in bump(): where the thread is before it and after it.
BumpLeadsTo == [rejecting |-> "reply400",  entering  |-> "queueing",
                leaving   |-> "starting",  refusing  |-> "failing",
                recording |-> "reply500",  beginning |-> "computing",
                ending    |-> "unlocking"]

PC == DOMAIN BumpLeadsTo \cup
      {"idle", "received", "reply400", "queueing", "granted", "refused",
       "failing", "reply500", "starting", "marking", "computing", "replying",
       "finishing", "settling", "clearing", "unlocking", "ended"}

Init == /\ debug \in BOOLEAN
        /\ active = 0 /\ queued = 0 /\ total = 0
        /\ completed = 0 /\ failed = 0 /\ seq = 0
        /\ current = Nobody
        /\ owner = Nobody
        /\ poisoned = FALSE
        /\ pc = [t \in Thread |-> "idle"]
        /\ success = {}
        /\ replied = {}

Goto(t, from, to) == pc[t] = from /\ pc' = [pc EXCEPT ![t] = to]

-----------------------------------------------------------------------------
(* Before the mutex.                                                       *)

\* begin_request
Receive(t) ==
  /\ Goto(t, "idle", "received")
  /\ total' = total + 1
  /\ UNCHANGED <<debug, active, queued, completed, failed, seq, current, gate, success, replied>>

\* The body does not parse: record_failed_request.
Reject(t) ==
  /\ Goto(t, "received", "rejecting")
  /\ failed' = failed + 1
  /\ UNCHANGED <<debug, active, queued, total, completed, seq, current, gate, success, replied>>

\* enter_queue
EnterQueue(t) ==
  /\ Goto(t, "received", "entering")
  /\ queued' = queued + 1
  /\ UNCHANGED <<debug, active, total, completed, failed, seq, current, gate, success, replied>>

Bump(t) ==
  /\ pc[t] \in DOMAIN BumpLeadsTo
  /\ pc' = [pc EXCEPT ![t] = BumpLeadsTo[pc[t]]]
  /\ seq' = seq + 1
  /\ UNCHANGED <<debug, active, queued, total, completed, failed, current, gate, success, replied>>

\* Mutant of Lock: the error of a poisoned mutex is unwrapped and ignored.
LockIgnoringPoison(t) ==
  /\ Goto(t, "queueing", "granted")
  /\ owner = Nobody
  /\ owner' = t
  /\ UNCHANGED <<debug, counters, poisoned, success, replied>>

\* gpu.gate.lock(): a poisoned mutex is locked too, inside the error.
Lock(t) ==
  /\ Goto(t, "queueing", IF poisoned THEN "refused" ELSE "granted")
  /\ owner = Nobody
  /\ owner' = t
  /\ UNCHANGED <<debug, counters, poisoned, success, replied>>

\* Mutant of LeaveQueue: the error path forgets it.
LeaveQueueOnSuccess(t) ==
  /\ Goto(t, "granted", "leaving") \/ Goto(t, "refused", "refusing")
  /\ queued' = IF pc[t] = "granted" THEN queued - 1 ELSE queued
  /\ UNCHANGED <<debug, active, total, completed, failed, seq, current, gate, success, replied>>

\* leave_queue, with the mutex or with the poison error in hand
LeaveQueue(t) ==
  /\ Goto(t, "granted", "leaving") \/ Goto(t, "refused", "refusing")
  /\ queued' = queued - 1
  /\ UNCHANGED <<debug, active, total, completed, failed, seq, current, gate, success, replied>>

\* The poison error: record_failed_request.
RecordFailure(t) ==
  /\ Goto(t, "failing", "recording")
  /\ failed' = failed + 1
  /\ UNCHANGED <<debug, active, queued, total, completed, seq, current, gate, success, replied>>

-----------------------------------------------------------------------------
(* Under the mutex: begin_active, compute_exact, drop(gpu_lock).           *)

BeginActive(t) ==
  /\ Goto(t, "starting", "marking")
  /\ active' = active + 1
  /\ UNCHANGED <<debug, queued, total, completed, failed, seq, current, gate, success, replied>>

MarkStarted(t) ==
  /\ Goto(t, "marking", "beginning")
  /\ current' = t
  /\ UNCHANGED <<debug, active, queued, total, completed, failed, seq, gate, success, replied>>

\* compute_exact returns; the mutex is free before anyone hears of it.
Computed(t, ok) ==
  /\ Goto(t, "computing", "replying")
  /\ owner' = Nobody
  /\ success' = IF ok THEN success \cup {t} ELSE success
  /\ UNCHANGED <<debug, counters, poisoned, replied>>

\* compute_exact panics: the ActiveGuard is dropped, then the mutex.
ComputePanics(t) ==
  /\ Goto(t, "computing", "finishing")
  /\ UNCHANGED <<debug, counters, gate, success, replied>>

-----------------------------------------------------------------------------
(* write_json, the ActiveGuard's drop (finish_active), the end.            *)

\* The 400 and the 500 of a poisoned gate return; the guard of the poison
\* error goes only then.
ReplyEarly(t) ==
  /\ Goto(t, "reply400", "ended") \/ Goto(t, "reply500", "ended")
  /\ replied' = replied \cup {t}
  /\ owner' = IF owner = t THEN Nobody ELSE owner
  /\ UNCHANGED <<debug, counters, poisoned, success>>

Reply(t) ==
  /\ Goto(t, "replying", "finishing")
  /\ replied' = replied \cup {t}
  /\ UNCHANGED <<debug, counters, gate, success>>

\* Mutant of FinishActive: one job at most, so it stores 0.
FinishActiveStores(t) ==
  /\ Goto(t, "finishing", "settling")
  /\ active' = 0
  /\ UNCHANGED <<debug, queued, total, completed, failed, seq, current, gate, success, replied>>

FinishActive(t) ==
  /\ Goto(t, "finishing", "settling")
  /\ active' = active - 1
  /\ UNCHANGED <<debug, queued, total, completed, failed, seq, current, gate, success, replied>>

Settle(t) ==
  /\ Goto(t, "settling", "clearing")
  /\ completed' = IF t \in success THEN completed + 1 ELSE completed
  /\ failed' = IF t \in success THEN failed ELSE failed + 1
  /\ UNCHANGED <<debug, active, queued, total, seq, current, gate, success, replied>>

ClearStarted(t) ==
  /\ Goto(t, "clearing", "ending")
  /\ current' = Nobody
  /\ UNCHANGED <<debug, active, queued, total, completed, failed, seq, gate, success, replied>>

\* Mutants of Unlock: a mutex without poisoning; a thread that dies keeps it.
UnlockClean(t) ==
  /\ Goto(t, "unlocking", "ended")
  /\ owner' = IF owner = t THEN Nobody ELSE owner
  /\ UNCHANGED <<debug, counters, poisoned, success, replied>>

UnlockUnlessPanicking(t) ==
  /\ Goto(t, "unlocking", "ended")
  /\ poisoned' = (poisoned \/ owner = t)
  /\ UNCHANGED <<debug, counters, owner, success, replied>>

\* A thread that still holds the mutex here is unwinding: it poisons it.
Unlock(t) ==
  /\ Goto(t, "unlocking", "ended")
  /\ poisoned' = (poisoned \/ owner = t)
  /\ owner' = IF owner = t THEN Nobody ELSE owner
  /\ UNCHANGED <<debug, counters, success, replied>>

\* eprintln! panics at one of handle_compute's trace points.
TracePanics(t) ==
  /\ debug
  /\ \/ Goto(t, "received", "ended")
     \/ Goto(t, "reply400", "ended")
     \/ Goto(t, "queueing", "ended")
     \/ Goto(t, "reply500", "unlocking")
     \/ Goto(t, "replying", "finishing")
  /\ UNCHANGED <<debug, counters, gate, success, replied>>

-----------------------------------------------------------------------------
Handle(t) == \/ Reject(t)
             \/ EnterQueue(t)
             \/ Bump(t)
             \/ Lock(t)
             \/ LeaveQueue(t)
             \/ RecordFailure(t)
             \/ BeginActive(t)
             \/ MarkStarted(t)
             \/ \E ok \in BOOLEAN : Computed(t, ok)
             \/ ComputePanics(t)
             \/ ReplyEarly(t)
             \/ Reply(t)
             \/ FinishActive(t)
             \/ Settle(t)
             \/ ClearStarted(t)
             \/ Unlock(t)
             \/ TracePanics(t)

AllEnded == /\ \A t \in Thread : pc[t] = "ended"
            /\ UNCHANGED daemonVars

Next == (\E t \in Thread : Receive(t) \/ Handle(t)) \/ AllEnded

Spec == Init /\ [][Next]_daemonVars

\* Threads are scheduled; a job ends; the mutex is given to a waiting thread
\* each time it is free, but nothing says in which order (no fairness per
\* waiter is assumed beyond what finitely many requests give).
Fairness == \A t \in Thread : WF_daemonVars(Handle(t))

FairSpec == Spec /\ Fairness

-----------------------------------------------------------------------------
TypeOK ==
  /\ debug \in BOOLEAN
  /\ {active, queued, total, completed, failed, seq} \subseteq Nat
  /\ current \in Thread \cup {Nobody}
  /\ owner \in Thread \cup {Nobody}
  /\ poisoned \in BOOLEAN
  /\ pc \in [Thread -> PC]
  /\ success \subseteq Thread
  /\ replied \subseteq Thread

At(places) == {t \in Thread : pc[t] \in places}

Holding == At({"granted", "leaving", "starting", "marking", "beginning", "computing",
               "refused", "refusing", "failing", "recording", "reply500"})

(* The GPU runs one job at a time, and none once a panic may have left it  *)
(* in an unknown state: only the thread that holds an unpoisoned gate is   *)
(* in the critical section, through every unwinding and every handover.    *)
GPUExclusive ==
  /\ Cardinality(At({"starting", "marking", "beginning", "computing"})) <= 1
  /\ \A t \in Holding : owner = t
  /\ poisoned => At({"leaving", "starting", "marking", "beginning", "computing"}) = {}

(* When no thread is between its first and its last step, the counters are *)
(* back at zero, every request has been counted once as completed or as    *)
(* failed, and the gate is free; whatever panicked on the way.  A panic at *)
(* a trace point, before or in the queue, leaves a request uncounted.      *)
AtRest == \A t \in Thread : pc[t] \in {"idle", "ended"}
AllAccounted ==
  AtRest => /\ active = 0
            /\ owner = Nobody
            /\ ~debug => queued = 0 /\ total = completed + failed
            /\ completed = Cardinality(success)

(* Without trace output, a client left without an answer lost it to a      *)
(* panic under the gate: its job is not marked successful, and the gate is *)
(* poisoned, so that nobody uses the GPU after it.                         *)
SilenceIsAFailure ==
  ~debug => \A t \in Thread :
    (pc[t] = "ended" /\ t \notin replied) => (t \notin success /\ poisoned)

(* Every request that came in is over at last, the ones that waited behind *)
(* a job that panicked included, and the mutex ends up free.               *)
EveryRequestEnds ==
  /\ \A t \in Thread : pc[t] # "idle" ~> pc[t] = "ended"
  /\ <>[](owner = Nobody)
=============================================================================
