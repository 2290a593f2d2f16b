--------------------------- MODULE FencedDispatch ---------------------------
(***************************************************************************)
(* Dispatchers, lease gate and daemon together: each caller runs           *)
(* webgpu_submit_fenced of scripts/cluster/dispatch.py once (acquire,      *)
(* compute, release, each an HTTP exchange with the gate of LeaseGate),    *)
(* and the gate's compute handler of that caller sends the job on to the   *)
(* daemon.  A batch is a client whose calls follow one another, one of the *)
(* interleavings of independent callers.                                   *)
(*                                                                         *)
(* A caller stops waiting at any time (its socket timeout, 120 s unless    *)
(* told otherwise, a reset, an unusable reply); the request it gave up on  *)
(* is still in the gate's hands and is served later, or never.  Dispatch   *)
(* neither renews a lease nor tries a call again.                          *)
(***************************************************************************)
EXTENDS LeaseGate

CONSTANT TTL   \* --lease-ttl-ms of every caller

ASSUME DispatchAssumption == TTL \in OfferedTTL

VARIABLES call,      \* where each caller is in webgpu_submit_fenced
          request,   \* the state of each caller's three requests
          granted,   \* the lease identity in the gate's acquire reply
          executing  \* the callers whose job the daemon is executing

callerVars == <<call, granted>>
dispatchVars == <<vars, call, request, granted, executing>>

Caller == Handlers
Kind == {"acquire", "compute", "release"}

\* none: not sent; sent: not served yet; serving: compute is under way;
\* ok, refused: the reply is there to be read.
RequestState == {"none", "sent", "serving", "ok", "refused"}

Marked(c, kind, state) == [request EXCEPT ![c][kind] = state]

DispatchInit == /\ Init
                /\ call = [c \in Caller |-> "idle"]
                /\ request = [c \in Caller |-> [k \in Kind |-> "none"]]
                /\ granted = [c \in Caller |-> NoIdentity]
                /\ executing = {}

-----------------------------------------------------------------------------
(* The caller.                                                             *)

Step(c, from, to) == /\ call[c] = from
                     /\ call' = [call EXCEPT ![c] = to]
                     /\ UNCHANGED <<vars, granted, executing>>

\* webgpu_acquire_lease
SendAcquire(c) == /\ Step(c, "idle", "acquiring")
                  /\ request' = Marked(c, "acquire", "sent")

\* The reply carries the lease; webgpu_submit sends the job under it.
SendCompute(c) == /\ Step(c, "acquiring", "computing")
                  /\ request[c]["acquire"] = "ok"
                  /\ request' = Marked(c, "compute", "sent")

\* No lease, or none that the caller knows of: it gives up at once.
AcquireFails(c) == /\ Step(c, "acquiring", "failed")
                   /\ UNCHANGED request

\* The result is there; it counts once the release has been confirmed.
SendRelease(c) == /\ Step(c, "computing", "releasing")
                  /\ request[c]["compute"] = "ok"
                  /\ request' = Marked(c, "release", "sent")

\* Refused, fenced, broken off or timed out: release and fail.
ComputeFails(c) == /\ Step(c, "computing", "abandoning")
                   /\ request' = Marked(c, "release", "sent")

ReleaseConfirmed(c) == /\ Step(c, "releasing", "ok")
                       /\ request[c]["release"] = "ok"
                       /\ UNCHANGED request

\* Mutant of ReleaseFails: the result is returned all the same.
ReleaseIgnored(c) == /\ Step(c, "releasing", "ok")
                     /\ UNCHANGED request

\* A good result is given up when its release is not confirmed.
ReleaseFails(c) == /\ Step(c, "releasing", "failed")
                   /\ UNCHANGED request

\* Whatever came of the release, the first failure is the one reported.
Abandon(c) == /\ Step(c, "abandoning", "failed")
              /\ UNCHANGED request

Dispatch(c) == \/ SendAcquire(c)
               \/ SendCompute(c)
               \/ AcquireFails(c)
               \/ SendRelease(c)
               \/ ComputeFails(c)
               \/ ReleaseConfirmed(c)
               \/ ReleaseFails(c)
               \/ Abandon(c)

-----------------------------------------------------------------------------
(* The gate at work on a request, in the caller's sight or out of it.      *)

ServeAcquire(c) ==
  /\ request[c]["acquire"] = "sent"
  /\ \E token \in Token : Acquire(TTL, token)
  /\ granted' = [granted EXCEPT ![c] = IdentityOf(lease)']
  /\ request' = Marked(c, "acquire", "ok")
  /\ UNCHANGED <<call, executing>>

ServeRelease(c) ==
  /\ request[c]["release"] = "sent"
  /\ Release(granted[c])
  /\ request' = Marked(c, "release", "ok")
  /\ UNCHANGED <<callerVars, executing>>

ServeBegin(c) ==
  /\ request[c]["compute"] = "sent"
  /\ Begin(c, granted[c])
  /\ request' = Marked(c, "compute", "serving")
  /\ UNCHANGED <<callerVars, executing>>

\* lease_held or compute_in_flight; no_lease or another's; not valid or busy.
Refused(c, kind) ==
  CASE kind = "acquire" -> inFlight # NoIdentity \/ LeaseActive
    [] kind = "release" -> ~Matches(granted[c])
    [] kind = "compute" -> ~Valid(granted[c]) \/ inFlight # NoIdentity

\* An expired lease that a compute request names goes with the refusal.
Refuse(c, kind) ==
  /\ request[c][kind] = "sent"
  /\ Refused(c, kind)
  /\ IF kind = "compute" /\ Matches(granted[c]) THEN Status ELSE UNCHANGED vars
  /\ request' = Marked(c, kind, "refused")
  /\ UNCHANGED <<callerVars, executing>>

ServeForward(c) ==
  /\ Forward(c)
  /\ executing' = executing \cup {c}
  /\ UNCHANGED <<callerVars, request>>

\* The daemon is done with a job, whether or not anyone waits for it.
DaemonDone(c) ==
  /\ c \in executing
  /\ executing' = executing \ {c}
  /\ UNCHANGED <<vars, callerVars, request>>

\* The daemon's answer is in only after it is done; a failed exchange, the
\* 300 s timeout among them, leaves the daemon as it is.
ServeFinish(c, ready) ==
  /\ ready => c \notin executing
  /\ Finish(c, ready)
  /\ request' = IF Authorized(req[c], ready) THEN request
                ELSE Marked(c, "compute", "refused")
  /\ UNCHANGED <<callerVars, executing>>

ServeWrite(c) ==
  /\ Write(c)
  /\ request' = Marked(c, "compute", "ok")
  /\ UNCHANGED <<callerVars, executing>>

\* Exchanges under way break off; a request still on its way reaches the new
\* process.
GateRestart ==
  /\ Restart
  /\ request' = [c \in Caller |-> [k \in Kind |->
                   IF request[c][k] = "serving" THEN "refused" ELSE request[c][k]]]
  /\ UNCHANGED <<callerVars, executing>>

Serve(c) == \/ ServeAcquire(c)
            \/ ServeRelease(c)
            \/ ServeBegin(c)
            \/ \E kind \in Kind : Refuse(c, kind)
            \/ ServeForward(c)
            \/ \E ready \in BOOLEAN : ServeFinish(c, ready)
            \/ ServeWrite(c)

TimePasses == Tick /\ UNCHANGED <<call, request, granted, executing>>

AllDone == /\ \A c \in Caller : call[c] \in {"ok", "failed"}
           /\ UNCHANGED dispatchVars

DispatchNext == \/ \E c \in Caller : Dispatch(c) \/ Serve(c) \/ DaemonDone(c)
                \/ TimePasses
                \/ GateRestart
                \/ AllDone

DispatchSpec == DispatchInit /\ [][DispatchNext]_dispatchVars

\* Time passes; a caller comes to the end of a wait (its timeout); a handler
\* that began keeps running; a request that arrived is served.  The daemon
\* may hang for ever.
DispatchFairness ==
  /\ WF_dispatchVars(TimePasses)
  /\ \A c \in Caller : /\ WF_dispatchVars(Dispatch(c))
                       /\ WF_dispatchVars(Serve(c))

FairDispatchSpec == DispatchSpec /\ DispatchFairness

-----------------------------------------------------------------------------
DispatchTypeOK ==
  /\ TypeOK
  /\ call \in [Caller -> {"idle", "acquiring", "computing", "releasing",
                          "abandoning", "ok", "failed"}]
  /\ request \in [Caller -> [Kind -> RequestState]]
  /\ granted \in [Caller -> Identity \cup {NoIdentity}]
  /\ executing \subseteq Caller

(* A caller reports success only when the gate authorized a result under   *)
(* its own lease, and that lease is over: no success leaves the slot held. *)
SuccessIsAcceptedAndReleased ==
  \A c \in Caller : call[c] = "ok" => granted[c] \in accepted /\ granted[c] \in ended

(* A caller that gave its lease up is really out: once its release has     *)
(* been confirmed, its own late compute request finds no way in.           *)
NoEntryAfterRelease ==
  [][\A c \in Caller : request[c]["release"] = "ok" => ~Begin(c, granted[c])]_dispatchVars

(* The order of success: a lease granted to someone else after mine means  *)
(* that no result of mine will be let through any more.                    *)
LateResultsAreFenced ==
  [][\A c, d \in Caller :
       (/\ granted[c] # NoIdentity
        /\ granted[c].instance = granted[d].instance
        /\ granted[c].epoch < granted[d].epoch)
       => (granted[c] \in accepted' => granted[c] \in accepted)
    ]_dispatchVars

(* However the callers end, with replies lost and leases orphaned, the     *)
(* slot is free again: TTL expiry and the gate's own timeout see to it.    *)
SlotFreed == <>[](~LeaseActive /\ inFlight = NoIdentity)

(* "a new caller is never told it owns the gated backend while a stale     *)
(* computation is still physically executing through the gate"             *)
(* (BLITTER_LEASE_FENCING_V1.md:128).                                      *)
NoStaleExecution ==
  \A c, d \in Caller :
    (/\ call[c] = "computing"
     /\ IdentityOf(lease) = granted[c]
     /\ LeaseActive
     /\ d \in executing) => d = c
=============================================================================
