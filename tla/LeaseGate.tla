----------------------------- MODULE LeaseGate ------------------------------
(***************************************************************************)
(* The lease/fencing gate of experiments/webgpu_blitter/lease_gate.py: the *)
(* LeaseState object, whose methods run under one mutex, and the threads   *)
(* of ThreadingHTTPServer that handle POST /compute, which call it before  *)
(* and after a request to the daemon made outside that mutex.              *)
(*                                                                         *)
(* A method that holds the mutex from its first to its last access is one  *)
(* action; a compute handler is a sequence of actions that everything else *)
(* may interleave.  A request that is refused leaves the state as it was   *)
(* and is a stuttering step, unless the refusal itself drops an expired    *)
(* lease (DropExpired).                                                    *)
(*                                                                         *)
(* Time: `deadline_ns' is kept as `left', the time that remains until the  *)
(* deadline, deadline - now where that is positive and 0 once it is not,   *)
(* so now < deadline is left > 0 and Tick lets it shrink.                  *)
(*                                                                         *)
(* Left out, because no transition reads them: the holder's name and       *)
(* expected_ms (telemetry), the request and response bodies, the fields of *)
(* status().  The values 0 and NoToken stand for Python's None.            *)
(***************************************************************************)
EXTENDS Naturals, FiniteSets

CONSTANTS Handlers,      \* threads that serve POST /compute
          Token,         \* what secrets.token_hex can return
          NoToken,       \* no lease
          MinTTL, MaxTTL,\* min_ttl_ms, max_ttl_ms
          OfferedTTL,    \* the ttl_ms values clients send
          Debug,         \* --debug: tracing to stderr, which may be closed
          MaxEpoch,      \* bound on the acquisitions of one process
          MaxInstance    \* bound on the processes

ASSUME TTLAssumption == /\ MinTTL \in Nat \ {0}
                        /\ MaxTTL \in Nat
                        /\ MinTTL <= MaxTTL
                        /\ OfferedTTL \subseteq Nat
ASSUME TokenAssumption == NoToken \notin Token
ASSUME BoundAssumption == /\ MaxEpoch \in Nat
                          /\ MaxInstance \in Nat \ {0}
                          /\ Debug \in BOOLEAN

VARIABLES instance,  \* instance_id: the process, numbered in order of start
          epoch,     \* LeaseState._epoch
          lease,     \* LeaseState._lease
          inFlight,  \* LeaseState._in_flight
          pc,        \* where each compute handler is
          req,       \* the identity of the request it serves
          ended,     \* history: identities whose lease expired or was revoked
          accepted   \* history: identities of which a result was authorized

gateVars == <<instance, epoch, lease, inFlight>>
handlerVars == <<pc, req>>
vars == <<gateVars, handlerVars, ended, accepted>>

-----------------------------------------------------------------------------
\* The identities a well-formed request can carry (parse_identity).
Identity == [instance : 1..MaxInstance, epoch : 1..MaxEpoch, token : Token]
NoIdentity == [instance |-> 0, epoch |-> 0, token |-> NoToken]

NoLease == [epoch |-> 0, token |-> NoToken, left |-> 0, revoked |-> FALSE]
Lease == [epoch : 1..MaxEpoch, token : Token, left : Nat, revoked : BOOLEAN]

\* Who holds lease l, as issued by the running process (_identity_for).
IdentityOf(l) == [instance |-> instance, epoch |-> l.epoch, token |-> l.token]

ValidTTL(ttl) == ttl \in MinTTL..MaxTTL

Expired(l) == l.left = 0

\* _lease_active_locked
LeaseActive == lease # NoLease /\ ~lease.revoked /\ ~Expired(lease)

\* The identity is the current lease's, whatever the deadline says.
Matches(id) == lease # NoLease /\ id = IdentityOf(lease)

\* Mutant of Valid: the deadline is checked, the identity is not.
ValidForAnyone(id) == lease # NoLease /\ ~lease.revoked /\ ~Expired(lease)

\* _validate_identity_locked returns instead of raising.
Valid(id) == Matches(id) /\ ~lease.revoked /\ ~Expired(lease)

\* The lease after _cleanup_expired_if_idle_locked.
Cleaned == IF inFlight = NoIdentity /\ ~LeaseActive THEN NoLease ELSE lease

-----------------------------------------------------------------------------
Init == /\ instance = 1
        /\ epoch = 0
        /\ lease = NoLease
        /\ inFlight = NoIdentity
        /\ pc = [h \in Handlers |-> "idle"]
        /\ req = [h \in Handlers |-> NoIdentity]
        /\ ended = {}
        /\ accepted = {}

\* Mutants of Acquire: in_flight is not looked at; the counter is not stored.
AcquireOverWork(ttl, token) ==
  /\ ValidTTL(ttl)
  /\ epoch < MaxEpoch
  /\ ~LeaseActive
  /\ token \notin {id.token : id \in ended}
  /\ epoch' = epoch + 1
  /\ lease' = [epoch |-> epoch + 1, token |-> token, left |-> ttl, revoked |-> FALSE]
  /\ UNCHANGED <<instance, inFlight, handlerVars, ended, accepted>>

AcquireSameEpoch(ttl, token) ==
  /\ ValidTTL(ttl)
  /\ epoch < MaxEpoch
  /\ inFlight = NoIdentity
  /\ Cleaned = NoLease
  /\ token \notin {id.token : id \in ended}
  /\ lease' = [epoch |-> epoch + 1, token |-> token, left |-> ttl, revoked |-> FALSE]
  /\ UNCHANGED <<instance, epoch, inFlight, handlerVars, ended, accepted>>

\* POST /lease/acquire.  The token is new: 256 random bits do not repeat.
Acquire(ttl, token) ==
  /\ ValidTTL(ttl)
  /\ epoch < MaxEpoch
  /\ inFlight = NoIdentity
  /\ Cleaned = NoLease
  /\ token \notin {id.token : id \in ended}
  /\ epoch' = epoch + 1
  /\ lease' = [epoch |-> epoch + 1, token |-> token, left |-> ttl, revoked |-> FALSE]
  /\ UNCHANGED <<instance, inFlight, handlerVars, ended, accepted>>

\* Mutant of Renew: only the identity is compared.
RenewUnchecked(id, ttl) ==
  /\ ValidTTL(ttl)
  /\ Matches(id)
  /\ lease' = [lease EXCEPT !.left = ttl]
  /\ UNCHANGED <<instance, epoch, inFlight, handlerVars, ended, accepted>>

\* POST /lease/renew: the new deadline counts from now, so it may be nearer.
Renew(id, ttl) ==
  /\ ValidTTL(ttl)
  /\ Valid(id)
  /\ lease' = [lease EXCEPT !.left = ttl]
  /\ UNCHANGED <<instance, epoch, inFlight, handlerVars, ended, accepted>>

\* Mutant of Release: an idle lease is acknowledged but kept.
ReleaseOnlyInFlight(id) ==
  /\ Matches(id)
  /\ lease' = IF inFlight = NoIdentity
                THEN lease
                ELSE [lease EXCEPT !.revoked = TRUE, !.left = 0]
  /\ ended' = ended \cup {id}
  /\ UNCHANGED <<instance, epoch, inFlight, handlerVars, accepted>>

\* POST /lease/release.  It looks at neither `revoked' nor the deadline.
Release(id) ==
  /\ Matches(id)
  /\ lease' = IF inFlight = NoIdentity
                THEN NoLease
                ELSE [lease EXCEPT !.revoked = TRUE, !.left = 0]
  /\ ended' = ended \cup {id}
  /\ UNCHANGED <<instance, epoch, inFlight, handlerVars, accepted>>

\* Mutant of DropExpired: work in flight does not keep the lease.
DropExpiredAlways(id) ==
  /\ Matches(id)
  /\ ~lease.revoked
  /\ Expired(lease)
  /\ lease' = NoLease
  /\ UNCHANGED <<instance, epoch, inFlight, handlerVars, ended, accepted>>

\* renew or begin_compute is refused because the deadline has passed; the
\* refusal drops the lease when nothing is in flight.
DropExpired(id) ==
  /\ Matches(id)
  /\ ~lease.revoked
  /\ Expired(lease)
  /\ inFlight = NoIdentity
  /\ lease' = NoLease
  /\ UNCHANGED <<instance, epoch, inFlight, handlerVars, ended, accepted>>

\* GET /status drops a dead lease that nothing uses.
Status ==
  /\ lease' = Cleaned
  /\ UNCHANGED <<instance, epoch, inFlight, handlerVars, ended, accepted>>

\* Mutant of Tick: the remaining time is not stopped at zero.
TickBelowZero ==
  /\ lease # NoLease
  /\ lease' = [lease EXCEPT !.left = @ - 1]
  /\ ended' = IF lease.left = 1 THEN ended \cup {IdentityOf(lease)} ELSE ended
  /\ UNCHANGED <<instance, epoch, inFlight, handlerVars, accepted>>

\* A lease's deadline comes nearer; the lease ends when it arrives.
Tick ==
  /\ lease.left > 0
  /\ lease' = [lease EXCEPT !.left = @ - 1]
  /\ ended' = IF lease.left = 1 THEN ended \cup {IdentityOf(lease)} ELSE ended
  /\ UNCHANGED <<instance, epoch, inFlight, handlerVars, accepted>>

-----------------------------------------------------------------------------
(* One POST /compute: idle -> begun -> forwarded -> writing -> idle.       *)

\* Mutant of Begin: a second compute under the same lease is let in.
BeginBeside(h, id) ==
  /\ pc[h] = "idle"
  /\ Valid(id)
  /\ inFlight' = id
  /\ pc' = [pc EXCEPT ![h] = "begun"]
  /\ req' = [req EXCEPT ![h] = id]
  /\ UNCHANGED <<instance, epoch, lease, ended, accepted>>

\* begin_compute
Begin(h, id) ==
  /\ pc[h] = "idle"
  /\ Valid(id)
  /\ inFlight = NoIdentity
  /\ inFlight' = id
  /\ pc' = [pc EXCEPT ![h] = "begun"]
  /\ req' = [req EXCEPT ![h] = id]
  /\ UNCHANGED <<instance, epoch, lease, ended, accepted>>

\* The request goes to the daemon, outside the mutex.
Forward(h) ==
  /\ pc[h] = "begun"
  /\ pc' = [pc EXCEPT ![h] = "forwarded"]
  /\ UNCHANGED <<gateVars, req, ended, accepted>>

\* The trace line between begin_compute and the try block raises (stderr is
\* closed): the thread ends, and no finish_compute will follow.
TraceRaises(h) ==
  /\ Debug
  /\ pc[h] = "begun"
  /\ pc' = [pc EXCEPT ![h] = "idle"]
  /\ req' = [req EXCEPT ![h] = NoIdentity]
  /\ UNCHANGED <<gateVars, ended, accepted>>

\* Mutant of Authorized: no second check at commit.
AuthorizedOnReply(id, ready) == ready

\* finish_compute's decision.
Authorized(id, ready) == ready /\ Valid(id)

\* Mutants of Finish: a failed exchange ends the handler without
\* finish_compute; a dead lease is not dropped.
FinishOnlyReady(h, ready) ==
  /\ pc[h] = "forwarded"
  /\ inFlight = req[h]
  /\ inFlight' = IF ready THEN NoIdentity ELSE inFlight
  /\ lease' = IF ready /\ ~LeaseActive THEN NoLease ELSE lease
  /\ pc' = [pc EXCEPT ![h] = IF Authorized(req[h], ready) THEN "writing" ELSE "idle"]
  /\ req' = [req EXCEPT ![h] = IF Authorized(req[h], ready) THEN @ ELSE NoIdentity]
  /\ accepted' = IF Authorized(req[h], ready) THEN accepted \cup {req[h]} ELSE accepted
  /\ UNCHANGED <<instance, epoch, ended>>

FinishKeepsLease(h, ready) ==
  /\ pc[h] = "forwarded"
  /\ inFlight = req[h]
  /\ inFlight' = NoIdentity
  /\ pc' = [pc EXCEPT ![h] = IF Authorized(req[h], ready) THEN "writing" ELSE "idle"]
  /\ req' = [req EXCEPT ![h] = IF Authorized(req[h], ready) THEN @ ELSE NoIdentity]
  /\ accepted' = IF Authorized(req[h], ready) THEN accepted \cup {req[h]} ELSE accepted
  /\ UNCHANGED <<instance, epoch, lease, ended>>

\* finish_compute, once the daemon has answered in full (ready) or the
\* exchange has failed: refused, broken off, over the size limit, or silent
\* for the 300 s of the socket timeout.  The authorized result is about to
\* be written; any other handler has only an error to send.
Finish(h, ready) ==
  /\ pc[h] = "forwarded"
  /\ inFlight = req[h]
  /\ inFlight' = NoIdentity
  /\ lease' = IF LeaseActive THEN lease ELSE NoLease
  /\ IF Authorized(req[h], ready)
       THEN /\ pc' = [pc EXCEPT ![h] = "writing"]
            /\ accepted' = accepted \cup {req[h]}
            /\ UNCHANGED req
       ELSE /\ pc' = [pc EXCEPT ![h] = "idle"]
            /\ req' = [req EXCEPT ![h] = NoIdentity]
            /\ UNCHANGED accepted
  /\ UNCHANGED <<instance, epoch, ended>>

\* The result bytes go to the caller; no lock is held.
Write(h) ==
  /\ pc[h] = "writing"
  /\ pc' = [pc EXCEPT ![h] = "idle"]
  /\ req' = [req EXCEPT ![h] = NoIdentity]
  /\ UNCHANGED <<gateVars, ended, accepted>>

\* The gate's process ends, with its threads, and a new one starts.
Restart ==
  /\ instance < MaxInstance
  /\ instance' = instance + 1
  /\ epoch' = 0
  /\ lease' = NoLease
  /\ inFlight' = NoIdentity
  /\ pc' = [h \in Handlers |-> "idle"]
  /\ req' = [h \in Handlers |-> NoIdentity]
  /\ ended' = IF lease = NoLease THEN ended ELSE ended \cup {IdentityOf(lease)}
  /\ UNCHANGED accepted

Handle(h) == \/ \E id \in Identity : Begin(h, id)
             \/ Forward(h)
             \/ TraceRaises(h)
             \/ \E ready \in BOOLEAN : Finish(h, ready)
             \/ Write(h)

LeaseCall == \/ \E ttl \in OfferedTTL, token \in Token : Acquire(ttl, token)
             \/ \E id \in Identity, ttl \in OfferedTTL : Renew(id, ttl)
             \/ \E id \in Identity : Release(id) \/ DropExpired(id)
             \/ Status

Next == \/ LeaseCall
        \/ \E h \in Handlers : Handle(h)
        \/ Tick
        \/ Restart

Spec == Init /\ [][Next]_vars

-----------------------------------------------------------------------------
TypeOK ==
  /\ instance \in 1..MaxInstance
  /\ epoch \in 0..MaxEpoch
  /\ lease \in Lease \cup {NoLease}
  /\ inFlight \in Identity \cup {NoIdentity}
  /\ pc \in [Handlers -> {"idle", "begun", "forwarded", "writing"}]
  /\ req \in [Handlers -> Identity \cup {NoIdentity}]
  /\ ended \subseteq Identity
  /\ accepted \subseteq Identity

(* Work in flight keeps its own lease in place, expired or revoked though  *)
(* it may be, so that no other owner can appear beside it.  Every path     *)
(* that clears _lease checks _in_flight, on its own terms.                 *)
InFlightKeepsLease == inFlight # NoIdentity => Matches(inFlight)

(* A handler between begin_compute and finish_compute is the one in        *)
(* flight: finish_compute's RuntimeError "in-flight identity corruption"   *)
(* cannot be raised, and two handlers are never at the daemon together.    *)
Working(h) == pc[h] \in {"begun", "forwarded"}
OneAtTheDaemon == \A h \in Handlers : Working(h) =>
                    /\ inFlight # NoIdentity
                    /\ inFlight = req[h]
                    /\ \A g \in Handlers : Working(g) => g = h

(* An identity that expired or was released is never valid again, whatever *)
(* is renewed, retried, released twice or restarted after it; and a lease  *)
(* the gate still remembers as dead is one of those.                       *)
NoResurrection == /\ \A id \in ended : ~Valid(id)
                  /\ (lease # NoLease /\ ~LeaseActive) => IdentityOf(lease) \in ended

(* The epoch is a fence: within one process, every identity that ended     *)
(* before the present lease was granted has a smaller epoch than it.       *)
EpochFence == lease # NoLease =>
                \A id \in ended : (id.instance = instance /\ id # IdentityOf(lease))
                                    => id.epoch < lease.epoch

(* The commit fence: a handler is let through to write a result only if    *)
(* its lease has been neither released nor expired at any time since it    *)
(* was granted, the whole time at the daemon included.                     *)
CommitFence == [][\A h \in Handlers :
                    (pc[h] # "writing" /\ pc'[h] = "writing")
                      => req'[h] \notin ended']_vars

(* What makes the facts above inductive: identities number processes and   *)
(* grants in order, none is ahead of the counters, the lease is always the *)
(* latest grant, and a revoked lease has no time left.                     *)
Numbered == /\ \A id \in ended : /\ id.instance <= instance
                                 /\ id.instance = instance => id.epoch <= epoch
            /\ lease # NoLease => lease.epoch = epoch
            /\ lease.revoked => Expired(lease)

GateInvariant == /\ TypeOK
                 /\ Numbered
                 /\ InFlightKeepsLease
                 /\ OneAtTheDaemon
                 /\ NoResurrection
                 /\ EpochFence

(* A lease released while its work was in flight is gone in the end.       *)
ReleaseTakesEffect == lease.revoked ~> ~lease.revoked

(* The gate keeps the promise of FencedSlot: the slot is owned by the      *)
(* identity of the active lease.                                           *)
Promise == INSTANCE FencedSlot WITH
             holder <- IF LeaseActive THEN IdentityOf(lease) ELSE NoIdentity,
             working <- inFlight,
             spent <- ended
KeepsPromise == Promise!SlotSpec
=============================================================================
