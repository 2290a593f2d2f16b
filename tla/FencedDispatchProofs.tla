------------------------ MODULE FencedDispatchProofs ------------------------
(***************************************************************************)
(* First the lease gate on its own, for every set of handlers and tokens,  *)
(* every TTL range and every bound on epochs and processes, with tracing   *)
(* on or off.                                                              *)
(*                                                                         *)
(* Then any number of callers around it, with every exchange lost, late or *)
(* broken off at will.  Each step of the composition is a step of the gate *)
(* or none (GateStep), so the gate's invariant holds there too.  To it     *)
(* Told adds what the state of a caller's three requests says of the gate. *)
(***************************************************************************)
EXTENDS FencedDispatch, TLAPS

-----------------------------------------------------------------------------
(* The lease gate.                                                         *)

(* No identity and no lease is mistaken for the None of the code.          *)
LEMMA NoneIsNobody == /\ NoIdentity \notin Identity
                      /\ NoLease \notin Lease
  BY TokenAssumption DEF NoIdentity, Identity, NoLease, Lease

(* The running process issues well-formed identities.                      *)
LEMMA IssuedIdentity ==
  ASSUME TypeOK, NEW l \in Lease
  PROVE  IdentityOf(l) \in Identity
  BY DEF TypeOK, IdentityOf, Lease, Identity

LEMMA InitInvariant == Init => GateInvariant
  <1> SUFFICES ASSUME Init PROVE GateInvariant
    OBVIOUS
  <1>1. TypeOK
    BY BoundAssumption DEF Init, TypeOK
  <1>2. Numbered
    BY DEF Init, Numbered, NoLease
  <1>3. OneAtTheDaemon /\ InFlightKeepsLease
    BY DEF Init, OneAtTheDaemon, Working, InFlightKeepsLease
  <1>4. NoResurrection /\ EpochFence
    BY DEF Init, NoResurrection, EpochFence
  <1> QED
    BY <1>1, <1>2, <1>3, <1>4 DEF GateInvariant

(* Type correctness of each step.                                          *)
LEMMA NextTypeOK == TypeOK /\ [Next]_vars => TypeOK'
  <1> SUFFICES ASSUME TypeOK, [Next]_vars PROVE TypeOK'
    OBVIOUS
  <1> USE DEF TypeOK, gateVars, handlerVars
  <1>1. ASSUME NEW ttl \in OfferedTTL, NEW token \in Token, Acquire(ttl, token)
        PROVE  TypeOK'
    <2>1. lease' \in Lease
      BY <1>1, TTLAssumption, BoundAssumption DEF Acquire, Lease
    <2> QED
      BY <1>1, <2>1, BoundAssumption DEF Acquire
  <1>2. ASSUME NEW id \in Identity, NEW ttl \in OfferedTTL, Renew(id, ttl)
        PROVE  TypeOK'
    <2>1. lease' \in Lease
      BY <1>2, TTLAssumption DEF Renew, Valid, Matches, Lease
    <2> QED
      BY <1>2, <2>1 DEF Renew
  <1>3. ASSUME NEW id \in Identity, Release(id)
        PROVE  TypeOK'
    <2>1. lease' \in Lease \cup {NoLease}
      BY <1>3 DEF Release, Matches, Lease
    <2> QED
      BY <1>3, <2>1 DEF Release
  <1>4. ASSUME NEW id \in Identity, DropExpired(id)
        PROVE  TypeOK'
    BY <1>4 DEF DropExpired
  <1>5. CASE Status
    BY <1>5 DEF Status, Cleaned
  <1>6. CASE Tick
    <2>1. lease \in Lease
      BY <1>6 DEF Tick, NoLease
    <2>2. lease' \in Lease
      BY <1>6, <2>1 DEF Tick, Lease
    <2> QED
      BY <1>6, <2>1, <2>2, IssuedIdentity DEF Tick
  <1>7. CASE Restart
    <2>1. ended' \subseteq Identity
      BY <1>7, IssuedIdentity DEF Restart
    <2> QED
      BY <1>7, <2>1, BoundAssumption DEF Restart
  <1>8. ASSUME NEW h \in Handlers, Handle(h)
        PROVE  TypeOK'
    <2>1. CASE \E id \in Identity : Begin(h, id)
      BY <2>1 DEF Begin
    <2>2. CASE Forward(h) \/ TraceRaises(h) \/ Write(h)
      BY <2>2 DEF Forward, TraceRaises, Write
    <2>3. ASSUME NEW ready \in BOOLEAN, Finish(h, ready)
          PROVE  TypeOK'
      <3>1. Authorized(req[h], ready) => req[h] \in Identity
        BY <2>3, IssuedIdentity DEF Authorized, Valid, Matches
      <3>2. UNCHANGED <<instance, epoch, ended>>
        BY <2>3 DEF Finish
      <3>3. lease' \in Lease \cup {NoLease} /\ inFlight' = NoIdentity
        BY <2>3 DEF Finish
      <3>4. CASE Authorized(req[h], ready)
        BY <2>3, <3>1, <3>2, <3>3, <3>4 DEF Finish
      <3>5. CASE ~Authorized(req[h], ready)
        BY <2>3, <3>2, <3>3, <3>5 DEF Finish
      <3> QED
        BY <3>4, <3>5
    <2> QED
      BY <1>8, <2>1, <2>2, <2>3 DEF Handle
  <1>9. CASE UNCHANGED vars
    BY <1>9 DEF vars
  <1> QED
    BY <1>1, <1>2, <1>3, <1>4, <1>5, <1>6, <1>7, <1>8, <1>9
    DEF Next, LeaseCall

(* The gate's state is always well-formed.                                 *)
THEOREM TypeCorrect == Spec => []TypeOK
  <1>1. Init => TypeOK
    BY InitInvariant DEF GateInvariant
  <1> QED
    BY <1>1, NextTypeOK, PTL DEF Spec

(* Grants are numbered upwards, so a new one is none of those that ended.  *)
LEMMA AcquireInvariant ==
  ASSUME GateInvariant, TypeOK', NEW ttl \in OfferedTTL, NEW token \in Token,
         Acquire(ttl, token)
  PROVE  GateInvariant'
  <1> USE DEF GateInvariant, TypeOK
  <1>1. /\ lease' # NoLease /\ ~lease'.revoked /\ lease'.left = ttl
        /\ lease'.epoch = epoch' /\ epoch' = epoch + 1 /\ ttl # 0
        /\ UNCHANGED <<instance, inFlight, pc, req, ended>>
    BY TTLAssumption DEF Acquire, NoLease, handlerVars, ValidTTL
  <1>2. IdentityOf(lease)' = [instance |-> instance, epoch |-> epoch + 1, token |-> token]
    BY DEF Acquire, IdentityOf
  <1>3. \A id \in ended : /\ id.instance = instance => id.epoch < epoch + 1
                          /\ id # IdentityOf(lease)'
    BY <1>2 DEF Numbered, Identity
  <1>4. Numbered'
    BY <1>1, <1>3 DEF Numbered, Identity, Expired
  <1>5. InFlightKeepsLease'
    BY DEF Acquire, InFlightKeepsLease
  <1>6. OneAtTheDaemon'
    BY <1>1 DEF OneAtTheDaemon, Working
  <1>7. NoResurrection'
    BY <1>1, <1>3 DEF NoResurrection, Valid, Matches, LeaseActive, Expired
  <1>8. EpochFence'
    BY <1>1, <1>3 DEF EpochFence
  <1> QED
    BY <1>4, <1>5, <1>6, <1>7, <1>8

(* Renewal is open to a live lease only, so it brings nothing back.        *)
LEMMA RenewInvariant ==
  ASSUME GateInvariant, TypeOK', NEW id \in Identity, NEW ttl \in OfferedTTL,
         Renew(id, ttl)
  PROVE  GateInvariant'
  <1> USE DEF GateInvariant, TypeOK
  <1>1. lease \in Lease /\ LeaseActive /\ IdentityOf(lease) \notin ended
    BY DEF Renew, Valid, Matches, NoResurrection, LeaseActive
  <1>2. /\ lease' \in Lease /\ lease' # NoLease /\ lease'.left = ttl /\ ttl # 0
        /\ lease'.revoked = lease.revoked /\ lease'.epoch = lease.epoch
        /\ IdentityOf(lease)' = IdentityOf(lease)
        /\ UNCHANGED <<instance, epoch, inFlight, pc, req, ended>>
    BY <1>1, NoneIsNobody, TTLAssumption
    DEF Renew, Lease, IdentityOf, handlerVars, ValidTTL
  <1>3. Numbered'
    BY <1>1, <1>2 DEF Numbered, LeaseActive, Expired
  <1>4. InFlightKeepsLease'
    BY <1>2 DEF InFlightKeepsLease, Matches
  <1>5. OneAtTheDaemon'
    BY <1>2 DEF OneAtTheDaemon, Working
  <1>6. NoResurrection'
    BY <1>1, <1>2 DEF NoResurrection, Valid, Matches, LeaseActive, Expired
  <1>7. EpochFence'
    BY <1>1, <1>2 DEF EpochFence, LeaseActive
  <1> QED
    BY <1>3, <1>4, <1>5, <1>6, <1>7

(* A released lease stays, dead, for as long as its work is in flight.     *)
LEMMA ReleaseInvariant ==
  ASSUME GateInvariant, TypeOK', NEW id \in Identity, Release(id)
  PROVE  GateInvariant'
  <1> USE DEF GateInvariant, TypeOK
  <1>1. /\ lease \in Lease /\ lease # NoLease /\ id = IdentityOf(lease)
        /\ ended' = ended \cup {id}
        /\ id.instance = instance /\ id.epoch = lease.epoch /\ lease.epoch = epoch
        /\ UNCHANGED <<instance, epoch, inFlight, pc, req>>
    BY DEF Release, Matches, IdentityOf, handlerVars, Numbered
  <1>2. OneAtTheDaemon'
    BY <1>1 DEF OneAtTheDaemon, Working
  <1>3. CASE inFlight = NoIdentity
    <2>1. lease' = NoLease
      BY <1>3 DEF Release
    <2>2. Numbered' /\ InFlightKeepsLease'
      BY <1>1, <1>3, <2>1
      DEF Numbered, NoLease, InFlightKeepsLease, Identity
    <2>3. NoResurrection' /\ EpochFence'
      BY <2>1 DEF NoResurrection, Valid, Matches, EpochFence
    <2> QED
      BY <1>2, <2>2, <2>3
  <1>4. CASE inFlight # NoIdentity
    <2>1. /\ lease' \in Lease /\ lease' # NoLease /\ lease'.revoked
          /\ lease'.left = 0 /\ lease'.epoch = lease.epoch
          /\ IdentityOf(lease)' = IdentityOf(lease)
      <3>1. lease' = [lease EXCEPT !.revoked = TRUE, !.left = 0]
        BY <1>4 DEF Release
      <3>2. /\ lease' \in Lease /\ lease'.revoked /\ lease'.left = 0
            /\ lease'.epoch = lease.epoch /\ lease'.token = lease.token
        BY <1>1, <3>1 DEF Lease
      <3> QED
        BY <1>1, <3>2, NoneIsNobody DEF IdentityOf
    <2>2. Numbered' /\ InFlightKeepsLease'
      BY <1>1, <2>1 DEF Numbered, Expired, InFlightKeepsLease, Matches, Identity
    <2>3. NoResurrection'
      BY <1>1, <2>1 DEF NoResurrection, Valid
    <2>4. EpochFence'
      BY <1>1, <2>1 DEF EpochFence
    <2> QED
      BY <1>2, <2>2, <2>3, <2>4
  <1> QED
    BY <1>3, <1>4

(* Dropping a dead lease that nothing uses: expired ones, and status().    *)
LEMMA DropInvariant ==
  ASSUME GateInvariant, TypeOK', inFlight = NoIdentity, lease' = NoLease,
         UNCHANGED <<instance, epoch, inFlight, pc, req, ended>>
  PROVE  GateInvariant'
  <1> USE DEF GateInvariant
  <1>1. Numbered' /\ InFlightKeepsLease'
    BY DEF Numbered, NoLease, InFlightKeepsLease
  <1>2. OneAtTheDaemon'
    BY DEF OneAtTheDaemon, Working
  <1>3. NoResurrection' /\ EpochFence'
    BY DEF NoResurrection, Valid, Matches, EpochFence
  <1> QED
    BY <1>1, <1>2, <1>3

LEMMA TickInvariant ==
  ASSUME GateInvariant, TypeOK', Tick
  PROVE  GateInvariant'
  <1> USE DEF GateInvariant, TypeOK
  <1>1. lease \in Lease /\ lease # NoLease
    BY NoneIsNobody DEF Tick, NoLease
  <1>2. /\ lease' \in Lease /\ lease' # NoLease /\ lease'.left = lease.left - 1
        /\ lease'.revoked = lease.revoked /\ lease'.epoch = lease.epoch
        /\ IdentityOf(lease)' = IdentityOf(lease)
        /\ UNCHANGED <<instance, epoch, inFlight, pc, req>>
    BY <1>1, NoneIsNobody DEF Tick, Lease, IdentityOf, handlerVars
  <1>3. LeaseActive /\ IdentityOf(lease) \notin ended
    BY <1>1 DEF Tick, Numbered, LeaseActive, Expired, NoResurrection, Valid, Matches
  <1>4. /\ ended' \subseteq ended \cup {IdentityOf(lease)}
        /\ ended \subseteq ended'
        /\ lease'.left = 0 <=> IdentityOf(lease) \in ended'
    BY <1>1, <1>2, <1>3 DEF Tick, Lease
  <1>5. Numbered'
    BY <1>1, <1>2, <1>3, <1>4 DEF Numbered, LeaseActive, IdentityOf
  <1>6. InFlightKeepsLease'
    BY <1>2 DEF InFlightKeepsLease, Matches
  <1>7. OneAtTheDaemon'
    BY <1>2 DEF OneAtTheDaemon, Working
  <1>8. NoResurrection'
    BY <1>1, <1>2, <1>3, <1>4
    DEF NoResurrection, Valid, Matches, LeaseActive, Expired
  <1>9. EpochFence'
    BY <1>1, <1>2, <1>4 DEF EpochFence
  <1> QED
    BY <1>5, <1>6, <1>7, <1>8, <1>9

(* The dead lease of a dead process joins those that ended.                *)
LEMMA RestartInvariant ==
  ASSUME GateInvariant, TypeOK', Restart
  PROVE  GateInvariant'
  <1> USE DEF GateInvariant, TypeOK
  <1>1. /\ instance' = instance + 1 /\ lease' = NoLease /\ inFlight' = NoIdentity
        /\ ended' \subseteq ended \cup {IdentityOf(lease)}
        /\ \A h \in Handlers : pc'[h] = "idle"
    BY DEF Restart
  <1>2. Numbered'
    BY <1>1 DEF Numbered, NoLease, IdentityOf, Identity
  <1>3. InFlightKeepsLease' /\ OneAtTheDaemon'
    BY <1>1 DEF InFlightKeepsLease, OneAtTheDaemon, Working
  <1>4. NoResurrection' /\ EpochFence'
    BY <1>1 DEF NoResurrection, Valid, Matches, EpochFence
  <1> QED
    BY <1>2, <1>3, <1>4

(* A handler that starts is the only one inside, because nothing was.      *)
LEMMA BeginInvariant ==
  ASSUME GateInvariant, TypeOK', NEW h \in Handlers, NEW id \in Identity,
         Begin(h, id)
  PROVE  GateInvariant'
  <1> USE DEF GateInvariant, TypeOK
  <1>1. /\ UNCHANGED <<instance, epoch, lease, ended>>
        /\ inFlight = NoIdentity /\ inFlight' = id /\ req'[h] = id /\ Matches(id)
        /\ \A g \in Handlers : g # h => pc'[g] = pc[g]
    BY DEF Begin, Valid
  <1>2. \A g \in Handlers : ~Working(g)
    BY <1>1 DEF OneAtTheDaemon
  <1>3. InFlightKeepsLease'
    BY <1>1 DEF InFlightKeepsLease, Matches, IdentityOf
  <1>4. OneAtTheDaemon'
    BY <1>1, <1>2, NoneIsNobody DEF OneAtTheDaemon, Working
  <1>5. Numbered' /\ NoResurrection' /\ EpochFence'
    BY <1>1
    DEF Numbered, NoResurrection, EpochFence, Valid, Matches, LeaseActive,
        Expired, IdentityOf
  <1> QED
    BY <1>3, <1>4, <1>5

(* A handler that moves on, dies or writes touches nothing but its own pc. *)
LEMMA HandlerMoveInvariant ==
  ASSUME GateInvariant, TypeOK', NEW h \in Handlers,
         Forward(h) \/ TraceRaises(h) \/ Write(h)
  PROVE  GateInvariant'
  <1> USE DEF GateInvariant, TypeOK
  <1>1. UNCHANGED <<instance, epoch, lease, inFlight, ended>>
    BY DEF Forward, TraceRaises, Write, gateVars
  <1>2. \A g \in Handlers : Working(g)' => Working(g) /\ req'[g] = req[g]
    BY DEF Forward, TraceRaises, Write, Working
  <1>3. OneAtTheDaemon'
    BY <1>1, <1>2 DEF OneAtTheDaemon
  <1>4. Numbered' /\ InFlightKeepsLease' /\ NoResurrection' /\ EpochFence'
    BY <1>1
    DEF Numbered, InFlightKeepsLease, NoResurrection, EpochFence, Valid,
        Matches, LeaseActive, Expired, IdentityOf
  <1> QED
    BY <1>3, <1>4

(* The handler that finishes is the only one inside, so the slot is empty  *)
(* and a dead lease can go.                                                *)
LEMMA FinishInvariant ==
  ASSUME GateInvariant, TypeOK', NEW h \in Handlers, NEW ready \in BOOLEAN,
         Finish(h, ready)
  PROVE  GateInvariant'
  <1> USE DEF GateInvariant, TypeOK
  <1>1. /\ UNCHANGED <<instance, epoch, ended>>
        /\ inFlight' = NoIdentity
        /\ lease' = IF LeaseActive THEN lease ELSE NoLease
        /\ Working(h) /\ ~Working(h)'
        /\ \A g \in Handlers : g # h => pc'[g] = pc[g]
    BY DEF Finish, Working
  <1>2. \A g \in Handlers : ~Working(g)'
    BY <1>1 DEF OneAtTheDaemon, Working
  <1>3. OneAtTheDaemon' /\ InFlightKeepsLease'
    BY <1>1, <1>2 DEF OneAtTheDaemon, InFlightKeepsLease
  <1>4. CASE LeaseActive
    <2>1. UNCHANGED <<instance, epoch, lease, ended>>
      BY <1>1, <1>4
    <2>2. Numbered' /\ EpochFence'
      BY <2>1 DEF Numbered, EpochFence, Expired, IdentityOf
    <2>3. NoResurrection'
      BY <2>1 DEF NoResurrection, Valid, Matches, LeaseActive, Expired, IdentityOf
    <2> QED
      BY <1>3, <2>2, <2>3
  <1>5. CASE ~LeaseActive
    <2>1. lease' = NoLease /\ UNCHANGED <<instance, epoch, ended>>
      BY <1>1, <1>5
    <2>2. Numbered'
      BY <2>1 DEF Numbered, NoLease
    <2>3. NoResurrection' /\ EpochFence'
      BY <2>1 DEF NoResurrection, EpochFence, Valid, Matches
    <2> QED
      BY <1>3, <2>2, <2>3
  <1> QED
    BY <1>4, <1>5

LEMMA NextInvariant == GateInvariant /\ [Next]_vars => GateInvariant'
  <1> SUFFICES ASSUME GateInvariant, [Next]_vars PROVE GateInvariant'
    OBVIOUS
  <1>0. TypeOK'
    BY NextTypeOK DEF GateInvariant
  <1>1. ASSUME NEW ttl \in OfferedTTL, NEW token \in Token, Acquire(ttl, token)
        PROVE  GateInvariant'
    BY <1>0, <1>1, AcquireInvariant
  <1>2. ASSUME NEW id \in Identity, NEW ttl \in OfferedTTL, Renew(id, ttl)
        PROVE  GateInvariant'
    BY <1>0, <1>2, RenewInvariant
  <1>3. ASSUME NEW id \in Identity, Release(id)
        PROVE  GateInvariant'
    BY <1>0, <1>3, ReleaseInvariant
  <1>4. ASSUME NEW id \in Identity, DropExpired(id)
        PROVE  GateInvariant'
    BY <1>0, <1>4, DropInvariant DEF DropExpired, handlerVars
  <1>5. CASE Status
    <2>1. CASE lease' = NoLease /\ inFlight = NoIdentity
      BY <1>0, <1>5, <2>1, DropInvariant DEF Status, handlerVars
    <2>2. CASE UNCHANGED vars
      BY <2>2
      DEF vars, gateVars, handlerVars, GateInvariant, TypeOK, Numbered,
          InFlightKeepsLease, OneAtTheDaemon, Working, NoResurrection, EpochFence,
          Valid, Matches, LeaseActive, Expired, IdentityOf
    <2> QED
      BY <1>5, <2>1, <2>2 DEF Status, Cleaned, vars, gateVars
  <1>6. CASE Tick
    BY <1>0, <1>6, TickInvariant
  <1>7. CASE Restart
    BY <1>0, <1>7, RestartInvariant
  <1>8. ASSUME NEW h \in Handlers, Handle(h)
        PROVE  GateInvariant'
    BY <1>0, <1>8, BeginInvariant, HandlerMoveInvariant, FinishInvariant DEF Handle
  <1>9. CASE UNCHANGED vars
    BY <1>9
    DEF vars, gateVars, handlerVars, GateInvariant, TypeOK, Numbered,
        InFlightKeepsLease, OneAtTheDaemon, Working, NoResurrection, EpochFence,
        Valid, Matches, LeaseActive, Expired, IdentityOf
  <1> QED
    BY <1>1, <1>2, <1>3, <1>4, <1>5, <1>6, <1>7, <1>8, <1>9
    DEF Next, LeaseCall

THEOREM Invariance == Spec => []GateInvariant
  BY InitInvariant, NextInvariant, PTL DEF Spec

(***************************************************************************)
(* What follows from the invariant.                                        *)
(***************************************************************************)

(* Work in flight always finds its own lease in place: begun work never    *)
(* shares the gate with another owner's lease.                             *)
THEOREM InFlightSafe == Spec => []InFlightKeepsLease
  BY Invariance, PTL DEF GateInvariant

(* At most one handler is between begin_compute and finish_compute, and    *)
(* finish_compute's identity check cannot fail.                            *)
THEOREM SingleExecution == Spec => []OneAtTheDaemon
  BY Invariance, PTL DEF GateInvariant

(* No identity comes back once it has expired or been released.            *)
THEOREM DeadStaysDead == Spec => []NoResurrection
  BY Invariance, PTL DEF GateInvariant

(* Epochs order the owners of one process.                                 *)
THEOREM EpochsOrderOwners == Spec => []EpochFence
  BY Invariance, PTL DEF GateInvariant

(* Only a finish that found the lease valid sends a handler to write.      *)
LEMMA CommitStep ==
  ASSUME GateInvariant, [Next]_vars, NEW h \in Handlers,
         pc[h] # "writing", pc'[h] = "writing"
  PROVE  \E ready \in BOOLEAN : Finish(h, ready) /\ Authorized(req[h], ready)
  <1> USE DEF GateInvariant, TypeOK
  <1>1. Next
    BY DEF vars, handlerVars
  <1>2. ~LeaseCall /\ ~Tick /\ ~Restart
    BY DEF LeaseCall, Acquire, Renew, Release, DropExpired, Status, Tick,
           Restart, handlerVars
  <1>3. PICK g \in Handlers : Handle(g)
    BY <1>1, <1>2 DEF Next
  <1>4. ~(\E id \in Identity : Begin(g, id)) /\ ~Forward(g) /\ ~TraceRaises(g) /\ ~Write(g)
    BY DEF Begin, Forward, TraceRaises, Write
  <1>5. PICK ready \in BOOLEAN : Finish(g, ready)
    BY <1>3, <1>4 DEF Handle
  <1>6. g = h /\ Authorized(req[h], ready)
    BY <1>5 DEF Finish
  <1> QED
    BY <1>5, <1>6

(* A result is let out only under a lease that never lapsed: the check at  *)
(* commit covers the whole time since the lease was granted.               *)
THEOREM CommitIsFenced == Spec => CommitFence
  <1>1. ASSUME GateInvariant, [Next]_vars, NEW h \in Handlers,
               pc[h] # "writing", pc'[h] = "writing"
        PROVE  req'[h] \notin ended'
    <2>1. PICK ready \in BOOLEAN : Finish(h, ready) /\ Authorized(req[h], ready)
      BY <1>1, CommitStep
    <2>2. Valid(req[h]) /\ UNCHANGED <<req, ended>>
      BY <2>1 DEF Authorized, Finish
    <2> QED
      BY <1>1, <2>2 DEF GateInvariant, NoResurrection
  <1>2. GateInvariant /\ [Next]_vars
          => [\A h \in Handlers : (pc[h] # "writing" /\ pc'[h] = "writing")
                                     => req'[h] \notin ended']_vars
    BY <1>1
  <1> QED
    BY <1>2, Invariance, PTL DEF Spec, CommitFence

(***************************************************************************)
(* The gate implements FencedSlot.  The owner of the slot is the identity  *)
(* of the active lease; each step of the gate is one step of the slot or   *)
(* none.                                                                   *)
(***************************************************************************)
Owner == IF LeaseActive THEN IdentityOf(lease) ELSE NoIdentity

(* A step that leaves owner, work and history alone is a stutter.          *)
LEMMA SlotStutter ==
  ASSUME Owner' = Owner, UNCHANGED <<inFlight, ended, accepted>>
  PROVE  UNCHANGED Promise!slotVars
  BY DEF Promise!slotVars, Owner

LEMMA SlotOwner ==
  ASSUME GateInvariant
  PROVE  /\ LeaseActive => /\ Owner = IdentityOf(lease)
                           /\ Owner \in Identity
                           /\ Owner \notin ended
         /\ ~LeaseActive => Owner = NoIdentity
         /\ lease = NoLease => ~LeaseActive
  <1>1. LeaseActive => lease \in Lease /\ Valid(IdentityOf(lease))
    BY DEF LeaseActive, GateInvariant, TypeOK, Valid, Matches
  <1> QED
    BY <1>1, IssuedIdentity
    DEF Owner, LeaseActive, GateInvariant, NoResurrection

LEMMA SlotStep ==
  GateInvariant /\ GateInvariant' /\ [Next]_vars
    => [Promise!SlotNext]_(Promise!slotVars)
  <1> SUFFICES ASSUME GateInvariant, GateInvariant', [Next]_vars
               PROVE  Promise!SlotNext \/ UNCHANGED Promise!slotVars
    OBVIOUS
  <1> USE SlotOwner, NoneIsNobody
  <1>1. ASSUME NEW ttl \in OfferedTTL, NEW token \in Token, Acquire(ttl, token)
        PROVE  Promise!Grant(IdentityOf(lease)')
    <2>1. Owner = NoIdentity
      BY <1>1 DEF Acquire, Cleaned
    <2>2. LeaseActive' /\ UNCHANGED <<inFlight, ended, accepted>>
      BY <1>1, TTLAssumption DEF Acquire, LeaseActive, NoLease, Expired, ValidTTL
    <2>3. Owner' = IdentityOf(lease)' /\ Owner' \notin ended'
      BY <2>2 DEF GateInvariant, NoResurrection, Valid, Matches, LeaseActive, Owner
    <2> QED
      BY <1>1, <2>1, <2>2, <2>3 DEF Promise!Grant, Owner, Acquire
  <1>2. ASSUME NEW id \in Identity, NEW ttl \in OfferedTTL, Renew(id, ttl)
        PROVE  UNCHANGED Promise!slotVars
    <2>1. LeaseActive /\ lease \in Lease
      BY <1>2 DEF Renew, Valid, Matches, LeaseActive, GateInvariant, TypeOK
    <2>2. LeaseActive' /\ IdentityOf(lease)' = IdentityOf(lease)
      BY <1>2, <2>1, TTLAssumption
      DEF Renew, LeaseActive, NoLease, Lease, Expired, ValidTTL, IdentityOf
    <2>3. Owner' = Owner
      BY <2>1, <2>2 DEF Owner
    <2> QED
      BY <1>2, <2>3, SlotStutter DEF Renew
  <1>3. ASSUME NEW id \in Identity, Release(id)
        PROVE  Promise!Lapse \/ UNCHANGED Promise!slotVars
    <2>1. /\ id = IdentityOf(lease) /\ ended' = ended \cup {id}
          /\ UNCHANGED <<inFlight, accepted>>
      BY <1>3 DEF Release, Matches
    <2>2. ~LeaseActive' /\ Owner' = NoIdentity
      <3>1. lease' = NoLease \/ lease'.revoked
        BY <1>3 DEF Release, Matches, GateInvariant, TypeOK, Lease
      <3> QED
        BY <3>1 DEF LeaseActive, Owner
    <2>3. CASE LeaseActive
      BY <2>1, <2>2, <2>3 DEF Promise!Lapse, Owner
    <2>4. CASE ~LeaseActive
      <3>1. ended' = ended
        BY <1>3, <2>1, <2>4 DEF Release, Matches, GateInvariant, NoResurrection
      <3> QED
        BY <2>1, <2>2, <2>4, <3>1, SlotStutter
    <2> QED
      BY <2>3, <2>4
  <1>4. ASSUME ~LeaseActive, lease' = NoLease, UNCHANGED <<inFlight, ended, accepted>>
        PROVE  UNCHANGED Promise!slotVars
    <2>1. Owner' = NoIdentity
      BY <1>4 DEF Owner, LeaseActive
    <2> QED
      BY <1>4, <2>1, SlotStutter
  <1>5. CASE Status
    <2>1. CASE lease' = lease
      BY <1>5, <2>1, SlotStutter DEF Status, Owner, LeaseActive, Expired, IdentityOf
    <2>2. CASE lease' # lease
      BY <1>4, <1>5, <2>2 DEF Status, Cleaned
    <2> QED
      BY <2>1, <2>2
  <1>6. CASE Tick
    <2>1. /\ lease \in Lease /\ lease # NoLease /\ LeaseActive
          /\ lease' = [lease EXCEPT !.left = lease.left - 1]
          /\ UNCHANGED <<instance, inFlight, accepted>>
      BY <1>6 DEF Tick, NoLease, LeaseActive, Expired, GateInvariant, Numbered, TypeOK
    <2>2. /\ lease' \in Lease /\ lease'.left = lease.left - 1
          /\ lease'.revoked = lease.revoked /\ lease'.epoch = lease.epoch
          /\ lease'.token = lease.token
      BY <1>6, <2>1 DEF Tick, Lease
    <2>3. lease' # NoLease /\ IdentityOf(lease)' = IdentityOf(lease)
      BY <2>1, <2>2 DEF IdentityOf
    <2>4. CASE lease.left = 1
      <3>1. ended' = ended \cup {Owner} /\ Owner' = NoIdentity /\ Owner # NoIdentity
        BY <1>6, <2>1, <2>2, <2>4 DEF Tick, LeaseActive, Expired, Owner
      <3> QED
        BY <2>1, <3>1 DEF Promise!SlotNext, Promise!Lapse, Owner
    <2>5. CASE lease.left # 1
      <3>1. LeaseActive' /\ ended' = ended
        BY <1>6, <2>1, <2>2, <2>3, <2>5 DEF Tick, LeaseActive, Expired, Lease
      <3>2. Owner' = Owner
        BY <2>1, <2>3, <3>1 DEF Owner
      <3> QED
        BY <2>1, <3>1, <3>2, SlotStutter
    <2> QED
      BY <2>4, <2>5
  <1>7. CASE Restart
    <2>1. Owner' = NoIdentity /\ inFlight' = NoIdentity /\ accepted' = accepted
      BY <1>7 DEF Restart, Owner, LeaseActive
    <2>2. ended' = ended \cup ({Owner} \ {NoIdentity})
      BY <1>7 DEF Restart, GateInvariant, NoResurrection
    <2> QED
      BY <2>1, <2>2 DEF Promise!SlotNext, Promise!Crash, Owner
  <1>8. ASSUME NEW h \in Handlers, Handle(h)
        PROVE  Promise!Enter \/ Promise!Commit \/ Promise!Abort \/ UNCHANGED Promise!slotVars
    <2>1. ASSUME NEW id \in Identity, Begin(h, id)
          PROVE  Promise!Enter
      <3>1. LeaseActive /\ Owner = id
        BY <2>1 DEF Begin, Valid, Matches, LeaseActive
      <3>2. Owner' = Owner
        BY <2>1 DEF Begin, Owner, LeaseActive, Expired, IdentityOf
      <3> QED
        BY <2>1, <3>1, <3>2 DEF Begin, Promise!Enter, Owner
    <2>2. CASE Forward(h) \/ TraceRaises(h) \/ Write(h)
      BY <2>2, SlotStutter
      DEF Forward, TraceRaises, Write, gateVars, Owner, LeaseActive, Expired, IdentityOf
    <2>3. ASSUME NEW ready \in BOOLEAN, Finish(h, ready)
          PROVE  Promise!Commit \/ Promise!Abort
      <3>1. /\ inFlight # NoIdentity /\ inFlight = req[h] /\ inFlight' = NoIdentity
            /\ UNCHANGED <<instance, ended>>
        BY <2>3 DEF Finish, GateInvariant, OneAtTheDaemon, Working
      <3>2. Owner' = Owner
        BY <2>3 DEF Finish, Owner, LeaseActive, Expired, IdentityOf
      <3>3. CASE Authorized(req[h], ready)
        <4>1. Owner = inFlight /\ accepted' = accepted \cup {inFlight}
          BY <2>3, <3>1, <3>3 DEF Finish, Authorized, Valid, Matches, LeaseActive
        <4> QED
          BY <3>1, <3>2, <4>1 DEF Promise!Commit, Owner
      <3>4. CASE ~Authorized(req[h], ready)
        <4>1. accepted' = accepted
          BY <2>3, <3>4 DEF Finish
        <4> QED
          BY <3>1, <3>2, <4>1 DEF Promise!Abort, Owner
      <3> QED
        BY <3>3, <3>4
    <2> QED
      BY <1>8, <2>1, <2>2, <2>3 DEF Handle
  <1>9. ASSUME NEW id \in Identity, DropExpired(id)
        PROVE  UNCHANGED Promise!slotVars
    BY <1>4, <1>9 DEF DropExpired, LeaseActive
  <1>10. CASE UNCHANGED vars
    BY <1>10, SlotStutter
    DEF vars, gateVars, Owner, LeaseActive, Expired, IdentityOf
  <1>11. CASE \E ttl \in OfferedTTL, token \in Token : Acquire(ttl, token)
    <2>1. PICK ttl \in OfferedTTL, token \in Token : Acquire(ttl, token)
      BY <1>11
    <2>2. IdentityOf(lease)' \in Identity
      <3>1. TypeOK' /\ lease' \in Lease
        BY <2>1 DEF GateInvariant, TypeOK, Acquire, NoLease
      <3> QED
        BY <3>1 DEF TypeOK, IdentityOf, Identity, Lease
    <2> QED
      BY <1>1, <2>1, <2>2 DEF Promise!SlotNext
  <1> QED
    BY <1>2, <1>3, <1>5, <1>6, <1>7, <1>8, <1>9, <1>10, <1>11
    DEF Next, LeaseCall, Promise!SlotNext

(* The lease gate keeps the promise of FencedSlot.                         *)
THEOREM GateKeepsPromise == Spec => KeepsPromise
  <1>1. Init => Promise!SlotInit
    BY DEF Init, Promise!SlotInit, LeaseActive, NoLease
  <1> QED
    BY <1>1, Invariance, SlotStep, PTL DEF Spec, KeepsPromise, Promise!SlotSpec

-----------------------------------------------------------------------------
(* The composition.                                                        *)

\* An identity is not ahead of the counters.
Issued(id) == /\ id.instance <= instance
              /\ id.instance = instance => id.epoch <= epoch

Told(c) ==
  /\ call[c] = "idle" => request[c]["acquire"] = "none"
  /\ call[c] \in {"idle", "acquiring"} => request[c]["compute"] = "none"
  /\ request[c]["acquire"] # "ok" => /\ call[c] \in {"idle", "acquiring", "failed"}
                                     /\ request[c]["compute"] = "none"
                                     /\ request[c]["release"] = "none"
  /\ pc[c] # "idle" => request[c]["compute"] = "serving" /\ req[c] = granted[c]
  /\ pc[c] = "writing" => req[c] \in accepted
  /\ request[c]["compute"] = "ok" => granted[c] \in accepted
  /\ request[c]["release"] = "ok" => granted[c] \in ended
  /\ call[c] \in {"releasing", "ok"} => request[c]["compute"] = "ok"
  /\ call[c] = "ok" => request[c]["release"] = "ok"
  /\ Issued(granted[c])

DispatchInvariant == /\ GateInvariant
                     /\ DispatchTypeOK
                     /\ \A c \in Caller : Told(c)

-----------------------------------------------------------------------------
LEMMA DispatchInitInvariant == DispatchInit => DispatchInvariant
  <1> SUFFICES ASSUME DispatchInit PROVE DispatchInvariant
    OBVIOUS
  <1>1. GateInvariant
    BY InitInvariant DEF DispatchInit
  <1>2. DispatchTypeOK
    BY <1>1 DEF DispatchInit, DispatchTypeOK, GateInvariant, RequestState
  <1>3. \A c \in Caller : Told(c)
    BY DEF DispatchInit, Init, Told, Issued, Caller, Kind, NoIdentity
  <1> QED BY <1>1, <1>2, <1>3 DEF DispatchInvariant

\* What the gate accepts as matching is an identity.
LEMMA MatchIsIdentity ==
  ASSUME TypeOK, NEW id, Matches(id)
  PROVE  id \in Identity
  BY IssuedIdentity DEF Matches, TypeOK

(* Every step of the composition is a step of the gate, or leaves it.      *)
LEMMA GateStep == TypeOK /\ [DispatchNext]_dispatchVars => [Next]_vars
  <1> SUFFICES ASSUME TypeOK, [DispatchNext]_dispatchVars PROVE [Next]_vars
    OBVIOUS
  <1>1. ASSUME NEW c \in Caller, Dispatch(c) PROVE UNCHANGED vars
    BY <1>1 DEF Dispatch, Step, SendAcquire, SendCompute, AcquireFails, SendRelease,
                ComputeFails, ReleaseConfirmed, ReleaseFails, Abandon
  <1>2. ASSUME NEW c \in Caller, Serve(c) PROVE [Next]_vars
    <2>1. CASE ServeAcquire(c)
      BY <2>1, DispatchAssumption DEF ServeAcquire, Next, LeaseCall
    <2>2. CASE ServeRelease(c)
      BY <2>2, MatchIsIdentity DEF ServeRelease, Release, Next, LeaseCall
    <2>3. CASE ServeBegin(c)
      <3>1. granted[c] \in Identity /\ Begin(c, granted[c])
        BY <2>3, MatchIsIdentity DEF ServeBegin, Begin, Valid
      <3> QED BY <3>1 DEF Next, Handle, Caller
    <2>4. CASE \E kind \in Kind : Refuse(c, kind)
      BY <2>4 DEF Refuse, Next, LeaseCall
    <2>5. CASE ServeForward(c) \/ (\E ready \in BOOLEAN : ServeFinish(c, ready)) \/ ServeWrite(c)
      <3>1. Handle(c)
        BY <2>5 DEF ServeForward, ServeFinish, ServeWrite, Handle
      <3> QED BY <3>1 DEF Next, Caller
    <2> QED BY <1>2, <2>1, <2>2, <2>3, <2>4, <2>5 DEF Serve
  <1>3. CASE TimePasses \/ GateRestart
    BY <1>3 DEF TimePasses, GateRestart, Next
  <1>4. CASE (\E c \in Caller : DaemonDone(c)) \/ AllDone \/ UNCHANGED dispatchVars
    BY <1>4 DEF DaemonDone, AllDone, dispatchVars
  <1> QED BY <1>1, <1>2, <1>3, <1>4 DEF DispatchNext

\* Histories and counters only grow.
LEMMA HistoryGrows ==
  ASSUME TypeOK, [Next]_vars
  PROVE  /\ accepted \subseteq accepted' /\ ended \subseteq ended'
         /\ instance' >= instance
         /\ instance' = instance => epoch' >= epoch
  <1> USE DEF vars, gateVars, handlerVars
  <1>1. CASE LeaseCall
    BY <1>1 DEF LeaseCall, Acquire, Renew, Release, DropExpired, Status, TypeOK
  <1>2. ASSUME NEW h \in Handlers, Handle(h)
        PROVE  /\ accepted \subseteq accepted' /\ UNCHANGED <<ended, instance, epoch>>
    BY <1>2 DEF Handle, Begin, Forward, TraceRaises, Finish, Write
  <1>3. CASE Tick \/ Restart
    BY <1>3 DEF Tick, Restart, TypeOK
  <1> QED BY <1>1, <1>2, <1>3 DEF Next, TypeOK

LEMMA IssuedStays ==
  ASSUME TypeOK, [Next]_vars, NEW id \in Identity \cup {NoIdentity}, Issued(id)
  PROVE  Issued(id)'
  <1>1. instance' >= instance /\ (instance' = instance => epoch' >= epoch)
    BY HistoryGrows
  <1>2. instance \in Nat /\ epoch \in Nat /\ instance' \in Nat /\ epoch' \in Nat
    BY NextTypeOK DEF TypeOK
  <1>3. id.instance \in Nat /\ id.epoch \in Nat
    BY DEF Identity, NoIdentity
  <1> QED BY <1>1, <1>2, <1>3 DEF Issued

\* A caller that a step does not touch stays told.
LEMMA UntouchedTold ==
  ASSUME DispatchInvariant, [Next]_vars, NEW c \in Caller, call'[c] = call[c],
         request'[c] = request[c], granted'[c] = granted[c],
         pc'[c] = pc[c], req'[c] = req[c]
  PROVE  Told(c)'
  <1>1. accepted \subseteq accepted' /\ ended \subseteq ended'
    BY HistoryGrows DEF DispatchInvariant, GateInvariant
  <1>2. Issued(granted[c])'
    BY IssuedStays DEF DispatchInvariant, GateInvariant, DispatchTypeOK, Told
  <1> QED BY <1>1, <1>2 DEF DispatchInvariant, Told, Issued

\* What marking a request changes.
LEMMA Marking ==
  ASSUME DispatchTypeOK, NEW c \in Caller, NEW kind \in Kind, NEW state \in RequestState,
         request' = Marked(c, kind, state)
  PROVE  /\ request' \in [Caller -> [Kind -> RequestState]]
         /\ request'[c][kind] = state
         /\ \A k \in Kind \ {kind} : request'[c][k] = request[c][k]
         /\ \A d \in Caller \ {c} : request'[d] = request[d]
  BY DEF DispatchTypeOK, Marked

-----------------------------------------------------------------------------
\* The steps of a caller.
LEMMA CallerStep ==
  ASSUME DispatchInvariant, NEW c \in Caller, NEW from, NEW to, Step(c, from, to)
  PROVE  /\ call[c] = from /\ call'[c] = to
         /\ \A d \in Caller \ {c} : call'[d] = call[d]
         /\ UNCHANGED <<instance, epoch, pc, req, ended, accepted, granted>>
         /\ UNCHANGED vars
  BY DEF Step, DispatchInvariant, DispatchTypeOK, vars, gateVars, handlerVars

LEMMA DispatchTold ==
  ASSUME DispatchInvariant, NEW c \in Caller, Dispatch(c)
  PROVE  \A d \in Caller : Told(d)'
  <1> USE DEF Kind, RequestState
  <1>0. DispatchTypeOK /\ Told(c)
    BY DEF DispatchInvariant
  <1>1. PICK from \in {"idle", "acquiring", "computing", "releasing", "abandoning"},
             to \in {"acquiring", "computing", "releasing", "abandoning", "ok", "failed"} :
          Step(c, from, to)
    BY DEF Dispatch, SendAcquire, SendCompute, AcquireFails, SendRelease, ComputeFails,
           ReleaseConfirmed, ReleaseFails, Abandon
  <1>2. /\ UNCHANGED <<instance, epoch, pc, req, ended, accepted, granted>> /\ UNCHANGED vars
        /\ \A d \in Caller \ {c} : call'[d] = call[d]
    BY <1>1, CallerStep
  <1>3. \A d \in Caller \ {c} : request'[d] = request[d]
    BY <1>0, Marking DEF Dispatch, SendAcquire, SendCompute, AcquireFails, SendRelease,
                         ComputeFails, ReleaseConfirmed, ReleaseFails, Abandon
  <1>4. \A d \in Caller \ {c} : Told(d)'
    BY <1>2, <1>3, UntouchedTold
  <1>5. Told(c)'
    <2> USE <1>0, <1>2 DEF Told, Issued
    <2>1. CASE SendAcquire(c)
      <3>1. call[c] = "idle" /\ call'[c] = "acquiring" /\ request' = Marked(c, "acquire", "sent")
        BY <2>1, CallerStep DEF SendAcquire
      <3>2. /\ request'[c]["acquire"] = "sent"
            /\ request'[c]["compute"] = request[c]["compute"]
            /\ request'[c]["release"] = request[c]["release"]
        BY <3>1, Marking
      <3> QED BY <3>1, <3>2
    <2>2. CASE SendCompute(c)
      <3>1. /\ call[c] = "acquiring" /\ call'[c] = "computing"
            /\ request[c]["acquire"] = "ok" /\ request' = Marked(c, "compute", "sent")
        BY <2>2, CallerStep DEF SendCompute
      <3>2. /\ request'[c]["compute"] = "sent"
            /\ request'[c]["acquire"] = request[c]["acquire"]
            /\ request'[c]["release"] = request[c]["release"]
        BY <3>1, Marking
      <3> QED BY <3>1, <3>2
    <2>3. CASE AcquireFails(c) \/ ReleaseConfirmed(c) \/ ReleaseFails(c) \/ Abandon(c)
      <3>1. /\ UNCHANGED request
            /\ \/ call[c] = "acquiring" /\ call'[c] = "failed"
               \/ call[c] = "releasing" /\ call'[c] = "ok" /\ request[c]["release"] = "ok"
               \/ call[c] = "releasing" /\ call'[c] = "failed"
               \/ call[c] = "abandoning" /\ call'[c] = "failed"
        BY <2>3, CallerStep DEF AcquireFails, ReleaseConfirmed, ReleaseFails, Abandon
      <3> QED BY <3>1
    <2>4. CASE SendRelease(c) \/ ComputeFails(c)
      <3>1. /\ call[c] = "computing" /\ request' = Marked(c, "release", "sent")
            /\ \/ call'[c] = "releasing" /\ request[c]["compute"] = "ok"
               \/ call'[c] = "abandoning"
        BY <2>4, CallerStep DEF SendRelease, ComputeFails
      <3>2. /\ request'[c]["release"] = "sent"
            /\ request'[c]["acquire"] = request[c]["acquire"]
            /\ request'[c]["compute"] = request[c]["compute"]
        BY <3>1, Marking
      <3> QED BY <3>1, <3>2
    <2> QED BY <2>1, <2>2, <2>3, <2>4 DEF Dispatch
  <1> QED BY <1>4, <1>5

-----------------------------------------------------------------------------
\* The steps of the gate on c's requests.
LEMMA ServeOthers ==
  ASSUME DispatchInvariant, NEW c \in Caller, Serve(c)
  PROVE  \A d \in Caller \ {c} : Told(d)'
  <1> USE DEF Kind, RequestState
  <1>1. [Next]_vars
    BY GateStep DEF DispatchInvariant, GateInvariant, DispatchNext
  <1> SUFFICES ASSUME NEW d \in Caller \ {c}
               PROVE /\ call'[d] = call[d] /\ request'[d] = request[d]
                     /\ granted'[d] = granted[d] /\ pc'[d] = pc[d] /\ req'[d] = req[d]
    BY <1>1, UntouchedTold
  <1>2. DispatchTypeOK /\ TypeOK
    BY DEF DispatchInvariant, GateInvariant
  <1>3. call'[d] = call[d] /\ granted'[d] = granted[d]
    BY <1>2 DEF Serve, ServeAcquire, ServeRelease, ServeBegin, Refuse, ServeForward,
                ServeFinish, ServeWrite, callerVars, DispatchTypeOK
  <1>4. request'[d] = request[d]
    BY <1>2, Marking DEF Serve, ServeAcquire, ServeRelease, ServeBegin, Refuse, ServeForward,
                ServeFinish, ServeWrite
  <1>5. pc'[d] = pc[d] /\ req'[d] = req[d]
    <2>1. CASE ServeAcquire(c) \/ ServeRelease(c) \/ (\E kind \in Kind : Refuse(c, kind))
      BY <2>1 DEF ServeAcquire, ServeRelease, Refuse, Acquire, Release, Status, vars, handlerVars
    <2>2. CASE ServeBegin(c)
      BY <1>2, <2>2 DEF ServeBegin, Begin, TypeOK, Caller
    <2>3. CASE \E ready \in BOOLEAN : ServeFinish(c, ready)
      <3>1. PICK ready \in BOOLEAN : Finish(c, ready)
        BY <2>3 DEF ServeFinish
      <3> QED BY <1>2, <3>1 DEF Finish, TypeOK, Caller
    <2>4. CASE ServeForward(c) \/ ServeWrite(c)
      BY <1>2, <2>4 DEF ServeForward, ServeWrite, Forward, Write, TypeOK, Caller
    <2> QED BY <2>1, <2>2, <2>3, <2>4 DEF Serve
  <1> QED BY <1>3, <1>4, <1>5

LEMMA ServeTold ==
  ASSUME DispatchInvariant, NEW c \in Caller, Serve(c)
  PROVE  Told(c)'
  <1> USE DEF Kind, RequestState
  <1>1. [Next]_vars
    BY GateStep DEF DispatchInvariant, GateInvariant, DispatchNext
  <1>2. DispatchTypeOK /\ TypeOK /\ Told(c)
    BY DEF DispatchInvariant, GateInvariant
  <1>3. accepted \subseteq accepted' /\ ended \subseteq ended'
    BY <1>1, <1>2, HistoryGrows
  <1>4. granted'[c] = granted[c] => Issued(granted[c])'
    <2> SUFFICES ASSUME granted'[c] = granted[c] PROVE Issued(granted[c])'
      OBVIOUS
    <2>1. granted[c] \in Identity \cup {NoIdentity} /\ Issued(granted[c])
      BY <1>2 DEF DispatchTypeOK, Told
    <2> QED BY <1>1, <1>2, <2>1, IssuedStays DEF Issued
  <1>5. CASE ServeAcquire(c)
    <2>1. /\ request[c]["acquire"] = "sent" /\ request' = Marked(c, "acquire", "ok")
          /\ UNCHANGED <<call, pc, req>>
          /\ lease'.epoch = epoch' /\ granted'[c] = IdentityOf(lease)'
      BY <1>2, <1>5 DEF ServeAcquire, Acquire, handlerVars, DispatchTypeOK
    <2>2. /\ request'[c]["acquire"] = "ok"
          /\ request'[c]["compute"] = request[c]["compute"]
          /\ request'[c]["release"] = request[c]["release"]
      BY <1>2, <2>1, Marking
    <2>3. instance' \in Nat /\ epoch' \in Nat
      BY <1>1, <1>2, NextTypeOK DEF TypeOK
    <2>4. granted'[c].instance = instance' /\ granted'[c].epoch = epoch'
      BY <2>1 DEF IdentityOf
    <2>5. Issued(granted[c])'
      BY <2>3, <2>4 DEF Issued
    <2> QED BY <1>2, <2>1, <2>2, <2>5 DEF Told
  <1>6. CASE ServeRelease(c)
    <2>1. /\ request[c]["release"] = "sent" /\ request' = Marked(c, "release", "ok")
          /\ UNCHANGED <<call, pc, req, granted>> /\ granted[c] \in ended'
      BY <1>6 DEF ServeRelease, Release, handlerVars, callerVars
    <2>2. /\ request'[c]["release"] = "ok"
          /\ request'[c]["acquire"] = request[c]["acquire"]
          /\ request'[c]["compute"] = request[c]["compute"]
      BY <1>2, <2>1, Marking
    <2> QED BY <1>2, <1>3, <1>4, <2>1, <2>2 DEF Told, Issued
  <1>7. CASE ServeBegin(c)
    <2>1. /\ request[c]["compute"] = "sent" /\ request' = Marked(c, "compute", "serving")
          /\ pc'[c] = "begun" /\ req'[c] = granted[c] /\ UNCHANGED <<call, granted>>
      BY <1>2, <1>7 DEF ServeBegin, Begin, callerVars, TypeOK, Caller
    <2>2. /\ request'[c]["compute"] = "serving"
          /\ request'[c]["acquire"] = request[c]["acquire"]
          /\ request'[c]["release"] = request[c]["release"]
      BY <1>2, <2>1, Marking
    <2> QED BY <1>2, <1>3, <1>4, <2>1, <2>2 DEF Told, Issued
  <1>8. CASE \E kind \in Kind : Refuse(c, kind)
    <2>1. PICK kind \in Kind : Refuse(c, kind)
      BY <1>8
    <2>2. /\ request[c][kind] = "sent" /\ request' = Marked(c, kind, "refused")
          /\ UNCHANGED <<call, pc, req, granted>>
      BY <2>1 DEF Refuse, Status, vars, handlerVars, callerVars
    <2>3. /\ request'[c][kind] = "refused"
          /\ \A k \in Kind \ {kind} : request'[c][k] = request[c][k]
      BY <1>2, <2>2, Marking
    <2> QED BY <1>2, <1>3, <1>4, <2>2, <2>3 DEF Told, Issued
  <1>9. CASE ServeForward(c)
    <2>1. /\ pc[c] = "begun" /\ pc'[c] = "forwarded"
          /\ UNCHANGED <<call, req, granted, request>>
      BY <1>2, <1>9 DEF ServeForward, Forward, callerVars, TypeOK, Caller
    <2> QED BY <1>2, <1>3, <1>4, <2>1 DEF Told, Issued
  <1>10. CASE \E ready \in BOOLEAN : ServeFinish(c, ready)
    <2>1. PICK ready \in BOOLEAN : ServeFinish(c, ready)
      BY <1>10
    <2>2. pc[c] = "forwarded" /\ UNCHANGED <<call, granted>>
      BY <2>1 DEF ServeFinish, Finish, callerVars
    <2>3. CASE Authorized(req[c], ready)
      <3>1. /\ pc'[c] = "writing" /\ req'[c] = req[c] /\ req[c] \in accepted'
            /\ UNCHANGED request
        BY <1>2, <2>1, <2>3 DEF ServeFinish, Finish, TypeOK, Caller
      <3> QED BY <1>2, <1>3, <1>4, <2>2, <3>1 DEF Told, Issued
    <2>4. CASE ~Authorized(req[c], ready)
      <3>1. pc'[c] = "idle" /\ request' = Marked(c, "compute", "refused")
        BY <1>2, <2>1, <2>4 DEF ServeFinish, Finish, TypeOK, Caller
      <3>2. /\ request'[c]["compute"] = "refused"
            /\ request'[c]["acquire"] = request[c]["acquire"]
            /\ request'[c]["release"] = request[c]["release"]
        BY <1>2, <3>1, Marking
      <3> QED BY <1>2, <1>3, <1>4, <2>2, <3>1, <3>2 DEF Told, Issued
    <2> QED BY <2>3, <2>4
  <1>11. CASE ServeWrite(c)
    <2>1. /\ pc[c] = "writing" /\ pc'[c] = "idle" /\ request' = Marked(c, "compute", "ok")
          /\ UNCHANGED <<call, granted>>
      BY <1>2, <1>11 DEF ServeWrite, Write, callerVars, TypeOK, Caller
    <2>2. /\ request'[c]["compute"] = "ok"
          /\ request'[c]["acquire"] = request[c]["acquire"]
          /\ request'[c]["release"] = request[c]["release"]
      BY <1>2, <2>1, Marking
    <2> QED BY <1>2, <1>3, <1>4, <2>1, <2>2 DEF Told, Issued
  <1> QED BY <1>5, <1>6, <1>7, <1>8, <1>9, <1>10, <1>11 DEF Serve

LEMMA RestartTold ==
  ASSUME DispatchInvariant, GateRestart
  PROVE  \A c \in Caller : Told(c)'
  <1> USE DEF Kind
  <1>1. DispatchTypeOK /\ TypeOK /\ [Next]_vars
    BY DEF DispatchInvariant, GateInvariant, GateRestart, Next
  <1>2. accepted \subseteq accepted' /\ ended \subseteq ended'
    BY <1>1, HistoryGrows
  <1> TAKE c \in Caller
  <1>3. Told(c) /\ granted[c] \in Identity \cup {NoIdentity}
    BY DEF DispatchInvariant, DispatchTypeOK
  <1>4. pc'[c] = "idle" /\ UNCHANGED <<call, granted>>
    BY DEF GateRestart, Restart, callerVars, Caller
  <1>5. \A k \in Kind : request'[c][k] = IF request[c][k] = "serving" THEN "refused"
                                         ELSE request[c][k]
    BY DEF GateRestart
  <1>6. Issued(granted[c])'
    BY <1>1, <1>3, <1>4, IssuedStays DEF Told, Issued
  <1> QED BY <1>2, <1>3, <1>4, <1>5, <1>6 DEF Told

-----------------------------------------------------------------------------
LEMMA DispatchTypes ==
  ASSUME DispatchInvariant, [DispatchNext]_dispatchVars
  PROVE  DispatchTypeOK'
  <1> USE DEF Kind, RequestState
  <1>1. DispatchTypeOK /\ TypeOK /\ TypeOK'
    BY GateStep, NextTypeOK DEF DispatchInvariant, GateInvariant
  <1>2. ASSUME NEW c \in Caller, Dispatch(c) PROVE DispatchTypeOK'
    <2>1. UNCHANGED <<granted, executing>>
      BY <1>2 DEF Dispatch, Step, SendAcquire, SendCompute, AcquireFails, SendRelease,
                  ComputeFails, ReleaseConfirmed, ReleaseFails, Abandon
    <2>2. call' \in [Caller -> {"idle", "acquiring", "computing", "releasing",
                                "abandoning", "ok", "failed"}]
      BY <1>1, <1>2 DEF DispatchTypeOK, Dispatch, Step, SendAcquire, SendCompute, AcquireFails,
                  SendRelease, ComputeFails, ReleaseConfirmed, ReleaseFails, Abandon
    <2>3. request' \in [Caller -> [Kind -> RequestState]]
      BY <1>1, <1>2, Marking DEF DispatchTypeOK, Dispatch, SendAcquire, SendCompute,
                  AcquireFails, SendRelease, ComputeFails, ReleaseConfirmed, ReleaseFails, Abandon
    <2> QED BY <1>1, <2>1, <2>2, <2>3 DEF DispatchTypeOK
  <1>3. ASSUME NEW c \in Caller, Serve(c) PROVE DispatchTypeOK'
    <2>1. UNCHANGED call
      BY <1>3 DEF Serve, ServeAcquire, ServeRelease, ServeBegin, Refuse, ServeForward,
                  ServeFinish, ServeWrite, callerVars
    <2>2. request' \in [Caller -> [Kind -> RequestState]]
      BY <1>1, <1>3, Marking DEF DispatchTypeOK, Serve, ServeAcquire, ServeRelease, ServeBegin,
                  Refuse, ServeForward, ServeFinish, ServeWrite
    <2>3. executing' \subseteq Caller
      BY <1>1, <1>3 DEF DispatchTypeOK, Serve, ServeAcquire, ServeRelease, ServeBegin, Refuse,
                  ServeForward, ServeFinish, ServeWrite
    <2>4. granted' \in [Caller -> Identity \cup {NoIdentity}]
      <3>1. CASE ServeAcquire(c)
        <4>1. lease' \in Lease
          BY <1>1, <3>1, NoneIsNobody, TokenAssumption DEF ServeAcquire, Acquire, TypeOK, NoLease
        <4>2. IdentityOf(lease)' \in Identity
          BY <1>1, <4>1 DEF TypeOK, IdentityOf, Lease, Identity
        <4> QED BY <1>1, <3>1, <4>2 DEF ServeAcquire, DispatchTypeOK
      <3>2. CASE ~ServeAcquire(c)
        BY <1>1, <1>3, <3>2 DEF DispatchTypeOK, Serve, ServeRelease, ServeBegin, Refuse,
                  ServeForward, ServeFinish, ServeWrite, callerVars
      <3> QED BY <3>1, <3>2
    <2> QED BY <1>1, <2>1, <2>2, <2>3, <2>4 DEF DispatchTypeOK
  <1>4. CASE GateRestart
    BY <1>1, <1>4 DEF GateRestart, callerVars, DispatchTypeOK
  <1>5. CASE (\E c \in Caller : DaemonDone(c)) \/ TimePasses \/ AllDone \/ UNCHANGED dispatchVars
    BY <1>1, <1>5 DEF DaemonDone, TimePasses, AllDone, dispatchVars, callerVars, DispatchTypeOK
  <1> QED BY <1>2, <1>3, <1>4, <1>5 DEF DispatchNext

LEMMA DispatchNextInvariant ==
  DispatchInvariant /\ [DispatchNext]_dispatchVars => DispatchInvariant'
  <1> SUFFICES ASSUME DispatchInvariant, [DispatchNext]_dispatchVars PROVE DispatchInvariant'
    OBVIOUS
  <1>1. [Next]_vars /\ GateInvariant'
    BY GateStep, NextInvariant DEF DispatchInvariant, GateInvariant
  <1>2. DispatchTypeOK'
    BY DispatchTypes
  <1>3. CASE \E c \in Caller : Dispatch(c) \/ Serve(c)
    BY <1>3, DispatchTold, ServeTold, ServeOthers, <1>1, <1>2 DEF DispatchInvariant
  <1>4. CASE GateRestart
    BY <1>4, RestartTold, <1>1, <1>2 DEF DispatchInvariant
  <1>5. CASE (\E c \in Caller : DaemonDone(c)) \/ TimePasses \/ AllDone \/ UNCHANGED dispatchVars
    <2>1. UNCHANGED <<call, request, granted, pc, req>>
      BY <1>5 DEF DaemonDone, TimePasses, Tick, AllDone, dispatchVars, callerVars, vars,
                  handlerVars
    <2> QED BY <1>1, <1>2, <2>1, UntouchedTold DEF DispatchInvariant
  <1> QED BY <1>3, <1>4, <1>5 DEF DispatchNext

LEMMA DispatchInvariance == DispatchSpec => []DispatchInvariant
  BY DispatchInitInvariant, DispatchNextInvariant, PTL DEF DispatchSpec

(* The gate among its callers is the gate of LeaseGate, so all that is     *)
(* proved of it holds here, the promise of FencedSlot included.            *)
THEOREM GateInside == DispatchSpec => Spec /\ KeepsPromise
  <1>1. DispatchInit => Init
    BY DEF DispatchInit
  <1>2. DispatchInvariant /\ [DispatchNext]_dispatchVars => [Next]_vars
    BY GateStep DEF DispatchInvariant, GateInvariant
  <1>3. DispatchSpec => Spec
    BY <1>1, <1>2, DispatchInvariance, PTL DEF DispatchSpec, Spec
  <1> QED BY <1>3, GateKeepsPromise

(* Success means a result that the gate authorized under the caller's own  *)
(* lease, and a lease that is over.                                        *)
THEOREM SuccessIsSound == DispatchSpec => []SuccessIsAcceptedAndReleased
  <1>1. DispatchInvariant => SuccessIsAcceptedAndReleased
    BY DEF DispatchInvariant, Told, SuccessIsAcceptedAndReleased
  <1> QED BY <1>1, DispatchInvariance, PTL

(* A compute request that is served after its caller's release finds no    *)
(* way in.                                                                 *)
THEOREM ReleaseShutsOut == DispatchSpec => NoEntryAfterRelease
  <1>1. DispatchInvariant =>
          \A c \in Caller : request[c]["release"] = "ok" => ~Begin(c, granted[c])
    BY DEF DispatchInvariant, Told, GateInvariant, NoResurrection, Begin
  <1> QED BY <1>1, DispatchInvariance, PTL DEF NoEntryAfterRelease

(* A result is let out only under the latest grant of the process.         *)
LEMMA AcceptedIsLatest ==
  ASSUME GateInvariant, [Next]_vars, NEW id, id \in accepted', id \notin accepted
  PROVE  id.instance = instance /\ id.epoch = epoch
  <1> USE DEF vars, gateVars, handlerVars
  <1>1. PICK h \in Handlers, ready \in BOOLEAN : Finish(h, ready)
    BY DEF Next, LeaseCall, Handle, Acquire, Renew, Release, DropExpired, Status, Tick, Restart,
           Begin, Forward, TraceRaises, Write
  <1>2. id = req[h] /\ Valid(id)
    BY <1>1 DEF Finish, Authorized
  <1> QED BY <1>2 DEF Valid, Matches, IdentityOf, GateInvariant, Numbered

THEOREM LateResultsRefused == DispatchSpec => LateResultsAreFenced
  <1>1. ASSUME DispatchInvariant, [DispatchNext]_dispatchVars, NEW c \in Caller,
               NEW d \in Caller, granted[c] # NoIdentity,
               granted[c].instance = granted[d].instance,
               granted[c].epoch < granted[d].epoch,
               granted[c] \in accepted'
        PROVE  granted[c] \in accepted
    <2> SUFFICES ASSUME granted[c] \notin accepted PROVE FALSE
      OBVIOUS
    <2>1. granted[c].instance = instance /\ granted[c].epoch = epoch
      BY <1>1, GateStep, AcceptedIsLatest DEF DispatchInvariant, GateInvariant
    <2>2. granted[d].epoch <= epoch
      BY <1>1, <2>1 DEF DispatchInvariant, Told, Issued
    <2>3. granted[d].epoch \in Nat /\ epoch \in Nat
      <3>1. granted[d] \in Identity \cup {NoIdentity} /\ epoch \in 0..MaxEpoch
        BY <1>1 DEF DispatchInvariant, DispatchTypeOK, TypeOK
      <3> QED BY <3>1 DEF Identity, NoIdentity
    <2> QED BY <1>1, <2>1, <2>2, <2>3
  <1>2. DispatchInvariant /\ [DispatchNext]_dispatchVars =>
          [\A c, d \in Caller :
             (/\ granted[c] # NoIdentity
              /\ granted[c].instance = granted[d].instance
              /\ granted[c].epoch < granted[d].epoch)
             => (granted[c] \in accepted' => granted[c] \in accepted)]_dispatchVars
    BY <1>1
  <1> QED BY <1>2, DispatchInvariance, PTL DEF DispatchSpec, LateResultsAreFenced
=============================================================================
