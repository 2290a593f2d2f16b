----------------------------- MODULE FencedSlot -----------------------------
(***************************************************************************)
(* What the lease gate promises, with no clock, no token check and no      *)
(* thread: one execution slot, owned by at most one identity at a time.    *)
(* An identity that has lost the slot never owns it again, work keeps the  *)
(* slot closed to a new owner until it has left, and a result is accepted  *)
(* only from work whose identity still owns the slot.                      *)
(*                                                                         *)
(* LeaseGate implements this module (LeaseGate!Promise); the simulation is *)
(* model-checked there and proved in FencedDispatchProofs.                 *)
(***************************************************************************)
CONSTANTS Identity,   \* the identities the slot can be granted to
          NoIdentity  \* nobody

VARIABLES holder,     \* who owns the slot now
          working,    \* whose work is inside the gate now
          spent,      \* the identities that have lost the slot
          accepted    \* the identities of which a result was accepted

slotVars == <<holder, working, spent, accepted>>

SlotInit == /\ holder = NoIdentity
            /\ working = NoIdentity
            /\ spent = {}
            /\ accepted = {}

SlotTypeOK == /\ holder \in Identity \cup {NoIdentity}
              /\ working \in Identity \cup {NoIdentity}
              /\ spent \subseteq Identity
              /\ accepted \subseteq Identity

\* The slot goes to a new owner: nobody owns it and nothing is inside.
Grant(id) == /\ holder = NoIdentity
             /\ working = NoIdentity
             /\ id \notin spent
             /\ holder' = id
             /\ UNCHANGED <<working, spent, accepted>>

\* The owner loses the slot, by its own release or by the passing of time.
Lapse == /\ holder # NoIdentity
         /\ holder' = NoIdentity
         /\ spent' = spent \cup {holder}
         /\ UNCHANGED <<working, accepted>>

\* The owner's work enters.
Enter == /\ holder # NoIdentity
         /\ working = NoIdentity
         /\ working' = holder
         /\ UNCHANGED <<holder, spent, accepted>>

\* The work leaves and its result is accepted: its identity owns the slot.
Commit == /\ working # NoIdentity
          /\ holder = working
          /\ working' = NoIdentity
          /\ accepted' = accepted \cup {working}
          /\ UNCHANGED <<holder, spent>>

\* The work leaves and its result is dropped.
Abort == /\ working # NoIdentity
         /\ working' = NoIdentity
         /\ UNCHANGED <<holder, spent, accepted>>

\* The gate's process ends and another takes its place.
Crash == /\ holder' = NoIdentity
         /\ working' = NoIdentity
         /\ spent' = spent \cup ({holder} \ {NoIdentity})
         /\ UNCHANGED accepted

SlotNext == \/ \E id \in Identity : Grant(id)
            \/ Lapse
            \/ Enter
            \/ Commit
            \/ Abort
            \/ Crash

SlotSpec == SlotInit /\ [][SlotNext]_slotVars
=============================================================================
