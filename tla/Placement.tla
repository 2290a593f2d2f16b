----------------------------- MODULE Placement ------------------------------
(***************************************************************************)
(* Where one work item runs: the caller of decide_placement                *)
(* (slot_scheduler.py) asks again and again, with the pools' latest        *)
(* heartbeats, and carries the decision out.  Asking the target for a      *)
(* lease may fail: what the scheduler is shown lags behind what is.        *)
(*                                                                         *)
(* The caller is not in the repository.  Assumed of it: it passes one      *)
(* observation per pool, the current pool's among them, and moves the work *)
(* only with the destination's lease in hand, as the decision's reason     *)
(* tells it to.                                                            *)
(*                                                                         *)
(* A pool's shape stands for the heartbeat fields that the decision reads: *)
(* good (eligible), full (no slot), sick (stale, expired, retired: not     *)
(* healthy), unfit (incompatible, or without a usable status).  Ties       *)
(* between equal scores are broken by profile, pressure, round trip and    *)
(* skew, which change all the time: any pool of the best score may win.    *)
(***************************************************************************)
EXTENDS Integers

CONSTANTS Pool,
          NoPool,
          Score,         \* suitability_score, by pool
          Worst,         \* below every score (-2^31)
          MinGain,       \* min_migration_gain
          Checkpointable,
          MaxChanges     \* bound on the changes around the scheduler

ASSUME PlacementAssumption == /\ NoPool \notin Pool
                              /\ Score \in [Pool -> Int]
                              /\ Worst \in Int
                              /\ \A p \in Pool : Worst + MinGain <= Score[p]
                              /\ MinGain \in Nat
                              /\ Checkpointable \in BOOLEAN
                              /\ MaxChanges \in Nat

VARIABLES shape,    \* what each pool is, this work's own occupancy aside
          shown,    \* what the scheduler was last told of each pool
          current,  \* current_pool_id
          state,    \* WorkSpec.state
          changes   \* how often the surroundings have changed

placementVars == <<shape, shown, current, state, changes>>

Shape == {"good", "full", "sick", "unfit"}

\* The work fills the slot it runs in.
Actual(p) == IF p = current /\ shape[p] = "good" THEN "full" ELSE shape[p]

Init == /\ shape \in [Pool -> {"good", "sick"}]
        /\ shown = shape
        /\ current = NoPool
        /\ state = "queued"
        /\ changes = 0

-----------------------------------------------------------------------------
(* decide_placement                                                        *)

\* rank_slot_pools: who may come first.
Candidates == {p \in Pool : shown[p] = "good"}
Best == {p \in Candidates : \A q \in Candidates : Score[q] <= Score[p]}

Degraded == shown[current] \in {"sick", "unfit"}

CurrentScore == IF shown[current] = "unfit" THEN Worst ELSE Score[current]

\* Mutants of WorthMoving: no hysteresis; recovery must pay, too.
WorthMovingAtOnce(p) ==
  p # current \/ Degraded

WorthMovingForGain(p) == Score[p] - CurrentScore >= MinGain

WorthMoving(p) ==
  \/ Score[p] - CurrentScore >= MinGain
  \/ Degraded /\ p # current

MayMove == state = "checkpointing" \/ Checkpointable

-----------------------------------------------------------------------------
\* "place", and the target grants its lease.
Place(p) ==
  /\ current = NoPool \/ state = "queued"
  /\ p \in Best
  /\ Actual(p) = "good"
  /\ current' = p
  /\ state' = "running"
  /\ UNCHANGED <<shape, shown, changes>>

\* "migrate", and the target grants its lease.
Migrate(p) ==
  /\ current # NoPool /\ state # "queued"
  /\ p \in Best
  /\ p = current => Degraded
  /\ WorthMoving(p)
  /\ MayMove
  /\ Actual(p) = "good"
  /\ current' = p
  /\ state' = "running"
  /\ UNCHANGED <<shape, shown, changes>>

Decide == \E p \in Pool : Place(p) \/ Migrate(p)

\* A heartbeat of pool p reaches the scheduler.
Observe(p) ==
  /\ shown' = [shown EXCEPT ![p] = Actual(p)]
  /\ UNCHANGED <<shape, current, state, changes>>

\* The work comes to a checkpoint boundary, or goes on from it.
Boundary ==
  /\ state \in {"running", "checkpointing"}
  /\ state' = IF state = "running" THEN "checkpointing" ELSE "running"
  /\ UNCHANGED <<shape, shown, current, changes>>

\* Pools fill up, fail, recover; lost work is put back in the queue.
Change ==
  /\ changes < MaxChanges
  /\ changes' = changes + 1
  /\ \/ \E p \in Pool, s \in Shape : /\ shape' = [shape EXCEPT ![p] = s]
                                     /\ UNCHANGED state
     \/ /\ current # NoPool
        /\ state' = "queued"
        /\ UNCHANGED shape
  /\ UNCHANGED <<shown, current>>

Next == \/ Decide
        \/ \E p \in Pool : Observe(p)
        \/ Boundary
        \/ Change

Spec == Init /\ [][Next]_placementVars

\* The caller keeps asking and acts on the answer whenever a boundary lets
\* it; heartbeats keep coming.
Fairness == /\ SF_placementVars(Decide)
            /\ \A p \in Pool : WF_placementVars(Observe(p))
            /\ WF_placementVars(Boundary)

FairSpec == Spec /\ Fairness

-----------------------------------------------------------------------------
TypeOK == /\ shape \in [Pool -> Shape]
          /\ shown \in [Pool -> Shape]
          /\ current \in Pool \cup {NoPool}
          /\ state \in {"queued", "running", "checkpointing"}
          /\ current = NoPool => state = "queued"
          /\ changes \in 0..MaxChanges

(* "Ordinary migrations use hysteresis (`min_migration_gain`) to avoid     *)
(* thrashing" (COMPUTE_SLOT_FABRIC_OPERATIONS_V0.md:364): when the         *)
(* surroundings have come to rest, so does the work.                       *)
Settles == <>[][current' = current]_placementVars

(* "recovery takes priority over ordinary fit hysteresis" (the same line): *)
(* work does not stay for ever in a degraded pool beside a live one that   *)
(* would take it, however badly that one scores.                           *)
Recovers ==
  []<>~(/\ current # NoPool
        /\ Degraded
        /\ \E p \in Best : p # current /\ Actual(p) = "good" /\ Best = {p})
=============================================================================
