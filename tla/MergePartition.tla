--------------------------- MODULE MergePartition ---------------------------
(***************************************************************************)
(* allocate_slices and validate_partition of merge_partition.py: N slices, *)
(* in the order in which the nodes were detected, share out the prefixes   *)
(* 0..Total-1.  The weighted target is advisory; the cover and the caps    *)
(* are hard.  One step handles one slice.                                  *)
(***************************************************************************)
EXTENDS Integers, Sequences

CONSTANTS N,       \* the number of slices
          Total,   \* PREFIX_TOTAL
          Caps,    \* what max_prefixes may be
          Weights  \* what weight may be

ASSUME PartitionAssumption == /\ N \in Nat
                              /\ Total \in Nat
                              /\ Caps \subseteq Nat
                              /\ Weights \subseteq Nat \ {0}

VARIABLES item,   \* the slices, each with its cap and its weight
          later,  \* later[k]: capacity and weight of the slices after the k-th
          i,      \* the slices handled: from the end while summing
          cursor, \* prefixes given away
          jobs,   \* the slices with a share, in order
          phase

planVars == <<item, later, i, cursor, jobs, phase>>

Item == [cap : Caps, weight : Weights]
NoLoad == [cap |-> 0, weight |-> 0]

Init == /\ item \in [1..N -> Item]
        /\ later = [k \in 0..N |-> NoLoad]
        /\ i = N
        /\ cursor = 0
        /\ jobs = <<>>
        /\ phase = "summing"

\* The sums over items[index + 1:] and over all items, the last slice first.
Sum ==
  /\ phase = "summing" /\ i > 0
  /\ later' = [later EXCEPT ![i - 1] = [cap    |-> later[i].cap + item[i].cap,
                                        weight |-> later[i].weight + item[i].weight]]
  /\ i' = i - 1
  /\ UNCHANGED <<item, cursor, jobs, phase>>

\* Too little capacity is an error; nothing to share out is an empty plan.
CheckCapacity ==
  /\ phase = "summing" /\ i = 0
  /\ phase' = IF later[0].cap < Total THEN "refused" ELSE "allocating"
  /\ UNCHANGED <<item, later, i, cursor, jobs>>

Least(a, b) == IF a < b THEN a ELSE b
Most(a, b) == IF a > b THEN a ELSE b

Remaining == Total - cursor

\* The part of what remains that the slice's weight asks for.
Target(k) == (Remaining * item[k].weight) \div (item[k].weight + later[k].weight)

\* Mutant of Share: the later slices are trusted with the rest.
ShareUnreserved(k) ==
  IF k = N THEN Remaining ELSE Least(Least(item[k].cap, Remaining), Target(k))

\* Enough that the later slices can take the rest, and at most the cap; the
\* last slice closes the cover.
Share(k) ==
  IF k = N THEN Remaining
  ELSE Most(Most(0, Remaining - later[k].cap),
            Least(Least(item[k].cap, Remaining), Target(k)))

Allocate ==
  /\ phase = "allocating" /\ i < N
  /\ LET k == i + 1
         share == Share(k)
     IN /\ jobs' = IF share = 0 THEN jobs
                   ELSE Append(jobs, [slice |-> k, start |-> cursor, count |-> share])
        /\ cursor' = cursor + share
        /\ i' = k
  /\ UNCHANGED <<item, later, phase>>

\* Where the cover ends before job a.
CoveredBefore(a) == IF a = 1 THEN 0 ELSE jobs[a - 1].start + jobs[a - 1].count

Valid == /\ \A a \in 1..Len(jobs) : /\ jobs[a].count > 0
                                    /\ jobs[a].start = CoveredBefore(a)
         /\ CoveredBefore(Len(jobs) + 1) = Total

\* validate_partition: the plan is written, or an error is raised.
Validate ==
  /\ phase = "allocating" /\ i = N
  /\ phase' = IF Valid THEN "planned" ELSE "invalid"
  /\ UNCHANGED <<item, later, i, cursor, jobs>>

PlanNext == Sum \/ CheckCapacity \/ Allocate \/ Validate

PlanSpec == Init /\ [][PlanNext]_planVars

-----------------------------------------------------------------------------
Job == [slice : 1..N, start : Nat, count : Nat]

PlanTypeOK == /\ item \in [1..N -> Item]
              /\ later \in [0..N -> [cap : Nat, weight : Nat]]
              /\ i \in 0..N
              /\ cursor \in Nat
              /\ jobs \in Seq(Job)
              /\ phase \in {"summing", "refused", "allocating", "planned", "invalid"}

Prefixes(job) == job.start .. job.start + job.count - 1

(* Whatever the caps and the weights, a plan gives every prefix to exactly *)
(* one job, in the order of the slices and none above its cap ("Coverage   *)
(* and capacity are hard invariants", merge_partition.py:19); and when the *)
(* capacity suffices the planner never fails on its own validation.        *)
PlanIsExact ==
  /\ phase = "planned" =>
       /\ \A p \in 0..Total - 1 : \E a \in 1..Len(jobs) : p \in Prefixes(jobs[a])
       /\ \A a \in 1..Len(jobs) : /\ Prefixes(jobs[a]) \subseteq 0..Total - 1
                                  /\ jobs[a].count \in 1..item[jobs[a].slice].cap
       /\ \A a, b \in 1..Len(jobs) :
            a < b => /\ jobs[a].slice < jobs[b].slice
                     /\ Prefixes(jobs[a]) \cap Prefixes(jobs[b]) = {}
  /\ phase # "invalid"
=============================================================================
