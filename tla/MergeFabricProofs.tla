-------------------------- MODULE MergeFabricProofs -------------------------
(***************************************************************************)
(* Any partition, hosts, scores and number of dispatches.  A dispatch that *)
(* goes well holds, after each slice, the largest total of the prefixes    *)
(* covered so far (Largest); one that does not, a total of some prefix.    *)
(* Both need that the maximum over a non-empty range of prefixes exists    *)
(* (MaxIs) and that the comparison of words is that of totals (WordOrder). *)
(***************************************************************************)
EXTENDS MergeFabric, WellFoundedInduction, TLAPS

-----------------------------------------------------------------------------
(* The plan: an exact cover within the caps for every number of slices,    *)
(* every total and all caps and weights.                                   *)

\* later[k - 1] adds slice k to later[k], as far as the sums have been made.
SumsOK == /\ later[N].cap = 0
          /\ \A k \in 1..N : (phase # "summing" \/ k > i) =>
               later[k - 1].cap = later[k].cap + item[k].cap

\* The jobs so far: an exact cover of what has been given away.
CoverOK ==
  /\ \A p \in 0..cursor - 1 : \E a \in 1..Len(jobs) : p \in Prefixes(jobs[a])
  /\ \A a \in 1..Len(jobs) : /\ jobs[a].start + jobs[a].count <= cursor
                             /\ jobs[a].count \in 1..item[jobs[a].slice].cap
                             /\ jobs[a].slice <= i
                             /\ jobs[a].start = CoveredBefore(a)
  /\ CoveredBefore(Len(jobs) + 1) = cursor
  /\ \A a, b \in 1..Len(jobs) :
       a < b => /\ jobs[a].slice < jobs[b].slice
                /\ jobs[a].start + jobs[a].count <= jobs[b].start

\* Nothing is given away before the capacity is known; what remains
\* afterwards fits into the slices that are left.
CapacityOK ==
  /\ phase \in {"summing", "refused"} => cursor = 0 /\ jobs = <<>>
  /\ phase \in {"allocating", "planned"} =>
       /\ cursor <= Total
       /\ Total - cursor <= later[i].cap
  /\ phase = "planned" => i = N
  /\ phase # "invalid"

PlanInv == PlanTypeOK /\ SumsOK /\ CapacityOK /\ CoverOK

LEMMA InitPlan == Init => PlanInv
  BY PartitionAssumption
  DEF Init, PlanInv, PlanTypeOK, SumsOK, CapacityOK, CoverOK, NoLoad, Item, CoveredBefore, Job

\* The weighted target is a number, whatever the product comes to.
LEMMA TargetType ==
  ASSUME NEW r \in Int, NEW w \in Nat \ {0}, NEW l \in Nat
  PROVE  (r * w) \div (w + l) \in Int
  <1> DEFINE prod == r * w
             den == w + l
  <1>1. prod \in Int /\ den \in Int /\ den > 0
    OBVIOUS
  <1> HIDE DEF prod, den
  <1>2. prod \div den \in Int
    BY <1>1
  <1> QED
    BY <1>2 DEF prod, den

\* A share leaves the later slices what they can take, fits under the cap
\* and is not more than what remains.
LEMMA ShareBounds ==
  ASSUME PlanInv, phase = "allocating", i < N
  PROVE  /\ Share(i + 1) \in Nat
         /\ Share(i + 1) <= item[i + 1].cap
         /\ Share(i + 1) <= Total - cursor
         /\ Total - (cursor + Share(i + 1)) <= later[i + 1].cap
  <1> DEFINE k == i + 1
  <1>1. /\ k \in 1..N /\ cursor \in Nat /\ Total \in Nat /\ N \in Nat
        /\ item[k].cap \in Nat /\ item[k].weight \in Nat \ {0}
        /\ later[k].cap \in Nat /\ later[k].weight \in Nat
    <2>1. k \in 1..N /\ cursor \in Nat /\ Total \in Nat /\ N \in Nat
      BY PartitionAssumption DEF PlanInv, PlanTypeOK
    <2>2. item[k] \in Item /\ later[k] \in [cap : Nat, weight : Nat]
      BY <2>1 DEF PlanInv, PlanTypeOK
    <2> QED
      BY <2>1, <2>2, PartitionAssumption DEF Item
  <1>2. /\ cursor <= Total
        /\ Total - cursor <= later[k].cap + item[k].cap
        /\ later[N].cap = 0
    <2>1. later[k - 1].cap = later[k].cap + item[k].cap /\ k - 1 = i
      BY <1>1 DEF PlanInv, SumsOK, PlanTypeOK
    <2> QED
      BY <2>1 DEF PlanInv, CapacityOK, SumsOK
  <1>3. Target(k) \in Int
    <2>1. Total - cursor \in Int
      BY <1>1
    <2>2. ((Total - cursor) * item[k].weight) \div (item[k].weight + later[k].weight) \in Int
      BY <1>1, <2>1, TargetType
    <2> QED
      BY <2>2 DEF Target, Remaining
  <1> HIDE DEF k
  <1>4. CASE k = N
    BY <1>1, <1>2, <1>4 DEF Share, Remaining, k
  <1>5. CASE k # N
    BY <1>1, <1>2, <1>3, <1>5 DEF Share, Remaining, Most, Least, k
  <1> QED
    BY <1>4, <1>5

LEMMA NextPlan == PlanInv /\ [PlanNext]_planVars => PlanInv'
  <1> SUFFICES ASSUME PlanInv, [PlanNext]_planVars
               PROVE  PlanInv'
    OBVIOUS
  <1> USE PartitionAssumption
  <1>1. CASE Sum
    <2> DEFINE more == [cap    |-> later[i].cap + item[i].cap,
                        weight |-> later[i].weight + item[i].weight]
    <2>0. /\ i \in 1..N /\ i - 1 \in 0..N /\ i' = i - 1 /\ phase = "summing"
          /\ later' = [later EXCEPT ![i - 1] = more]
          /\ UNCHANGED <<item, cursor, jobs, phase>>
      BY <1>1 DEF Sum, PlanInv, PlanTypeOK
    <2>a. item[i] \in Item /\ later[i] \in [cap : Nat, weight : Nat]
      BY <2>0 DEF PlanInv, PlanTypeOK
    <2>b. more \in [cap : Nat, weight : Nat]
      <3>1. item[i].cap \in Nat /\ item[i].weight \in Nat
        BY <2>a DEF Item
      <3>2. later[i].cap \in Nat /\ later[i].weight \in Nat
        BY <2>a
      <3> QED
        BY <3>1, <3>2
    <2>1. PlanTypeOK'
      BY <2>0, <2>b DEF PlanInv, PlanTypeOK
    <2>2. SumsOK'
      BY <2>0, <2>a DEF PlanInv, PlanTypeOK, SumsOK, Item
    <2>3. CapacityOK'
      BY <1>1 DEF Sum, PlanInv, CapacityOK
    <2>4. CoverOK'
      BY <1>1 DEF Sum, PlanInv, CapacityOK, CoverOK, CoveredBefore, PlanTypeOK
    <2> QED
      BY <2>1, <2>2, <2>3, <2>4 DEF PlanInv
  <1>2. CASE CheckCapacity
    <2>1. PlanTypeOK'
      BY <1>2 DEF CheckCapacity, PlanInv, PlanTypeOK
    <2>2. SumsOK'
      BY <1>2 DEF CheckCapacity, PlanInv, PlanTypeOK, SumsOK
    <2>3. CapacityOK'
      BY <1>2 DEF CheckCapacity, PlanInv, PlanTypeOK, CapacityOK
    <2>4. CoverOK'
      BY <1>2 DEF CheckCapacity, PlanInv, CapacityOK, CoverOK, CoveredBefore, PlanTypeOK
    <2> QED
      BY <2>1, <2>2, <2>3, <2>4 DEF PlanInv
  <1>3. CASE Allocate
    <2> DEFINE k == i + 1
               share == Share(k)
               job == [slice |-> k, start |-> cursor, count |-> share]
    <2>1. /\ phase = "allocating" /\ i < N /\ i' = k /\ cursor' = cursor + share
          /\ jobs' = IF share = 0 THEN jobs ELSE Append(jobs, job)
          /\ UNCHANGED <<item, later, phase>>
      BY <1>3 DEF Allocate
    <2>2. /\ share \in Nat /\ share <= item[k].cap /\ share <= Total - cursor
          /\ Total - (cursor + share) <= later[k].cap
      BY <2>1, ShareBounds
    <2>3. /\ k \in 1..N /\ cursor \in Nat /\ jobs \in Seq(Job) /\ i \in Nat /\ cursor <= Total
          /\ item[k].cap \in Nat
      <3>1. k \in 1..N
        BY <2>1 DEF PlanInv, PlanTypeOK
      <3>2. item[k] \in Item
        BY <3>1 DEF PlanInv, PlanTypeOK
      <3>3. item[k].cap \in Nat
        BY <3>2 DEF Item
      <3> QED
        BY <2>1, <3>1, <3>3 DEF PlanInv, PlanTypeOK, CapacityOK
    <2> HIDE DEF share
    <2>4. share # 0 => job \in Job
      BY <2>2, <2>3 DEF Job
    <2>5. PlanTypeOK'
      BY <2>1, <2>2, <2>3, <2>4 DEF PlanInv, PlanTypeOK
    <2>6. SumsOK'
      BY <2>1 DEF PlanInv, SumsOK
    <2>7. CapacityOK'
      BY <2>1, <2>2, <2>3 DEF PlanInv, CapacityOK
    <2>8. CoverOK'
      <3>1. CASE share = 0
        <4>1. jobs' = jobs /\ cursor' = cursor /\ item' = item /\ i' = i + 1
          BY <2>1, <2>3, <3>1
        <4>2. \A a \in 1..Len(jobs) : jobs[a].slice <= i'
          <5> TAKE a \in 1..Len(jobs)
          <5>1. jobs[a].slice <= i
            BY DEF PlanInv, CoverOK
          <5>2. jobs[a] \in Job
            BY <2>3
          <5>3. jobs[a].slice \in Nat
            BY <5>2 DEF Job
          <5> QED
            BY <4>1, <5>1, <5>3, <2>3
        <4> QED
          BY <4>1, <4>2 DEF PlanInv, CoverOK, Prefixes, CoveredBefore
      <3>2. CASE share # 0
        <4>1. /\ jobs' = Append(jobs, job) /\ Len(jobs') = Len(jobs) + 1 /\ Len(jobs) \in Nat
              /\ \A a \in 1..Len(jobs) : jobs'[a] = jobs[a] /\ jobs[a] \in Job
              /\ jobs'[Len(jobs) + 1] = job
          BY <2>1, <2>3, <3>2
        <4>2. \A p \in 0..cursor' - 1 : \E a \in 1..Len(jobs') : p \in Prefixes(jobs'[a])
          <5> TAKE p \in 0..cursor' - 1
          <5>1. CASE p < cursor
            BY <4>1, <5>1, <2>3 DEF PlanInv, CoverOK, Prefixes
          <5>2. CASE p >= cursor
            BY <4>1, <5>2, <2>1, <2>2, <2>3 DEF Prefixes
          <5> QED
            BY <5>1, <5>2, <2>1, <2>2, <2>3
        <4>3. CoveredBefore(Len(jobs) + 1) = cursor
          BY DEF PlanInv, CoverOK
        <4>4. \A a \in 1..Len(jobs) + 1 : CoveredBefore(a)' = CoveredBefore(a)
          BY <4>1 DEF CoveredBefore
        <4>5. CoveredBefore(Len(jobs) + 1)' = cursor'
          <5>1. Len(jobs') + 1 # 1 /\ (Len(jobs') + 1) - 1 = Len(jobs) + 1
            BY <4>1
          <5>2. jobs'[(Len(jobs') + 1) - 1] = job
            BY <5>1, <4>1
          <5>3. CoveredBefore(Len(jobs) + 1)' = job.start + job.count
            BY <5>1, <5>2 DEF CoveredBefore
          <5> QED
            BY <5>3, <2>1
        <4>6. \A a \in 1..Len(jobs') : /\ jobs'[a].start + jobs'[a].count <= cursor'
                                       /\ jobs'[a].count \in 1..item'[jobs'[a].slice].cap
                                       /\ jobs'[a].slice <= i'
                                       /\ jobs'[a].start = CoveredBefore(a)'
          <5> TAKE a \in 1..Len(jobs')
          <5>1. CASE a <= Len(jobs)
            <6>1. jobs'[a] = jobs[a] /\ jobs[a] \in Job /\ a \in 1..Len(jobs)
              BY <4>1, <5>1
            <6>2. /\ jobs[a].start + jobs[a].count <= cursor
                  /\ jobs[a].count \in 1..item[jobs[a].slice].cap
                  /\ jobs[a].slice <= i
                  /\ jobs[a].start = CoveredBefore(a)
              BY <6>1 DEF PlanInv, CoverOK
            <6>3. jobs[a].start \in Nat /\ jobs[a].count \in Nat /\ jobs[a].slice \in Nat
              BY <6>1, PartitionAssumption DEF Job
            <6>4. CoveredBefore(a)' = CoveredBefore(a)
              BY <6>1, <4>4
            <6>5. jobs[a].start + jobs[a].count <= cursor' /\ jobs[a].slice <= i'
              <7>1. jobs[a].start + jobs[a].count <= cursor /\ jobs[a].slice <= i
                BY <6>2
              <7>2. cursor' = cursor + share /\ i' = i + 1
                BY <2>1
              <7>3. share \in Nat /\ cursor \in Nat /\ i \in Nat
                BY <2>2, <2>3
              <7>4. jobs[a].start + jobs[a].count <= cursor + share
                BY <7>1, <7>3, <6>3
              <7>5. jobs[a].slice <= i + 1
                BY <7>1, <7>3, <6>3
              <7> QED
                BY <7>2, <7>4, <7>5
            <6> QED
              BY <6>1, <6>2, <6>4, <6>5, <2>1
          <5>2. CASE a = Len(jobs) + 1
            BY <4>1, <4>3, <4>4, <5>2, <3>2, <2>1, <2>2, <2>3
          <5> QED
            BY <5>1, <5>2, <4>1
        <4>7. \A a, b \in 1..Len(jobs') :
                a < b => /\ jobs'[a].slice < jobs'[b].slice
                         /\ jobs'[a].start + jobs'[a].count <= jobs'[b].start
          <5> SUFFICES ASSUME NEW a \in 1..Len(jobs'), NEW b \in 1..Len(jobs'), a < b
                       PROVE  /\ jobs'[a].slice < jobs'[b].slice
                              /\ jobs'[a].start + jobs'[a].count <= jobs'[b].start
            OBVIOUS
          <5>1. CASE b <= Len(jobs)
            BY <4>1, <5>1 DEF PlanInv, CoverOK
          <5>2. CASE b = Len(jobs) + 1
            <6>1. a \in 1..Len(jobs) /\ jobs'[a] = jobs[a] /\ jobs[a] \in Job /\ jobs'[b] = job
              BY <4>1, <5>2
            <6>2. jobs[a].slice <= i /\ jobs[a].start + jobs[a].count <= cursor
              BY <6>1 DEF PlanInv, CoverOK
            <6>3. jobs[a].slice \in Nat
              BY <6>1, PartitionAssumption DEF Job
            <6> QED
              BY <6>1, <6>2, <6>3, <2>3
          <5> QED
            BY <5>1, <5>2, <4>1
        <4> QED
          <5>1. (\A p \in 0..cursor - 1 : \E a \in 1..Len(jobs) : p \in Prefixes(jobs[a]))'
            BY <4>2 DEF Prefixes
          <5> QED
            BY <5>1, <4>5, <4>6, <4>7 DEF CoverOK
      <3> QED
        BY <3>1, <3>2
    <2> QED
      BY <2>5, <2>6, <2>7, <2>8 DEF PlanInv
  <1>4. CASE Validate
    <2>1. Valid
      <3>1. phase = "allocating" /\ i = N
        BY <1>4 DEF Validate
      <3>2. cursor = Total
        BY <3>1 DEF PlanInv, CapacityOK, SumsOK, PlanTypeOK
      <3>3. \A a \in 1..Len(jobs) : jobs[a].count > 0
        <4> TAKE a \in 1..Len(jobs)
        <4>1. jobs[a].count \in 1..item[jobs[a].slice].cap
          BY DEF PlanInv, CoverOK
        <4>2. jobs[a] \in Job
          BY DEF PlanInv, PlanTypeOK
        <4>3. jobs[a].count \in Nat
          BY <4>2 DEF Job
        <4> QED
          BY <4>1, <4>3
      <3> QED
        BY <3>2, <3>3 DEF Valid, PlanInv, CoverOK
    <2>2. PlanTypeOK' /\ SumsOK' /\ CapacityOK'
      BY <1>4, <2>1 DEF Validate, PlanInv, PlanTypeOK, SumsOK, CapacityOK
    <2>3. CoverOK'
      BY <1>4 DEF Validate, PlanInv, CoverOK, CoveredBefore
    <2> QED
      BY <2>2, <2>3 DEF PlanInv
  <1>5. CASE UNCHANGED planVars
    BY <1>5 DEF planVars, PlanInv, PlanTypeOK, SumsOK, CapacityOK, CoverOK, CoveredBefore, Prefixes
  <1> QED
    BY <1>1, <1>2, <1>3, <1>4, <1>5 DEF PlanNext

LEMMA PlanInvImplies == PlanInv => PlanIsExact
  <1> SUFFICES ASSUME PlanInv
               PROVE  PlanIsExact
    OBVIOUS
  <1>1. phase # "invalid"
    BY DEF PlanInv, CapacityOK
  <1>2. ASSUME phase = "planned"
        PROVE  cursor = Total
    BY <1>2, PartitionAssumption DEF PlanInv, PlanTypeOK, CapacityOK, SumsOK
  <1>3. \A a \in 1..Len(jobs) : jobs[a] \in Job
    BY DEF PlanInv, PlanTypeOK
  <1>4. ASSUME phase = "planned", NEW a \in 1..Len(jobs)
        PROVE  /\ Prefixes(jobs[a]) \subseteq 0..Total - 1
               /\ jobs[a].count \in 1..item[jobs[a].slice].cap
    <2>1. jobs[a].start + jobs[a].count <= Total /\ jobs[a].count \in 1..item[jobs[a].slice].cap
      BY <1>2, <1>4 DEF PlanInv, CoverOK
    <2>2. jobs[a].start \in Nat /\ jobs[a].count \in Nat
      BY <1>3, <1>4 DEF Job
    <2> QED
      BY <2>1, <2>2, PartitionAssumption DEF Prefixes
  <1>5. ASSUME NEW a \in 1..Len(jobs), NEW b \in 1..Len(jobs), a < b
        PROVE  /\ jobs[a].slice < jobs[b].slice
               /\ Prefixes(jobs[a]) \cap Prefixes(jobs[b]) = {}
    <2>1. jobs[a].slice < jobs[b].slice /\ jobs[a].start + jobs[a].count <= jobs[b].start
      BY <1>5 DEF PlanInv, CoverOK
    <2>2. /\ jobs[a].start \in Nat /\ jobs[a].count \in Nat
          /\ jobs[b].start \in Nat /\ jobs[b].count \in Nat
      BY <1>3 DEF Job
    <2> QED
      BY <2>1, <2>2 DEF Prefixes
  <1>6. phase = "planned" => \A p \in 0..Total - 1 : \E a \in 1..Len(jobs) : p \in Prefixes(jobs[a])
    BY <1>2 DEF PlanInv, CoverOK
  <1> QED
    BY <1>1, <1>4, <1>5, <1>6 DEF PlanIsExact

(* Every plan is an exact cover of the prefixes within the caps, and the   *)
(* planner never rejects its own work: allocate_slices may rely on         *)
(* validate_partition as a check that cannot fail.                         *)
THEOREM PlansAreExact == PlanSpec => []PlanIsExact
  BY InitPlan, NextPlan, PlanInvImplies, PTL DEF PlanSpec

-----------------------------------------------------------------------------
(* The dispatch                                                            *)

\* The distance from the bound has a smallest value.
LEMMA LargestExists ==
  ASSUME NEW B \in Nat, NEW S \in SUBSET (0..B), S # {}
  PROVE  \E x \in S : \A y \in S : x >= y
  <1> DEFINE below == {B - x : x \in S}
  <1>1. IsWellFoundedOn(OpToRel(<, Nat), Nat)
    BY NatLessThanWellFounded
  <1>2. below \subseteq Nat /\ below # {}
    <2>1. \A x \in S : x \in 0..B /\ B - x \in Nat
      OBVIOUS
    <2>2. PICK x \in S : TRUE
      OBVIOUS
    <2>3. B - x \in below
      BY <2>2
    <2> QED BY <2>1, <2>3
  <1>3. PICK m \in below : \A y \in below : ~(<<y, m>> \in OpToRel(<, Nat))
    <2> HIDE DEF below
    <2> QED BY <1>1, <1>2, WFMin
  <1>4. \A y \in below : ~(y < m)
    BY <1>2, <1>3 DEF OpToRel
  <1>5. PICK x \in S : m = B - x
    BY <1>3
  <1>6. \A y \in S : x >= y
    <2> TAKE y \in S
    <2>1. x \in 0..B /\ y \in 0..B
      OBVIOUS
    <2>2. B - y \in below
      OBVIOUS
    <2>3. ~(B - y < B - x)
      BY <1>4, <1>5, <2>2
    <2> QED BY <2>1, <2>3
  <1> QED BY <1>6

LEMMA MaxIs ==
  ASSUME NEW B \in Nat, NEW S \in SUBSET (0..B), S # {}
  PROVE  Max(S) \in S /\ \A y \in S : Max(S) >= y
  BY LargestExists DEF Max

LEMMA DivMod ==
  ASSUME NEW a \in Nat, NEW w \in Nat \ {0}
  PROVE  /\ a \div w \in Nat /\ a % w \in 0..w - 1
         /\ a = w * (a \div w) + (a % w)
  <1>1. a \div w \in Int /\ a \div w >= 0
    OBVIOUS
  <1>2. a % w \in 0..w - 1
    OBVIOUS
  <1>3. a = w * (a \div w) + (a % w)
    OBVIOUS
  <1> QED BY <1>1, <1>2, <1>3

LEMMA HigherWord ==
  ASSUME NEW p \in Nat, NEW q \in Nat, NEW w \in Nat \ {0}, NEW r \in 0..w - 1,
         NEW s \in 0..w - 1, p > q
  PROVE  w * p + r > w * q + s
  <1>1. w * p >= w * q + w
    OBVIOUS
  <1>2. w * p \in Nat /\ w * q \in Nat
    OBVIOUS
  <1> QED BY <1>1, <1>2

(* High word first, the words of two totals compare as the totals do.      *)
LEMMA WordOrder ==
  ASSUME NEW a \in Nat, NEW b \in Nat
  PROVE  Greater(Words(a), Words(b)) <=> a > b
  <1>1. Word \in Nat \ {0}
    BY FabricAssumption
  <1> DEFINE p == a \div Word
             r == a % Word
             q == b \div Word
             s == b % Word
  <1>2. /\ p \in Nat /\ r \in 0..Word - 1 /\ a = Word * p + r
        /\ q \in Nat /\ s \in 0..Word - 1 /\ b = Word * q + s
    BY <1>1, DivMod
  <1>3. Greater(Words(a), Words(b)) <=> (p > q \/ (p = q /\ r > s))
    BY DEF Greater, Words
  <1> HIDE DEF p, q, r, s
  <1>4. CASE p > q
    BY <1>1, <1>2, <1>3, <1>4, HigherWord
  <1>5. CASE p < q
    <2>1. b > a
      BY <1>1, <1>2, <1>5, HigherWord
    <2> QED BY <1>2, <1>3, <1>5, <2>1
  <1>6. CASE p = q
    <2>1. Word * p \in Nat
      BY <1>1, <1>2
    <2> QED BY <1>2, <1>3, <1>6, <2>1
  <1> QED BY <1>2, <1>4, <1>5, <1>6

\* v is the largest total of the prefixes from low to high - 1.
Largest(m, low, high, v) == \E p \in low..high - 1 :
                              /\ v = Score[m][p]
                              /\ \A q \in low..high - 1 : Score[m][q] <= v

LEMMA ScoreIs ==
  ASSUME NEW m \in Bound, NEW p \in 0..Total - 1
  PROVE  Score[m][p] \in 0..Word * Word - 1 /\ Word * Word - 1 \in Nat
  <1>1. Word * Word - 1 \in Nat
    BY FabricAssumption
  <1>2. Score[m] \in [0..Total - 1 -> 0..Word * Word - 1]
    BY FabricAssumption
  <1> QED BY <1>1, <1>2

LEMMA LargestIs ==
  ASSUME NEW m \in Bound, NEW low \in Nat, NEW high \in Nat, low < high, high <= Total
  PROVE  Largest(m, low, high, LargestTotal(m, low, high))
  <1> DEFINE S == {Score[m][p] : p \in low..high - 1}
  <1>1. \A p \in low..high - 1 : p \in 0..Total - 1
    BY PartitionAssumption
  <1>2. low \in low..high - 1
    OBVIOUS
  <1>3. S \in SUBSET (0..Word * Word - 1) /\ S # {} /\ Word * Word - 1 \in Nat
    BY <1>1, <1>2, ScoreIs
  <1>4. Max(S) \in S /\ \A y \in S : Max(S) >= y
    <2> HIDE DEF S
    <2> QED BY <1>3, MaxIs
  <1>5. PICK p \in low..high - 1 : Max(S) = Score[m][p]
    BY <1>4
  <1>6. \A q \in low..high - 1 : Score[m][q] <= Max(S)
    <2> TAKE q \in low..high - 1
    <2>1. Score[m][q] \in S
      OBVIOUS
    <2>2. Score[m][q] \in Nat /\ Max(S) \in Nat
      BY <1>3, <1>4, <2>1
    <2> QED BY <1>4, <2>1, <2>2
  <1> QED BY <1>5, <1>6 DEF Largest, LargestTotal

\* The larger of the largest of two neighbouring ranges.
LEMMA LargestOfBoth ==
  ASSUME NEW m \in Bound, NEW mid \in Nat, NEW high \in Nat, mid <= high, high <= Total,
         NEW a \in Nat, NEW b \in Nat, Largest(m, 0, mid, a), Largest(m, mid, high, b)
  PROVE  Largest(m, 0, high, IF b > a THEN b ELSE a)
  <1>1. \A q \in 0..high - 1 : Score[m][q] \in Nat /\ (q \in 0..mid - 1 \/ q \in mid..high - 1)
    BY ScoreIs, PartitionAssumption
  <1>2. \A q \in 0..mid - 1 : q \in 0..high - 1 /\ Score[m][q] <= a
    BY DEF Largest
  <1>3. \A q \in mid..high - 1 : q \in 0..high - 1 /\ Score[m][q] <= b
    BY DEF Largest
  <1>4. (\E p \in 0..high - 1 : a = Score[m][p]) /\ (\E p \in 0..high - 1 : b = Score[m][p])
    BY <1>2, <1>3 DEF Largest
  <1>5. CASE b > a
    <2>1. \A q \in 0..high - 1 : Score[m][q] <= b
      BY <1>1, <1>2, <1>3, <1>5
    <2> QED BY <1>4, <1>5, <2>1 DEF Largest
  <1>6. CASE ~(b > a)
    <2>1. \A q \in 0..high - 1 : Score[m][q] <= a
      BY <1>1, <1>2, <1>3, <1>6
    <2> QED BY <1>4, <1>6, <2>1 DEF Largest
  <1> QED BY <1>5, <1>6

-----------------------------------------------------------------------------
\* What a written plan is.
LEMMA PlanFacts ==
  ASSUME PlanInv, phase = "planned"
  PROVE  /\ Len(jobs) \in Nat /\ CoveredBefore(1) = 0 /\ CoveredBefore(Len(jobs) + 1) = Total
         /\ \A a \in 1..Len(jobs) :
              /\ jobs[a].start \in Nat /\ jobs[a].count \in Nat \ {0} /\ jobs[a].slice \in 1..N
              /\ jobs[a].start + jobs[a].count <= Total
              /\ jobs[a].start = CoveredBefore(a)
              /\ CoveredBefore(a + 1) = jobs[a].start + jobs[a].count
  <1>1. cursor = Total /\ jobs \in Seq(Job) /\ CoverOK
    BY PartitionAssumption DEF PlanInv, PlanTypeOK, CapacityOK, SumsOK
  <1>2. CoveredBefore(1) = 0 /\ CoveredBefore(Len(jobs) + 1) = Total /\ Len(jobs) \in Nat
    BY <1>1 DEF CoveredBefore, CoverOK
  <1>3. ASSUME NEW a \in 1..Len(jobs)
        PROVE  /\ jobs[a].start \in Nat /\ jobs[a].count \in Nat \ {0} /\ jobs[a].slice \in 1..N
               /\ jobs[a].start + jobs[a].count <= Total
               /\ jobs[a].start = CoveredBefore(a)
               /\ CoveredBefore(a + 1) = jobs[a].start + jobs[a].count
    <2>1. jobs[a] \in Job
      BY <1>1
    <2>2. jobs[a].start \in Nat /\ jobs[a].count \in Nat /\ jobs[a].slice \in 1..N
      BY <2>1 DEF Job
    <2>3. /\ jobs[a].start + jobs[a].count <= Total /\ jobs[a].start = CoveredBefore(a)
          /\ jobs[a].count \in 1..item[jobs[a].slice].cap
      BY <1>1 DEF CoverOK
    <2>4. a + 1 # 1 /\ (a + 1) - 1 = a
      BY <1>2
    <2>5. CoveredBefore(a + 1) = jobs[a].start + jobs[a].count
      BY <2>4 DEF CoveredBefore
    <2> QED BY <2>2, <2>3, <2>5
  <1> QED BY <1>2, <1>3

SliceSet == [start : Nat, count : Nat]
WorkSet == [n2 : Bound, start : Nat, count : Nat]
FileSet == Bound \cup {Nothing, Cut} \cup SliceSet \cup WorkSet
BestSet == {Words(v) : v \in Nat} \cup {Nothing}
RunSet == [n2 : Bound, next : Nat, at : {"ship", "merge"}, best : BestSet,
           clean : BOOLEAN, matched : BOOLEAN]

\* The files on the hosts are of the values of N2 in use and lie within the
\* prefixes; which of them belong together is another matter.
Within(work) == /\ work \in WorkSet /\ work.n2 \in used
                /\ work.count > 0 /\ work.start + work.count <= Total
InRange(slice) == /\ slice \in SliceSet
                  /\ slice.count > 0 /\ slice.start + slice.count <= Total

FileOK(kind, file) == /\ kind = "suffix" => file \in used
                      /\ kind \in {"masks", "weights"} => InRange(file)
                      /\ kind \in {"blocked", "job"} => Within(file)

FilesOK ==
  /\ files \in [Hosts -> [Kinds -> FileSet]]
  /\ \A h \in Hosts : \A kind \in Kinds :
       files[h][kind] \notin {Nothing, Cut} => FileOK(kind, files[h][kind])

Witnessed(m, best) == \E p \in 0..Total - 1 : best = Words(Score[m][p])

\* The values of N2 in use, and the best so far.
RunOK ==
  /\ used \subseteq Bound
  /\ prepared \in used \cup {Nothing}
  /\ run # Nothing =>
       /\ run \in RunSet /\ run.next \in 1..Len(jobs) + 1
       /\ phase = "planned"
       /\ run.n2 \in used /\ prepared \in used
       /\ (used = {run.n2} /\ run.best # Nothing /\ run.matched) => Witnessed(run.n2, run.best)

BestIsLargest ==
  IF run.next = 1 THEN run.best = Nothing
  ELSE \E v \in Nat : run.best = Words(v) /\ Largest(run.n2, 0, CoveredBefore(run.next), v)

\* A dispatch that has gone well so far: the files of the slice that is
\* being merged are its own, and the best is the largest of what is covered.
CleanOK ==
  (run # Nothing /\ run.clean) =>
    /\ prepared = run.n2
    /\ (Busy /\ run.at = "merge") => files[There] = [kind \in Kinds |-> Shipped[kind]]
    /\ BestIsLargest

FabricInvariant == /\ PlanInv
                   /\ FilesOK /\ RunOK /\ CleanOK
                   /\ aggregate # Nothing => aggregate.n2 \in used
                   /\ CleanRunIsExact /\ WitnessedByAPrefix

LEMMA FabricInitInvariant == FabricInit => FabricInvariant
  <1> SUFFICES ASSUME FabricInit PROVE FabricInvariant
    OBVIOUS
  <1>1. PlanInv
    BY InitPlan DEF FabricInit
  <1>2. FilesOK
    BY DEF FabricInit, FilesOK, FileSet, Kinds
  <1> QED BY <1>1, <1>2 DEF FabricInit, FabricInvariant, RunOK, CleanOK, CleanRunIsExact,
                            WitnessedByAPrefix

\* Words are no mark of absence.
LEMMA WordsAreThere == ASSUME NEW v \in Nat PROVE Words(v) # Nothing
  <1>1. v % Word \in Nat /\ v \div Word \in Nat
    BY DivMod, FabricAssumption
  <1>2. Words(v) \in Nat \X Nat
    BY <1>1 DEF Words
  <1> QED BY <1>2, FabricAssumption

\* A step that leaves the aggregate as it is, and N2 in use, keeps what the
\* aggregate says.
LEMMA AggregateStays ==
  ASSUME FabricInvariant, UNCHANGED aggregate, used \subseteq used', used' \subseteq Bound
  PROVE  /\ aggregate' # Nothing => aggregate'.n2 \in used'
         /\ CleanRunIsExact' /\ WitnessedByAPrefix'
  <1>1. CleanRunIsExact'
    BY DEF FabricInvariant, CleanRunIsExact
  <1>2. aggregate # Nothing => aggregate.n2 \in used
    BY DEF FabricInvariant
  <1>3. WitnessedByAPrefix'
    BY <1>2 DEF FabricInvariant, WitnessedByAPrefix
  <1> QED BY <1>1, <1>2, <1>3

\* Only a plan that is not written yet is worked on.
LEMMA PlanKeeps ==
  ASSUME FabricInvariant, Plan
  PROVE  FabricInvariant'
  <1>1. PlanInv'
    BY NextPlan DEF FabricInvariant, Plan
  <1>2. phase # "planned"
    BY DEF Plan, PlanNext, Sum, CheckCapacity, Allocate, Validate
  <1>3. run = Nothing /\ UNCHANGED fabricVars
    BY <1>2 DEF FabricInvariant, RunOK, Plan
  <1>4. UNCHANGED <<prepared, files, run, aggregate, used>>
    BY <1>3 DEF fabricVars
  <1>5. FilesOK' /\ RunOK' /\ CleanOK'
    BY <1>3, <1>4 DEF FabricInvariant, FilesOK, FileOK, Within, InRange, RunOK, CleanOK
  <1>6. used' \subseteq Bound
    BY <1>4 DEF FabricInvariant, RunOK
  <1> QED BY <1>1, <1>4, <1>5, <1>6, AggregateStays DEF FabricInvariant

\* What all but Plan leave alone.
LEMMA PlanStays ==
  ASSUME FabricInvariant, UNCHANGED planVars
  PROVE  /\ PlanInv' /\ UNCHANGED <<jobs, phase>>
         /\ \A a : CoveredBefore(a)' = CoveredBefore(a)
  BY NextPlan DEF FabricInvariant, planVars, CoveredBefore

LEMMA FilesStay ==
  ASSUME FabricInvariant, UNCHANGED files, used \subseteq used'
  PROVE  FilesOK'
  <1>1. \A kind, file : FileOK(kind, file) => FileOK(kind, file)'
    BY DEF FileOK, Within, InRange
  <1> QED BY <1>1 DEF FabricInvariant, FilesOK

LEMMA PrepareKeeps ==
  ASSUME FabricInvariant, NEW m \in Bound, Prepare(m)
  PROVE  FabricInvariant'
  <1>1. /\ run = Nothing /\ prepared' = m /\ used' = used \cup {m}
        /\ UNCHANGED <<planVars, files, run, aggregate>>
    BY DEF Prepare
  <1>2. used' \subseteq Bound /\ used \subseteq used'
    BY <1>1 DEF FabricInvariant, RunOK
  <1>3. RunOK' /\ CleanOK'
    BY <1>1, <1>2 DEF RunOK, CleanOK
  <1> QED BY <1>1, <1>2, <1>3, PlanStays, FilesStay, AggregateStays DEF FabricInvariant

LEMMA DispatchKeeps ==
  ASSUME FabricInvariant, NEW m \in Bound, Dispatch(m)
  PROVE  FabricInvariant'
  <1>1. /\ phase = "planned" /\ prepared # Nothing /\ used' = used \cup {m}
        /\ run' = [n2 |-> m, next |-> 1, at |-> "ship", best |-> Nothing,
                   clean |-> prepared = m, matched |-> TRUE]
        /\ UNCHANGED <<planVars, prepared, files, aggregate>>
    BY DEF Dispatch
  <1>2. used' \subseteq Bound /\ used \subseteq used' /\ prepared \in used
    BY <1>1 DEF FabricInvariant, RunOK
  <1>3. PlanInv' /\ UNCHANGED <<jobs, phase>>
    BY <1>1, PlanStays
  <1>4. Len(jobs) \in Nat
    BY <1>1, PlanFacts DEF FabricInvariant
  <1>5. (prepared = m) \in BOOLEAN
    BY Zenon
  <1>6. run' \in RunSet
    BY <1>1, <1>5 DEF RunSet, BestSet
  <1>7. /\ run'.n2 = m /\ run'.next = 1 /\ run'.at = "ship" /\ run'.best = Nothing
        /\ run'.clean = (prepared = m)
    BY <1>1
  <1>8. RunOK'
    BY <1>1, <1>2, <1>3, <1>4, <1>6, <1>7 DEF RunOK
  <1>9. CleanOK'
    BY <1>1, <1>7 DEF CleanOK, BestIsLargest
  <1> QED BY <1>1, <1>2, <1>3, <1>8, <1>9, FilesStay, AggregateStays DEF FabricInvariant

\* The slice whose turn it is.
LEMMA CurrentIs ==
  ASSUME FabricInvariant, Busy
  PROVE  /\ run \in RunSet /\ run.next \in 1..Len(jobs) /\ phase = "planned"
         /\ There \in Hosts /\ Within(Work) /\ InRange(Slice) /\ prepared \in Bound
         /\ Slice = [start |-> Work.start, count |-> Work.count]
         /\ Work.start = CoveredBefore(run.next)
         /\ Work.start + Work.count = CoveredBefore(run.next + 1)
         /\ Work.n2 = run.n2
  <1>1. /\ run \in RunSet /\ run.next \in 1..Len(jobs) + 1 /\ phase = "planned"
        /\ run.next <= Len(jobs) /\ run.n2 \in used /\ prepared \in Bound
    BY DEF FabricInvariant, RunOK, Busy
  <1>2. run.next \in 1..Len(jobs) /\ run.n2 \in Bound
    BY <1>1, PlanFacts DEF FabricInvariant, RunSet
  <1>3. /\ Current.start \in Nat /\ Current.count \in Nat \ {0} /\ Current.slice \in 1..N
        /\ Current.start + Current.count <= Total
        /\ Current.start = CoveredBefore(run.next)
        /\ CoveredBefore(run.next + 1) = Current.start + Current.count
    BY <1>1, <1>2, PlanFacts DEF FabricInvariant, Current
  <1>4. There \in Hosts
    BY <1>3 DEF There, Hosts
  <1>5. Work.n2 = run.n2 /\ Work.start = Current.start /\ Work.count = Current.count
    BY DEF Work
  <1>6. Work \in WorkSet
    BY <1>2, <1>3 DEF Work, WorkSet
  <1>7. Within(Work)
    BY <1>1, <1>3, <1>5, <1>6 DEF Within
  <1>8. Slice = [start |-> Work.start, count |-> Work.count]
    BY <1>5 DEF Slice
  <1>9. InRange(Slice)
    BY <1>3 DEF Slice, InRange, SliceSet
  <1> QED BY <1>1, <1>2, <1>3, <1>4, <1>5, <1>7, <1>8, <1>9

LEMMA ShipKeeps ==
  ASSUME FabricInvariant, NEW fate \in [Kinds -> {"new", "old", "cut"}], Ship(fate)
  PROVE  FabricInvariant'
  <1> DEFINE h == There
             new == [kind \in Kinds |-> CASE fate[kind] = "new" -> Shipped[kind]
                                         [] fate[kind] = "old" -> files[h][kind]
                                         [] fate[kind] = "cut" -> Cut]
             whole == \A kind \in Kinds : fate[kind] = "new"
  <1>1. /\ Busy /\ files' = [files EXCEPT ![h] = new]
        /\ run' = [run EXCEPT !.at = "merge", !.clean = run.clean /\ whole]
        /\ UNCHANGED <<planVars, prepared, aggregate, used>>
    BY DEF Ship
  <1>2. /\ run \in RunSet /\ run.next \in 1..Len(jobs) /\ phase = "planned"
        /\ h \in Hosts /\ Within(Work) /\ InRange(Slice) /\ prepared \in Bound
    BY <1>1, CurrentIs
  <1>3. run # Nothing /\ RunOK /\ FilesOK /\ CleanOK
    BY <1>1 DEF FabricInvariant, Busy
  <1>a. \A kind \in Kinds : new[kind] \in {Shipped[kind], files[h][kind], Cut}
    <2> TAKE kind \in Kinds
    <2>1. fate[kind] = "new" \/ fate[kind] = "old" \/ fate[kind] = "cut"
      OBVIOUS
    <2> QED BY <2>1
  <1>b. whole => new = [kind \in Kinds |-> Shipped[kind]]
    OBVIOUS
  <1>c. new = [kind \in Kinds |-> new[kind]]
    OBVIOUS
  <1> HIDE DEF new, whole
  <1>4. (run.clean /\ whole) \in BOOLEAN
    BY Zenon
  <1>5. run' \in RunSet
    BY <1>1, <1>2, <1>4 DEF RunSet
  <1>6. /\ run'.n2 = run.n2 /\ run'.next = run.next /\ run'.at = "merge"
        /\ run'.best = run.best /\ run'.clean = (run.clean /\ whole)
        /\ run'.matched = run.matched
    BY <1>1, <1>2 DEF RunSet
  <1>7. PlanInv' /\ UNCHANGED <<jobs, phase>> /\ \A a : CoveredBefore(a)' = CoveredBefore(a)
    BY <1>1, PlanStays
  <1>8. RunOK'
    BY <1>1, <1>3, <1>5, <1>6, <1>7 DEF RunOK, Witnessed
  <1>9. \A kind \in Kinds : Shipped[kind] \in FileSet /\ FileOK(kind, Shipped[kind])
    <2>1. prepared \in used
      BY <1>3 DEF RunOK
    <2>2. /\ Shipped["suffix"] = prepared /\ Shipped["masks"] = Slice
          /\ Shipped["weights"] = Slice /\ Shipped["blocked"] = Work /\ Shipped["job"] = Work
      BY DEF Shipped
    <2>3. Slice \in FileSet /\ Work \in FileSet /\ prepared \in FileSet
      BY <1>2 DEF FileSet, Within, InRange
    <2> QED BY <1>2, <2>1, <2>2, <2>3 DEF Kinds, FileOK
  <1>10. \A kind \in Kinds :
           /\ new[kind] \in FileSet
           /\ new[kind] \notin {Nothing, Cut} => FileOK(kind, new[kind])
    <2> TAKE kind \in Kinds
    <2>1. files[h][kind] \in FileSet /\ Cut \in FileSet
      BY <1>2, <1>3 DEF FilesOK, FileSet
    <2>2. files[h][kind] \notin {Nothing, Cut} => FileOK(kind, files[h][kind])
      BY <1>2, <1>3 DEF FilesOK
    <2> QED BY <1>9, <1>a, <2>1, <2>2
  <1>11. /\ files'[h] = new /\ \A g \in Hosts \ {h} : files'[g] = files[g]
         /\ files' \in [Hosts -> [Kinds -> FileSet]]
    <2>1. new \in [Kinds -> FileSet]
      BY <1>10, <1>c
    <2> QED BY <1>1, <1>2, <1>3, <2>1 DEF FilesOK
  <1>12. FilesOK'
    <2>1. \A kind, file : FileOK(kind, file)' <=> FileOK(kind, file)
      BY <1>1 DEF FileOK, Within, InRange
    <2>2. ASSUME NEW g \in Hosts, NEW kind \in Kinds, files'[g][kind] \notin {Nothing, Cut}
          PROVE  FileOK(kind, files'[g][kind])
      <3>1. CASE g = h
        BY <1>10, <1>11, <2>2, <3>1
      <3>2. CASE g # h
        BY <1>3, <1>11, <2>2, <3>2 DEF FilesOK
      <3> QED BY <3>1, <3>2
    <2> QED BY <1>11, <2>1, <2>2 DEF FilesOK
  <1>13. CleanOK'
    <2> SUFFICES ASSUME run.clean, whole
                 PROVE  /\ prepared' = run'.n2
                        /\ files'[There'] = [kind \in Kinds |-> Shipped'[kind]]
                        /\ BestIsLargest'
      BY <1>6 DEF CleanOK
    <2>1. There' = h /\ Shipped' = Shipped
      BY <1>1, <1>6, <1>7 DEF There, Current, Work, Slice, Shipped
    <2>2. new = [kind \in Kinds |-> Shipped[kind]]
      BY <1>b
    <2>3. files'[There'] = [kind \in Kinds |-> Shipped'[kind]]
      BY <1>11, <2>1, <2>2
    <2>4. BestIsLargest /\ prepared = run.n2
      BY <1>3 DEF CleanOK
    <2>5. BestIsLargest'
      BY <1>6, <1>7, <2>4 DEF BestIsLargest, CoveredBefore, Largest
    <2> QED BY <1>1, <1>6, <2>3, <2>4, <2>5
  <1> QED BY <1>1, <1>7, <1>8, <1>12, <1>13, AggregateStays DEF FabricInvariant, RunOK
-----------------------------------------------------------------------------
\* The dispatch goes on to the next slice, or to the aggregate.
LEMMA SliceEnds ==
  ASSUME FabricInvariant, Busy, NEW better \in BestSet, NEW clean \in BOOLEAN,
         NEW matched \in BOOLEAN,
         NextSlice(better, clean, matched),
         UNCHANGED <<planVars, prepared, files, aggregate, used>>,
         (used = {run.n2} /\ better # Nothing /\ run.matched /\ matched) =>
            Witnessed(run.n2, better),
         (run.clean /\ clean) =>
            \E v \in Nat : /\ better = Words(v)
                           /\ Largest(run.n2, 0, CoveredBefore(run.next + 1), v)
  PROVE  FabricInvariant'
  <1>1. /\ run \in RunSet /\ run.next \in 1..Len(jobs) /\ phase = "planned" /\ Len(jobs) \in Nat
    BY CurrentIs, PlanFacts DEF FabricInvariant
  <1>2. run' = [run EXCEPT !.next = run.next + 1, !.at = "ship", !.best = better,
                           !.clean = run.clean /\ clean, !.matched = run.matched /\ matched]
    BY DEF NextSlice
  <1>3. (run.clean /\ clean) \in BOOLEAN /\ (run.matched /\ matched) \in BOOLEAN
    BY Zenon
  <1>4. run' \in RunSet
    <2>1. run.next + 1 \in Nat /\ run.n2 \in Bound
      BY <1>1 DEF RunSet
    <2>2. run' = [n2 |-> run.n2, next |-> run.next + 1, at |-> "ship", best |-> better,
                  clean |-> run.clean /\ clean, matched |-> run.matched /\ matched]
      BY <1>1, <1>2 DEF RunSet
    <2> QED BY <1>3, <2>1, <2>2 DEF RunSet
  <1>5. /\ run'.n2 = run.n2 /\ run'.next = run.next + 1 /\ run'.at = "ship"
        /\ run'.best = better /\ run'.clean = (run.clean /\ clean)
        /\ run'.matched = (run.matched /\ matched)
    BY <1>1, <1>2 DEF RunSet
  <1>6. PlanInv' /\ UNCHANGED <<jobs, phase>>
    BY PlanStays
  <1>7. run # Nothing /\ RunOK /\ CleanOK
    BY DEF FabricInvariant, Busy
  <1>8. RunOK'
    <2>1. run'.next \in 1..Len(jobs') + 1
      BY <1>1, <1>5, <1>6
    <2> QED BY <1>4, <1>5, <1>6, <1>7, <2>1 DEF RunOK, Witnessed
  <1>9. CleanOK'
    <2> SUFFICES ASSUME run.clean, clean PROVE prepared = run.n2 /\ BestIsLargest'
      BY <1>5 DEF CleanOK
    <2>1. PICK v \in Nat : better = Words(v) /\ Largest(run.n2, 0, CoveredBefore(run.next + 1), v)
      OBVIOUS
    <2>2. run'.next # 1
      BY <1>1, <1>5
    <2>3. BestIsLargest'
      BY <1>5, <1>6, <2>1, <2>2 DEF BestIsLargest, CoveredBefore, Largest
    <2> QED BY <1>7, <2>3 DEF CleanOK
  <1>10. FilesOK'
    BY FilesStay
  <1> QED BY <1>6, <1>8, <1>9, <1>10, AggregateStays DEF FabricInvariant, RunOK

LEMMA FailKeeps ==
  ASSUME FabricInvariant, Fail
  PROVE  FabricInvariant'
  <1>1. /\ Busy /\ NextSlice(run.best, FALSE, TRUE)
        /\ UNCHANGED <<planVars, prepared, files, aggregate, used>>
    BY DEF Fail
  <1>2. run.best \in BestSet
    BY <1>1, CurrentIs DEF RunSet
  <1>3. (used = {run.n2} /\ run.best # Nothing /\ run.matched) => Witnessed(run.n2, run.best)
    BY <1>1 DEF FabricInvariant, RunOK, Busy
  <1> QED BY <1>1, <1>2, <1>3, SliceEnds

\* What a host answers when its files belong together and are of one N2.
LEMMA AnswerIs ==
  ASSUME NEW at, NEW v, v \in Answers(at), Matched(at), at.suffix \in Bound,
         at.blocked.n2 = at.suffix, at.masks.start \in Nat, at.masks.count \in Nat,
         at.job.count \in Nat, at.job.count > 0, at.masks.count >= at.job.count,
         at.masks.start + at.masks.count <= Total
  PROVE  Largest(at.suffix, at.masks.start, at.masks.start + at.job.count, v)
  <1> DEFINE low == at.masks.start
             high == at.masks.start + at.job.count
  <1>1. low \in Nat /\ high \in Nat /\ low < high /\ high <= Total
    BY PartitionAssumption
  <1>2. Fits(at)
    BY Zenon DEF Fits
  <1>3. v = LargestTotal(at.suffix, low, high)
    BY <1>2, Zenon DEF Answers
  <1> HIDE DEF low, high
  <1>4. Largest(at.suffix, low, high, v)
    BY <1>1, <1>3, LargestIs
  <1> QED BY <1>4 DEF low, high

\* What lies on the host of a slice that reports over files that match.
LEMMA MatchedFiles ==
  ASSUME FabricInvariant, NEW h \in Hosts, Loadable(files[h]), Matched(files[h])
  PROVE  /\ files[h].suffix \in used /\ files[h].blocked.n2 \in used
         /\ files[h].masks.start \in Nat /\ files[h].masks.count \in Nat
         /\ files[h].job.count \in Nat /\ files[h].job.count > 0
         /\ files[h].masks.count >= files[h].job.count
         /\ files[h].masks.start + files[h].masks.count <= Total
  <1> DEFINE at == files[h]
  <1>1. \A kind \in Kinds : at[kind] \notin {Nothing, Cut}
    BY DEF Loadable, Matched, Kinds
  <1>2. \A kind \in Kinds : FileOK(kind, at[kind])
    BY <1>1 DEF FabricInvariant, FilesOK
  <1>3. at["weights"] # Cut => at["weights"].count >= at["job"].count
    BY DEF Loadable
  <1>4. at["masks"] = at["weights"]
    BY DEF Matched
  <1> HIDE DEF at
  <1>5. /\ at["suffix"] \in used /\ InRange(at["masks"]) /\ Within(at["blocked"])
        /\ Within(at["job"]) /\ at["masks"].count >= at["job"].count
    BY <1>1, <1>2, <1>3, <1>4 DEF FileOK, Kinds
  <1>6. /\ at.suffix \in used /\ at.blocked.n2 \in used
        /\ at.masks.start \in Nat /\ at.masks.count \in Nat
        /\ at.job.count \in Nat /\ at.job.count > 0
        /\ at.masks.count >= at.job.count
        /\ at.masks.start + at.masks.count <= Total
    BY <1>5 DEF InRange, SliceSet, Within, WorkSet
  <1> QED BY <1>6 DEF at

LEMMA ReportKeeps ==
  ASSUME FabricInvariant, NEW v \in 0..Word * Word - 1, Report(v)
  PROVE  FabricInvariant'
  <1> DEFINE at == files[There]
             better == run.best = Nothing \/ Greater(Words(v), run.best)
             best == IF better THEN Words(v) ELSE run.best
  <1>1. /\ Busy /\ run.at = "merge" /\ Loadable(at) /\ v \in Answers(at)
        /\ NextSlice(best, TRUE, Matched(at))
        /\ UNCHANGED <<planVars, prepared, files, aggregate, used>>
    BY DEF Report
  <1>2. /\ run \in RunSet /\ run.next \in 1..Len(jobs) /\ There \in Hosts /\ Within(Work)
        /\ prepared \in Bound
        /\ Slice = [start |-> Work.start, count |-> Work.count]
        /\ Work.start = CoveredBefore(run.next)
        /\ Work.start + Work.count = CoveredBefore(run.next + 1)
        /\ Work.n2 = run.n2
    BY <1>1, CurrentIs
  <1>3. Matched(at) => /\ at.suffix \in used /\ at.blocked.n2 \in used
                       /\ at.masks.start \in Nat /\ at.masks.count \in Nat
                       /\ at.job.count \in Nat /\ at.job.count > 0
                       /\ at.masks.count >= at.job.count
                       /\ at.masks.start + at.masks.count <= Total
    BY <1>1, <1>2, MatchedFiles
  <1> HIDE DEF at
  <1>4. used \subseteq Bound /\ run # Nothing /\ run.n2 \in used
    BY <1>1 DEF FabricInvariant, RunOK, Busy
  <1>5. v \in Nat
    BY FabricAssumption
  <1>6. Matched(at) \in BOOLEAN
    BY Zenon DEF Matched
  <1>7. best \in BestSet
    BY <1>2, <1>5 DEF RunSet, BestSet
  <1>8. (used = {run.n2} /\ best # Nothing /\ run.matched /\ Matched(at)) =>
          Witnessed(run.n2, best)
    <2> SUFFICES ASSUME used = {run.n2}, run.matched, Matched(at)
                 PROVE best # Nothing => Witnessed(run.n2, best)
      OBVIOUS
    <2>1. at.suffix = run.n2 /\ at.blocked.n2 = run.n2 /\ run.n2 \in Bound
      BY <1>3, <1>4
    <2>2. Largest(run.n2, at.masks.start, at.masks.start + at.job.count, v)
      BY <1>1, <1>3, <2>1, AnswerIs
    <2>3. Witnessed(run.n2, Words(v))
      BY <1>3, <2>2, PartitionAssumption DEF Largest, Witnessed
    <2>4. run.best # Nothing => Witnessed(run.n2, run.best)
      BY <1>4 DEF FabricInvariant, RunOK
    <2> QED BY <2>3, <2>4
  <1>9. run.clean => \E w \in Nat : /\ best = Words(w)
                                    /\ Largest(run.n2, 0, CoveredBefore(run.next + 1), w)
    <2> SUFFICES ASSUME run.clean
                 PROVE \E w \in Nat : /\ best = Words(w)
                                      /\ Largest(run.n2, 0, CoveredBefore(run.next + 1), w)
      OBVIOUS
    <2>1. prepared = run.n2 /\ at = [kind \in Kinds |-> Shipped[kind]] /\ BestIsLargest
      BY <1>1, <1>4 DEF FabricInvariant, CleanOK, at
    <2>2. /\ at.suffix = run.n2 /\ at.masks = Slice /\ at.weights = Slice
          /\ at.blocked = Work /\ at.job = Work
      <3>1. /\ at["suffix"] = run.n2 /\ at["masks"] = Slice /\ at["weights"] = Slice
            /\ at["blocked"] = Work /\ at["job"] = Work
        BY <2>1 DEF Kinds, Shipped
      <3> QED BY <3>1
    <2>3. Matched(at)
      <3>1. run.n2 # Cut /\ Slice # Cut /\ Work # Cut
        BY <1>2, <1>4, FabricAssumption DEF Within, WorkSet
      <3>2. \A kind \in Kinds \ {"job"} : at[kind] # Cut
        BY <2>2, <3>1 DEF Kinds
      <3> QED BY <1>2, <2>2, <3>2 DEF Matched
    <2>4. Largest(run.n2, Work.start, Work.start + Work.count, v)
      <3>1. run.n2 \in Bound /\ Work.n2 = run.n2
        BY <1>2, <1>4
      <3>2. at.masks.start = Work.start /\ at.job.count = Work.count
        BY <1>2, <2>2
      <3>3. Largest(at.suffix, at.masks.start, at.masks.start + at.job.count, v)
        BY <1>1, <1>3, <2>2, <2>3, <3>1, AnswerIs
      <3> QED BY <2>2, <3>2, <3>3
    <2> DEFINE mid == CoveredBefore(run.next)
               high == CoveredBefore(run.next + 1)
    <2>5. /\ mid \in Nat /\ high \in Nat /\ mid <= high /\ high <= Total
          /\ Largest(run.n2, mid, high, v)
      BY <1>2, <2>4, PartitionAssumption DEF Within, WorkSet
    <2>6. CASE run.next = 1
      <3>1. mid = 0
        BY <2>6 DEF CoveredBefore
      <3>2. best = Words(v)
        BY <2>1, <2>6 DEF BestIsLargest
      <3> QED BY <1>5, <2>5, <3>1, <3>2
    <2>7. CASE run.next # 1
      <3>1. PICK b \in Nat : run.best = Words(b) /\ Largest(run.n2, 0, mid, b)
        BY <2>1, <2>7 DEF BestIsLargest
      <3>2. better <=> v > b
        BY <1>5, <3>1, WordsAreThere, WordOrder
      <3>3. best = Words(IF v > b THEN v ELSE b)
        BY <3>1, <3>2
      <3> HIDE DEF mid, high
      <3>4. Largest(run.n2, 0, high, IF v > b THEN v ELSE b)
        BY <1>4, <1>5, <2>5, <3>1, LargestOfBoth
      <3>5. (IF v > b THEN v ELSE b) \in Nat
        BY <1>5, <3>1
      <3> QED BY <3>3, <3>4, <3>5 DEF high
    <2> QED BY <2>6, <2>7
  <1> HIDE DEF best
  <1> QED BY <1>1, <1>6, <1>7, <1>8, <1>9, SliceEnds

LEMMA RunGoes ==
  ASSUME FabricInvariant, TimesOut \/ Aggregate
  PROVE  /\ PlanInv' /\ FilesOK' /\ RunOK' /\ CleanOK'
  <1>1. run' = Nothing /\ UNCHANGED <<planVars, prepared, files, used>>
    BY DEF TimesOut, Aggregate
  <1> QED BY <1>1, PlanStays, FilesStay DEF FabricInvariant, RunOK, CleanOK

LEMMA AggregateKeeps ==
  ASSUME FabricInvariant, Aggregate
  PROVE  FabricInvariant'
  <1>1. /\ run # Nothing /\ run.next > Len(jobs) /\ UNCHANGED used
        /\ aggregate' = [n2 |-> run.n2, max |-> run.best, clean |-> run.clean,
                       matched |-> run.matched]
    BY DEF Aggregate
  <1>2. /\ run.next \in 1..Len(jobs) + 1 /\ run.n2 \in used /\ used \subseteq Bound
        /\ phase = "planned"
        /\ (used = {run.n2} /\ run.best # Nothing /\ run.matched) => Witnessed(run.n2, run.best)
    BY <1>1 DEF FabricInvariant, RunOK
  <1>3. run.next = Len(jobs) + 1 /\ CoveredBefore(run.next) = Total /\ CoveredBefore(1) = 0
    BY <1>1, <1>2, PlanFacts DEF FabricInvariant
  <1>4. WitnessedByAPrefix'
    BY <1>1, <1>2 DEF WitnessedByAPrefix, Witnessed
  <1>5. run.clean => run.best = Words(Best(run.n2))
    <2> SUFFICES ASSUME run.clean PROVE run.best = Words(Best(run.n2))
      OBVIOUS
    <2>1. run.next # 1 /\ BestIsLargest
      BY <1>1, <1>3, FabricAssumption DEF FabricInvariant, CleanOK
    <2>2. PICK v \in Nat : run.best = Words(v) /\ Largest(run.n2, 0, Total, v)
      BY <1>3, <2>1 DEF BestIsLargest
    <2>3. Largest(run.n2, 0, Total, Best(run.n2))
      <3>1. run.n2 \in Bound
        BY <1>2, Zenon
      <3>2. 0 \in Nat /\ Total \in Nat /\ 0 < Total /\ Total <= Total
        BY PartitionAssumption, FabricAssumption
      <3>3. Largest(run.n2, 0, Total, LargestTotal(run.n2, 0, Total))
        BY <3>1, <3>2, LargestIs
      <3> QED BY <3>3 DEF Best
    <2>4. v = Best(run.n2)
      <3>1. PICK p \in 0..Total - 1 : v = Score[run.n2][p]
        BY <2>2 DEF Largest
      <3>2. PICK q \in 0..Total - 1 : Best(run.n2) = Score[run.n2][q]
        BY <2>3 DEF Largest
      <3>3. Best(run.n2) <= v /\ v <= Best(run.n2)
        BY <2>2, <2>3, <3>1, <3>2 DEF Largest
      <3>4. v \in Nat /\ Best(run.n2) \in Nat
        BY <1>2, <3>2, ScoreIs
      <3> QED BY <3>3, <3>4
    <2> QED BY <2>2, <2>4
  <1>6. CleanRunIsExact'
    BY <1>1, <1>5 DEF CleanRunIsExact, Best
  <1> QED BY <1>1, <1>2, <1>4, <1>6, RunGoes DEF FabricInvariant

LEMMA FabricNextInvariant == FabricInvariant /\ [Next]_vars => FabricInvariant'
  <1> SUFFICES ASSUME FabricInvariant, [Next]_vars PROVE FabricInvariant'
    OBVIOUS
  <1>1. CASE Plan
    BY <1>1, PlanKeeps
  <1>2. ASSUME NEW m \in Bound, Prepare(m) \/ Dispatch(m) PROVE FabricInvariant'
    BY <1>2, PrepareKeeps, DispatchKeeps
  <1>3. ASSUME NEW fate \in [Kinds -> {"new", "old", "cut"}], Ship(fate)
        PROVE  FabricInvariant'
    BY <1>3, ShipKeeps
  <1>4. CASE (\E v \in 0..Word * Word - 1 : Report(v)) \/ Fail
    BY <1>4, ReportKeeps, FailKeeps
  <1>5. CASE TimesOut
    <2>1. UNCHANGED <<aggregate, used>>
      BY <1>5 DEF TimesOut
    <2> QED BY <1>5, <2>1, RunGoes, AggregateStays DEF FabricInvariant, RunOK
  <1>6. CASE Aggregate
    BY <1>6, AggregateKeeps
  <1>7. CASE UNCHANGED vars
    <2>1. UNCHANGED planVars /\ UNCHANGED <<prepared, files, run, aggregate, used>>
      BY <1>7 DEF vars, fabricVars
    <2>2. PlanInv' /\ FilesOK' /\ UNCHANGED <<jobs, phase>>
      BY <2>1, PlanStays, FilesStay
    <2>3. RunOK'
      BY <2>1, <2>2 DEF FabricInvariant, RunOK
    <2>4. CleanOK'
      BY <2>1, <2>2 DEF FabricInvariant, CleanOK, BestIsLargest, CoveredBefore, Busy, There,
                        Current, Shipped, Slice, Work, Largest
    <2> QED BY <2>1, <2>2, <2>3, <2>4, AggregateStays DEF FabricInvariant, RunOK
  <1> QED BY <1>1, <1>2, <1>3, <1>4, <1>5, <1>6, <1>7 DEF Next

LEMMA FabricInvariance == Spec => []FabricInvariant
  BY FabricInitInvariant, FabricNextInvariant, PTL DEF Spec

(* The plan that is dispatched stays exact, whatever comes of dispatches.  *)
THEOREM FabricPlansAreExact == Spec => []PlanIsExact
  <1>1. FabricInvariant => PlanIsExact
    BY PlanInvImplies DEF FabricInvariant
  <1> QED BY <1>1, FabricInvariance, PTL

(* A dispatch in which nothing went wrong reports the exact maximum over   *)
(* all prefixes, whatever was left on the hosts before.                    *)
THEOREM CleanRunsAreExact == Spec => []CleanRunIsExact
  <1>1. FabricInvariant => CleanRunIsExact
    BY DEF FabricInvariant
  <1> QED BY <1>1, FabricInvariance, PTL

(* With one N2 in use, an aggregate over prefix files that matched in each *)
(* merge (none cut short, masks, weights and blocked bits of one slice) is *)
(* the total of a prefix: lost jobs, slices stale as a whole, failed       *)
(* merges and timeouts make it only smaller.  merge.rs does not look       *)
(* whether they match, so the premise is a real one.                       *)
THEOREM AggregatesAreWitnessed == Spec => []WitnessedByAPrefix
  <1>1. FabricInvariant => WitnessedByAPrefix
    BY DEF FabricInvariant
  <1> QED BY <1>1, FabricInvariance, PTL
=============================================================================
