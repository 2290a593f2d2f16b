---------------------------- MODULE MergeFabric ----------------------------
(***************************************************************************)
(* fabric_merge_dispatch.py over a plan of MergePartition, and merge.rs on *)
(* the nodes: the suffix state of one N2 is prepared on the dispatcher,    *)
(* each slice is shipped to its host and merged there, one slice after the *)
(* other, and the largest of the reported maxima is the aggregate.         *)
(*                                                                         *)
(* No return code of scp is looked at, the file names on a host do not     *)
(* depend on N2 or on the slice, and a result is not compared with the job *)
(* it was asked for.  So each file on a host is one of a dispatch of its   *)
(* own, or cut short.  A file is told by what it was made for: masks and   *)
(* weights by their slice, blocked bits and job by their slice and N2, the *)
(* suffix by N2.  The four files of the suffix are one here; when only     *)
(* some of them are replaced, that is a cut one.  What a merge finds for a *)
(* prefix is a constant (Score); a merge over files that do not belong     *)
(* together may answer anything.                                           *)
(***************************************************************************)
EXTENDS MergePartition, FiniteSets, FiniteSetsExt

CONSTANTS Bound,    \* the values of N2 in use
          Host,     \* the host of each slice: several NUMA nodes may share one
          Score,    \* Score[m][p]: the best total of prefix p for N2 = m
          Word,     \* the radix of a word: 2^32
          Chunk,    \* prefixes that merge.rs handles per submission: 2^20
          Nothing,  \* no file, no dispatch, no result
          Cut,      \* a file cut short
          MaxRuns,  \* bound on the dispatches
          MaxLost   \* bound on the copies that do not arrive whole

ASSUME FabricAssumption == /\ Bound \subseteq Nat
                           /\ Score \in [Bound -> [0..Total - 1 -> 0..Word * Word - 1]]
                           /\ Word \in Nat \ {0} /\ Chunk \in Nat
                           /\ MaxRuns \in Nat /\ MaxLost \in Nat
                           /\ Total > 0
                           /\ Nothing \notin Nat \X Nat
                           /\ Cut \notin Bound
                           /\ Cut \notin [start : Nat, count : Nat]
                           /\ Cut \notin [n2 : Bound, start : Nat, count : Nat]

VARIABLES prepared,  \* the N2 of the suffix state in workdir
          files,     \* /tmp/fm of each host
          run,       \* the dispatch under way
          aggregate, \* aggregate.json, with what the observers of the run saw
          runs,      \* dispatches so far
          lost,      \* copies so far that did not arrive whole
          used       \* observer: the values of N2 that were prepared or dispatched

fabricVars == <<prepared, files, run, aggregate, runs, lost, used>>
vars == <<planVars, fabricVars>>

Kinds == {"suffix", "masks", "weights", "blocked", "job"}
Hosts == {Host[k] : k \in 1..N}

FabricInit == /\ Init
              /\ prepared = Nothing
              /\ files = [h \in Hosts |-> [kind \in Kinds |-> Nothing]]
              /\ run = Nothing
              /\ aggregate = Nothing
              /\ runs = 0
              /\ lost = 0
              /\ used = {}

\* --plan N2
Plan == PlanNext /\ UNCHANGED fabricVars

\* --prepare N2; the files of the N2 before are overwritten.
Prepare(m) ==
  /\ run = Nothing /\ phase = "planned" /\ runs < MaxRuns
  /\ prepared # m
  /\ prepared' = m
  /\ used' = used \cup {m}
  /\ UNCHANGED <<planVars, files, run, aggregate, runs, lost>>

\* --dispatch N2: the plan is read and validated again; nothing says which
\* N2 the suffix state was prepared for.
Dispatch(m) ==
  /\ run = Nothing /\ phase = "planned" /\ runs < MaxRuns
  /\ prepared # Nothing
  /\ run' = [n2 |-> m, next |-> 1, at |-> "ship", best |-> Nothing,
             clean |-> prepared = m, matched |-> TRUE]
  /\ runs' = runs + 1
  /\ used' = used \cup {m}
  /\ UNCHANGED <<planVars, prepared, files, aggregate, lost>>

Busy == run # Nothing /\ run.next <= Len(jobs)

\* The slice whose turn it is, its host, and what is written about it.
Current == jobs[run.next]
There == Host[Current.slice]
Slice == [start |-> Current.start, count |-> Current.count]
Work == [n2 |-> run.n2, start |-> Current.start, count |-> Current.count]

\* What is shipped: the prefixes are blocked for the N2 of the dispatch, the
\* suffixes are the prepared ones.
Shipped == [suffix |-> prepared, masks |-> Slice, weights |-> Slice,
            blocked |-> Work, job |-> Work]

\* Each copy arrives, or leaves the older file, if any, or is cut short.
Ship(fate) ==
  /\ Busy /\ run.at = "ship"
  /\ lost' = lost + Cardinality({kind \in Kinds : fate[kind] # "new"})
  /\ lost' <= MaxLost
  /\ files' = [files EXCEPT ![There] =
                 [kind \in Kinds |-> CASE fate[kind] = "new" -> Shipped[kind]
                                      [] fate[kind] = "old" -> @[kind]
                                      [] fate[kind] = "cut" -> Cut]]
  /\ run' = [run EXCEPT !.at = "merge", !.clean = @ /\ \A kind \in Kinds : fate[kind] = "new"]
  /\ UNCHANGED <<planVars, prepared, aggregate, runs, used>>

\* Mutant of Loadable: the lengths are not asserted.
LoadableShort(at) == /\ (\A kind \in Kinds : at[kind] # Nothing) /\ at.job # Cut
                     /\ at.job.count <= Chunk

\* merge.rs parses the job, reads the files it names and asserts that the
\* weights suffice, of all the prefix files; a second chunk finds the read
\* buffer still mapped, and panics.
Loadable(at) == /\ (\A kind \in Kinds : at[kind] # Nothing) /\ at.job # Cut
                /\ at.weights # Cut => at.weights.count >= at.job.count
                /\ at.job.count <= Chunk

\* The maximum over the prefixes from low to below high.
LargestTotal(m, low, high) == Max({Score[m][p] : p \in low..high - 1})

\* The three prefix files are of one slice, and nothing is cut short.
Matched(at) == /\ \A kind \in Kinds \ {"job"} : at[kind] # Cut
               /\ at.masks = at.weights
               /\ at.masks = [start |-> at.blocked.start, count |-> at.blocked.count]

Fits(at) == /\ Matched(at)
            /\ at.suffix = at.blocked.n2
            /\ at.masks.count >= at.job.count

\* What the host may report, a total in units of the suffix state's lcm.
\* The shader takes mask, weight and blocked bits of a prefix from the same
\* place of the three files, whatever they were made for.
Answers(at) ==
  IF Fits(at)
  THEN {LargestTotal(at.suffix, at.masks.start, at.masks.start + at.job.count)}
  ELSE 0..Word * Word - 1

\* max_words: low word first.
Words(v) == <<v % Word, v \div Word>>

\* Mutant of Greater: low word first.
GreaterLowFirst(a, b) ==
  \/ a[1] > b[1]
  \/ a[1] = b[1] /\ a[2] > b[2]

\* u192_key: high word first.
Greater(a, b) ==
  \/ a[2] > b[2]
  \/ a[2] = b[2] /\ a[1] > b[1]

NextSlice(better, clean, matched) ==
  run' = [run EXCEPT !.next = @ + 1, !.at = "ship", !.best = better,
                     !.clean = @ /\ clean, !.matched = @ /\ matched]

\* The result of the slice joins the others; aggregate_worker_results keeps
\* the first of the largest, which is kept here result by result.
Report(v) ==
  /\ Busy /\ run.at = "merge"
  /\ Loadable(files[There])
  /\ v \in Answers(files[There])
  /\ LET better == run.best = Nothing \/ Greater(Words(v), run.best)
     IN NextSlice(IF better THEN Words(v) ELSE run.best, TRUE, Matched(files[There]))
  /\ UNCHANGED <<planVars, prepared, files, aggregate, runs, lost, used>>

\* ssh fails or the merge does: FAIL is printed, and the loop goes on.
Fail ==
  /\ Busy /\ run.at = "merge"
  /\ NextSlice(run.best, FALSE, TRUE)
  /\ UNCHANGED <<planVars, prepared, files, aggregate, runs, lost, used>>

\* An ssh takes more than 600 s, mkdir's or the merge's: TimeoutExpired ends
\* the dispatch.
TimesOut ==
  /\ Busy
  /\ run' = Nothing
  /\ UNCHANGED <<planVars, prepared, files, aggregate, runs, lost, used>>

Aggregate ==
  /\ run # Nothing /\ run.next > Len(jobs)
  /\ aggregate' = [n2 |-> run.n2, max |-> run.best, clean |-> run.clean,
                    matched |-> run.matched]
  /\ run' = Nothing
  /\ UNCHANGED <<planVars, prepared, files, runs, lost, used>>

Next == \/ Plan
        \/ \E m \in Bound : Prepare(m) \/ Dispatch(m)
        \/ \E fate \in [Kinds -> {"new", "old", "cut"}] : Ship(fate)
        \/ \E v \in 0..Word * Word - 1 : Report(v)
        \/ Fail
        \/ TimesOut
        \/ Aggregate

Spec == FabricInit /\ [][Next]_vars

-----------------------------------------------------------------------------
TypeOK ==
  LET slice == [start : 0..Total, count : 1..Total]
      work == [n2 : Bound, start : 0..Total, count : 1..Total]
      none == {Nothing, Cut}
  IN /\ PlanTypeOK
     /\ prepared \in Bound \cup {Nothing}
     /\ \A h \in Hosts : /\ files[h].suffix \in Bound \cup none
                         /\ files[h].masks \in slice \cup none
                         /\ files[h].weights \in slice \cup none
                         /\ files[h].blocked \in work \cup none
                         /\ files[h].job \in work \cup none
     /\ run = Nothing \/ run.next \in 1..Len(jobs) + 1
     /\ runs \in 0..MaxRuns /\ lost \in 0..MaxLost /\ used \subseteq Bound

\* The maximum over all prefixes.
Best(m) == LargestTotal(m, 0, Total)

(* When the state was prepared for the N2 of the dispatch, every copy      *)
(* arrived and every slice reported, the aggregate is the maximum over all *)
(* prefixes, whatever older files lie on the hosts.  (The file says        *)
(* nothing of whether that was so: BLITTER-08, docs/specs.)                *)
CleanRunIsExact ==
  (aggregate # Nothing /\ aggregate.clean) => aggregate.max = Words(Best(aggregate.n2))

(* As long as one N2 is in use and no merge reported over prefix files of  *)
(* different slices or over a file cut short, whatever else goes wrong     *)
(* only makes the aggregate too small: lost or stale jobs, slices that are *)
(* stale as a whole, a stale suffix, failed merges and timeouts.  What is  *)
(* in it is the total of a prefix, a lower bound at least.  (Over files    *)
(* that do not match it may be anything, and nothing says so.)             *)
WitnessedByAPrefix ==
  (aggregate # Nothing /\ aggregate.max # Nothing /\ aggregate.matched) =>
     \/ used # {aggregate.n2}
     \/ \E p \in 0..Total - 1 : aggregate.max = Words(Score[aggregate.n2][p])
=============================================================================
