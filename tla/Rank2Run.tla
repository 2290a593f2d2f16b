------------------------------ MODULE Rank2Run ------------------------------
(***************************************************************************)
(* scripts/cluster/rank2_run.py: a planned run, submitted as often as the  *)
(* operator likes, and verified.  A submit is a process on the coordinator *)
(* with one thread per node; each thread takes the node's jobs in order,   *)
(* ships the sources, runs a container over ssh and fetches its result.    *)
(* Files are the only state that survives a process: the two artifacts and *)
(* the results on the coordinator, a work directory per job on the node.   *)
(*                                                                         *)
(* Any remote step may fail or time out, and a process may be killed at    *)
(* any time.  What it had asked a node for may still happen then, or never *)
(* happen: a container that runs goes on, one that was on its way (an      *)
(* image pull, a nix shell) starts when it gets there, and so do prepare   *)
(* and clean.  They find their directory by its name, which is the same in *)
(* every submit.  Two submits may overlap: nothing in the program prevents *)
(* it.  A killed process takes the ssh and scp it started with it.         *)
(*                                                                         *)
(* A file is "none", "part" (created, or cut off, or still being written), *)
(* or "whole".  All whole results of a job are alike: the search is a      *)
(* function of the shard.  A part of a JSON document never parses, so both *)
(* json.loads and the receipt digest refuse it.                            *)
(*                                                                         *)
(* Left out: the plan's making and digest (the plan never changes here),   *)
(* resource probes and weights, logs, the overlap of task keys, the        *)
(* instant between `exists' and `open' of an artifact, and a mkdir or      *)
(* chmod of the binary that comes late, which changes nothing said here.   *)
(***************************************************************************)
EXTENDS Naturals, FiniteSets

CONSTANTS Jobs,     \* number of jobs in the plan
          NodeOf,   \* the node of each job
          Submits,  \* bound on the submit processes
          MaxFaults \* bound on failed steps and killed processes

Job == 1..Jobs
Node == {NodeOf[j] : j \in Job}
Submit == 1..Submits  \* processes, in order of start
File == {"none", "part", "whole"}
Artifact == {"archive", "binary"}  \* source.tar.gz, bin/modular_rank_batch

ASSUME Rank2Assumption == /\ Jobs \in Nat \ {0}
                          /\ DOMAIN NodeOf = Job
                          /\ MaxFaults \in Nat
                          /\ Submits \in Nat

VARIABLES artifact,  \* the two artifacts, each a file
          result,    \* results/<job>.json
          fetcher,   \* who opened each result last
          phase,     \* where each submit is
          rerun,     \* --rerun
          todo,      \* what is left of each submit's queues
          stage,     \* where each node's thread is, by submit
          tar,       \* <remote_root>.tar.gz of each job
          dir,       \* <remote_root>: what it holds, by job
          container, \* by submit and job: its state, whether /output is
                     \* still the job's directory, and (observer) whether
                     \* its submit had given up when it started to run
          left,      \* the command each submit left on its way to each job
          reading,   \* cmd_verify: the next of its reads; 0: not running
          merged,    \* merged.json has been written
          overlapped,\* observer: two submits have run at a time
          undisturbed, \* observer: no submit has run beside this verify
          faults

coordinator == <<artifact, result, fetcher>>
process == <<phase, rerun, todo, stage>>
remote == <<tar, dir, container, left>>
verifier == <<reading, merged, undisturbed>>
rank2Vars == <<coordinator, process, remote, verifier, overlapped, faults>>

NoDir == [source |-> FALSE, binary |-> FALSE, output |-> "none"]
NoContainer == [state |-> "none", mounted |-> FALSE, late |-> FALSE]

Running(s) == phase[s] \notin {"none", "ok", "failed", "killed"}

\* The job that submit s is at on node n.
Current(s, n) == {j \in todo[s] : NodeOf[j] = n}
At(s, n, j, where) == /\ phase[s] = "running"
                      /\ stage[s][n] = where
                      /\ j \in Current(s, n) /\ \A k \in Current(s, n) : j <= k

GoTo(s, n, where) == stage' = [stage EXCEPT ![s][n] = where]

Init == /\ artifact = [a \in Artifact |-> "none"]
        /\ result = [j \in Job |-> "none"]
        /\ fetcher = [j \in Job |-> {}]
        /\ phase = [s \in Submit |-> "none"]
        /\ rerun = [s \in Submit |-> FALSE]
        /\ todo = [s \in Submit |-> {}]
        /\ stage = [s \in Submit |-> [n \in Node |-> "send"]]
        /\ tar = [j \in Job |-> "none"]
        /\ dir = [j \in Job |-> NoDir]
        /\ container = [s \in Submit |-> [j \in Job |-> NoContainer]]
        /\ left = [s \in Submit |-> [j \in Job |-> "none"]]
        /\ reading = 0
        /\ merged = FALSE
        /\ overlapped = FALSE
        /\ undisturbed = TRUE
        /\ faults = 0

-----------------------------------------------------------------------------
(* cmd_submit                                                              *)

Begin(s, again) ==
  /\ phase[s] = "none"
  /\ \A earlier \in 1..s - 1 : phase[earlier] # "none"
  /\ phase' = [phase EXCEPT ![s] = "archive"]
  /\ rerun' = [rerun EXCEPT ![s] = again]
  /\ overlapped' = (overlapped \/ \E other \in Submit : Running(other))
  /\ undisturbed' = FALSE
  /\ UNCHANGED <<coordinator, todo, stage, remote, reading, merged, faults>>

Creating(a) == IF a = "archive" THEN "archiving" ELSE "building"
After(a) == IF a = "archive" THEN "binary" ELSE "queue"

\* The artifact is there already; nobody asks whether it is whole.
Reuse(s, a) ==
  /\ phase[s] = a
  /\ artifact[a] # "none"
  /\ phase' = [phase EXCEPT ![s] = After(a)]
  /\ UNCHANGED <<coordinator, rerun, todo, stage, remote, verifier, overlapped, faults>>

Create(s, a) ==
  /\ phase[s] = a
  /\ artifact[a] = "none"
  /\ artifact' = [artifact EXCEPT ![a] = "part"]
  /\ phase' = [phase EXCEPT ![s] = Creating(a)]
  /\ UNCHANGED <<result, fetcher, rerun, todo, stage, remote, verifier, overlapped, faults>>

Created(s, a) ==
  /\ phase[s] = Creating(a)
  /\ artifact' = [artifact EXCEPT ![a] = "whole"]
  /\ phase' = [phase EXCEPT ![s] = After(a)]
  /\ UNCHANGED <<result, fetcher, rerun, todo, stage, remote, verifier, overlapped, faults>>

\* Mutant of Queue: results that exist are not looked at.
QueueAll(s) ==
  /\ phase[s] = "queue"
  /\ todo' = [todo EXCEPT ![s] = Job]
  /\ phase' = [phase EXCEPT ![s] = "running"]
  /\ UNCHANGED <<coordinator, rerun, stage, remote, verifier, overlapped, faults>>

\* The jobs to do are chosen once, before the first one starts.
Queue(s) ==
  /\ phase[s] = "queue"
  /\ todo' = [todo EXCEPT ![s] = {j \in Job : result[j] = "none" \/ rerun[s]}]
  /\ phase' = [phase EXCEPT ![s] = "running"]
  /\ UNCHANGED <<coordinator, rerun, stage, remote, verifier, overlapped, faults>>

\* Mutant of End: the futures are not asked for their exceptions.
EndRegardless(s) ==
  /\ phase[s] = "running"
  /\ \A n \in Node : Current(s, n) = {} \/ stage[s][n] = "failed"
  /\ phase' = [phase EXCEPT ![s] = "ok"]
  /\ UNCHANGED <<coordinator, rerun, todo, stage, remote, verifier, overlapped, faults>>

\* The pool waits for every thread; one exception fails the submit.
End(s) ==
  /\ phase[s] = "running"
  /\ \A n \in Node : Current(s, n) = {} \/ stage[s][n] = "failed"
  /\ phase' = [phase EXCEPT ![s] = IF todo[s] = {} THEN "ok" ELSE "failed"]
  /\ UNCHANGED <<coordinator, rerun, todo, stage, remote, verifier, overlapped, faults>>

\* What submit s leaves on its way to job j when it stops waiting now.
Left(s, j) == IF \E w \in {"prepare", "clean"} : At(s, NodeOf[j], j, w)
              THEN stage[s][NodeOf[j]] ELSE left[s][j]

Kill(s) ==
  /\ Running(s)
  /\ faults < MaxFaults
  /\ faults' = faults + 1
  /\ phase' = [phase EXCEPT ![s] = "killed"]
  /\ left' = [left EXCEPT ![s] = [j \in Job |-> Left(s, j)]]
  /\ UNCHANGED <<coordinator, rerun, todo, stage, tar, dir, container, verifier, overlapped>>

-----------------------------------------------------------------------------
(* run_job, in the thread of node n                                        *)

\* The probe has passed; scp of the archive as it is.
Send(s, n, j) ==
  /\ At(s, n, j, "send")
  /\ tar' = [tar EXCEPT ![j] = artifact["archive"]]
  /\ GoTo(s, n, "prepare")
  /\ UNCHANGED <<coordinator, phase, rerun, todo, dir, container, left, verifier, overlapped,
                 faults>>

\* A removed directory is gone for those who mounted it, too.
Unmounted(j) ==
  [s \in Submit |-> [k \in Job |->
     IF k = j THEN [container[s][k] EXCEPT !.mounted = FALSE] ELSE container[s][k]]]

Unpacked(j) == tar' = [tar EXCEPT ![j] = IF @ = "whole" THEN "none" ELSE @]

\* Mutant of Prepare: an old work directory is used again.
PrepareInPlace(s, n, j) ==
  /\ At(s, n, j, "prepare")
  /\ dir' = [dir EXCEPT ![j] = [@ EXCEPT !.source = @ \/ tar[j] = "whole"]]
  /\ Unpacked(j)
  /\ GoTo(s, n, IF tar[j] = "whole" THEN "install" ELSE "failed")
  /\ UNCHANGED <<coordinator, phase, rerun, todo, container, left, verifier, overlapped, faults>>

\* rm -rf, mkdir, tar -x, rm, joined by &&
Prepare(s, n, j) ==
  /\ At(s, n, j, "prepare")
  /\ dir' = [dir EXCEPT ![j] = [NoDir EXCEPT !.source = (tar[j] = "whole")]]
  /\ container' = Unmounted(j)
  /\ Unpacked(j)
  /\ GoTo(s, n, IF tar[j] = "whole" THEN "install" ELSE "failed")
  /\ UNCHANGED <<coordinator, phase, rerun, todo, left, verifier, overlapped, faults>>

\* mkdir -p bin, scp of the binary as it is, chmod
Install(s, n, j) ==
  /\ At(s, n, j, "install")
  /\ dir' = [dir EXCEPT ![j].binary = (artifact["binary"] = "whole")]
  /\ GoTo(s, n, "start")
  /\ UNCHANGED <<coordinator, phase, rerun, todo, tar, container, left, verifier, overlapped,
                 faults>>

\* The command that runs the container is sent; Mount is its arrival.
Start(s, n, j) ==
  /\ At(s, n, j, "start")
  /\ container' = [container EXCEPT ![s][j].state = "sent"]
  /\ GoTo(s, n, "wait")
  /\ UNCHANGED <<coordinator, phase, rerun, todo, tar, dir, left, verifier, overlapped, faults>>

\* ssh returns what the container ended with.
Return(s, n, j) ==
  /\ At(s, n, j, "wait")
  /\ container[s][j].state \in {"done", "refused"}
  /\ GoTo(s, n, IF container[s][j].state = "done" THEN "fetch" ELSE "failed")
  /\ UNCHANGED <<coordinator, phase, rerun, todo, remote, verifier, overlapped, faults>>

\* scp truncates the local result before it writes; no remote file, no copy.
Open(s, n, j) ==
  /\ At(s, n, j, "fetch")
  /\ IF dir[j].output = "none"
     THEN GoTo(s, n, "failed") /\ UNCHANGED <<result, fetcher>>
     ELSE /\ GoTo(s, n, IF dir[j].output = "whole" THEN "copying" ELSE "copyingPart")
          /\ result' = [result EXCEPT ![j] = "part"]
          /\ fetcher' = [fetcher EXCEPT ![j] = {s}]
  /\ UNCHANGED <<artifact, phase, rerun, todo, remote, verifier, overlapped, faults>>

\* What was opened last decides what the file is.
Copied(s, n, j) ==
  /\ At(s, n, j, "copying") \/ At(s, n, j, "copyingPart")
  /\ result' = IF stage[s][n] = "copying" /\ dir[j].output # "part" /\ fetcher[j] = {s}
               THEN [result EXCEPT ![j] = "whole"] ELSE result
  /\ GoTo(s, n, "clean")
  /\ UNCHANGED <<artifact, fetcher, phase, rerun, todo, remote, verifier, overlapped, faults>>

\* Its own success is not asked for: the connection may break before it.
Clean(s, n, j) ==
  /\ At(s, n, j, "clean")
  /\ \/ /\ dir' = [dir EXCEPT ![j] = NoDir]
        /\ container' = Unmounted(j)
        /\ left' = left
     \/ /\ left' = [left EXCEPT ![s][j] = "clean"]
        /\ UNCHANGED <<dir, container>>
  /\ todo' = [todo EXCEPT ![s] = @ \ {j}]
  /\ GoTo(s, n, "send")
  /\ UNCHANGED <<coordinator, phase, rerun, tar, verifier, overlapped, faults>>

\* An exception anywhere in run_job ends the thread; the node's other jobs
\* are not tried.
Fail(s, n, j) ==
  /\ At(s, n, j, stage[s][n]) /\ stage[s][n] # "failed"
  /\ faults < MaxFaults
  /\ faults' = faults + 1
  /\ left' = [left EXCEPT ![s][j] = Left(s, j)]
  /\ GoTo(s, n, "failed")
  /\ UNCHANGED <<coordinator, phase, rerun, todo, tar, dir, container, verifier, overlapped>>

-----------------------------------------------------------------------------
(* What happens on the nodes (external), awaited or not                    *)

\* The runtime mounts what it finds at the path; without sources or binary
\* the container ends at once.
Mount(s, j) ==
  /\ container[s][j].state = "sent"
  /\ LET runs == dir[j].source /\ dir[j].binary IN
     container' = [container EXCEPT
       ![s][j].state = IF runs THEN "running" ELSE "refused",
       ![s][j].mounted = runs,
       ![s][j].late = @ \/ (runs /\ ~At(s, NodeOf[j], j, "wait"))]
  /\ UNCHANGED <<coordinator, process, tar, dir, left, verifier, overlapped, faults>>

\* A prepare nobody waits for: all of it, or what comes after its rm -rf.
LatePrepare(s, j) ==
  /\ left[s][j] = "prepare"
  /\ left' = [left EXCEPT ![s][j] = "none"]
  /\ \/ /\ dir' = [dir EXCEPT ![j] = [NoDir EXCEPT !.source = (tar[j] = "whole")]]
        /\ container' = Unmounted(j)
     \/ /\ dir' = [dir EXCEPT ![j].source = @ \/ tar[j] = "whole"]
        /\ container' = container
  /\ Unpacked(j)
  /\ UNCHANGED <<coordinator, process, verifier, overlapped, faults>>

LateClean(s, j) ==
  /\ left[s][j] = "clean"
  /\ left' = [left EXCEPT ![s][j] = "none"]
  /\ dir' = [dir EXCEPT ![j] = NoDir]
  /\ container' = Unmounted(j)
  /\ UNCHANGED <<coordinator, process, tar, verifier, overlapped, faults>>

\* The container at work: it writes its result and ends.
Search(s, j) ==
  /\ container[s][j].state \in {"running", "writing"}
  /\ container' = [container EXCEPT ![s][j].state = IF @ = "running" THEN "writing" ELSE "done"]
  /\ dir' = IF ~container[s][j].mounted THEN dir
            ELSE [dir EXCEPT ![j].output =
                    IF container[s][j].state = "running" THEN "part" ELSE "whole"]
  /\ UNCHANGED <<coordinator, process, tar, left, verifier, overlapped, faults>>

-----------------------------------------------------------------------------
(* cmd_verify                                                              *)

BeginVerify ==
  /\ reading = 0
  /\ reading' = 1
  /\ undisturbed' = \A s \in Submit : ~Running(s)
  /\ UNCHANGED <<coordinator, process, remote, merged, overlapped, faults>>

Read == IF reading <= Jobs THEN reading ELSE reading - Jobs

\* Mutant of Readable: the file is there.
ReadableIfThere(j) == result[j] # "none"

\* The file parses and its receipt is right.
Readable(j) == result[j] = "whole"

\* All results are read and checked; then all again, for their receipts.
Verify ==
  /\ reading # 0
  /\ reading' = IF Readable(Read) /\ reading < 2 * Jobs THEN reading + 1 ELSE 0
  /\ merged' = (merged \/ (Readable(Read) /\ reading = 2 * Jobs))
  /\ UNCHANGED <<coordinator, process, remote, undisturbed, overlapped, faults>>

-----------------------------------------------------------------------------
Thread(s, n) == \E j \in Job : \/ Fail(s, n, j)
                               \/ Send(s, n, j)
                               \/ Prepare(s, n, j)
                               \/ Install(s, n, j)
                               \/ Start(s, n, j)
                               \/ Return(s, n, j)
                               \/ Open(s, n, j)
                               \/ Copied(s, n, j)
                               \/ Clean(s, n, j)

Remote(s, j) == \/ Mount(s, j)
                \/ LatePrepare(s, j)
                \/ LateClean(s, j)
                \/ Search(s, j)

Main(s) == \/ \E a \in Artifact : Reuse(s, a) \/ Create(s, a) \/ Created(s, a)
           \/ Queue(s)
           \/ End(s)

Next == \/ \E s \in Submit : \/ \E again \in BOOLEAN : Begin(s, again)
                             \/ Main(s)
                             \/ Kill(s)
                             \/ \E n \in Node : Thread(s, n)
                             \/ \E j \in Job : Remote(s, j)
        \/ BeginVerify
        \/ Verify

Spec == Init /\ [][Next]_rank2Vars

-----------------------------------------------------------------------------
Phase == {"none", "archive", "archiving", "binary", "building", "queue", "running", "ok",
          "failed", "killed"}
Stage == {"send", "prepare", "install", "start", "wait", "fetch", "copying", "copyingPart",
          "clean", "failed"}
Dir == [source : BOOLEAN, binary : BOOLEAN, output : File]
Container == [state : {"none", "sent", "running", "writing", "done", "refused"},
              mounted : BOOLEAN, late : BOOLEAN]

TypeOK ==
  /\ artifact \in [Artifact -> File]
  /\ result \in [Job -> File]
  /\ fetcher \in [Job -> SUBSET Submit]
  /\ phase \in [Submit -> Phase]
  /\ rerun \in [Submit -> BOOLEAN]
  /\ todo \in [Submit -> SUBSET Job]
  /\ stage \in [Submit -> [Node -> Stage]]
  /\ tar \in [Job -> File]
  /\ dir \in [Job -> Dir]
  /\ container \in [Submit -> [Job -> Container]]
  /\ left \in [Submit -> [Job -> {"none", "prepare", "clean"}]]
  /\ reading \in 0..2 * Jobs
  /\ merged \in BOOLEAN /\ overlapped \in BOOLEAN /\ undisturbed \in BOOLEAN
  /\ faults \in 0..MaxFaults

(* A container that was running when its submit timed out or was killed is *)
(* cut off: as long as submits follow one another, two containers write    *)
(* into the directory from which a job's result is fetched only if one of  *)
(* them started there after its own submit had given up.                   *)
OrphansAreCutOff ==
  ~overlapped =>
    \A j \in Job :
      Cardinality({s \in Submit : /\ container[s][j].state \in {"running", "writing"}
                                 /\ container[s][j].mounted
                                 /\ ~container[s][j].late}) <= 1

(* A submit without --rerun does not touch what is done: whatever it finds *)
(* whole stays whole, with every failure, kill and orphan on the way.      *)
KeepsResults ==
  [][\A j \in Job : (result[j] = "whole" /\ result'[j] # "whole")
       => overlapped \/ \E s \in Submit : Running(s) /\ rerun[s]]_rank2Vars

(* --rerun repairs: a submit that used it, met no other and reported       *)
(* success has replaced whatever earlier ones had left half done, with     *)
(* containers, prepares and cleans of theirs still about; only of a job    *)
(* whose container came up after its submit had given up it may have       *)
(* fetched a part.                                                         *)
RerunRepairs ==
  [][\A s \in Submit : (Running(s) /\ phase'[s] = "ok" /\ rerun[s] /\ ~overlapped)
       => \A j \in Job : result[j] = "whole" \/ \E t \in Submit : container[t][j].late
    ]_rank2Vars

(* Submit takes any file for a result, also the beginning of one: it is    *)
(* verify that keeps it out of merged.json.                                *)
MergesWholeResults ==
  [][(~merged /\ merged' /\ undisturbed) => \A j \in Job : result[j] = "whole"]_rank2Vars
=============================================================================
