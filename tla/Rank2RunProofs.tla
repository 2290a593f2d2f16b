--------------------------- MODULE Rank2RunProofs ---------------------------
(***************************************************************************)
(* Any number of submits, jobs, nodes and faults.  ReadInv is about        *)
(* cmd_verify alone.  SoloInv is about submits that follow one another: it *)
(* follows each job from an empty work directory to the one container that *)
(* was awaited and has it, to its whole output and the copy of it, until a *)
(* container of the job comes late.                                        *)
(***************************************************************************)
EXTENDS Rank2Run, FiniteSetTheorems, TLAPS

-----------------------------------------------------------------------------
(* Types                                                                   *)

LEMMA NodeIs == \A j \in Job : NodeOf[j] \in Node
  BY DEF Node

LEMMA InitTypes == Init => TypeOK
  <1> SUFFICES ASSUME Init PROVE TypeOK
    OBVIOUS
  <1>1. NoDir \in Dir /\ NoContainer \in Container
    BY DEF NoDir, NoContainer, Dir, Container, File
  <1>2. 0 \in 0..2 * Jobs /\ 0 \in 0..MaxFaults
    BY Rank2Assumption
  <1>3. /\ stage \in [Submit -> [Node -> Stage]]
        /\ container \in [Submit -> [Job -> Container]]
        /\ left \in [Submit -> [Job -> {"none", "prepare", "clean"}]]
    BY <1>1 DEF Init, Stage
  <1> QED BY <1>1, <1>2, <1>3 DEF Init, TypeOK, File, Phase

LEMMA GoToTypes ==
  ASSUME TypeOK, NEW s \in Submit, NEW n \in Node, NEW to \in Stage, GoTo(s, n, to)
  PROVE  stage' \in [Submit -> [Node -> Stage]]
  BY DEF TypeOK, GoTo

LEMMA UnmountedTypes ==
  ASSUME TypeOK, NEW j \in Job
  PROVE  Unmounted(j) \in [Submit -> [Job -> Container]]
  <1>1. ASSUME NEW s \in Submit, NEW k \in Job
        PROVE  /\ container[s][k] \in Container
               /\ [container[s][k] EXCEPT !.mounted = FALSE] \in Container
    <2>1. container[s][k] \in Container
      BY DEF TypeOK
    <2> QED BY <2>1 DEF Container
  <1> QED BY <1>1 DEF TypeOK, Unmounted

LEMMA LeftTypes ==
  ASSUME TypeOK, NEW s \in Submit, NEW j \in Job
  PROVE  Left(s, j) \in {"none", "prepare", "clean"}
  BY DEF TypeOK, Left, At

\* One container, one directory or one command is replaced.
LEMMA ContainerTypes ==
  ASSUME TypeOK, NEW s \in Submit, NEW j \in Job, NEW c \in Container
  PROVE  [container EXCEPT ![s] = [@ EXCEPT ![j] = c]] \in [Submit -> [Job -> Container]]
  BY DEF TypeOK

LEMMA DirTypes ==
  ASSUME TypeOK, NEW j \in Job, NEW d \in Dir
  PROVE  [dir EXCEPT ![j] = d] \in [Job -> Dir]
  BY DEF TypeOK

LEMMA LeftStepTypes ==
  ASSUME TypeOK, NEW s \in Submit, NEW j \in Job, NEW c \in {"none", "prepare", "clean"}
  PROVE  [left EXCEPT ![s] = [@ EXCEPT ![j] = c]]
           \in [Submit -> [Job -> {"none", "prepare", "clean"}]]
  BY DEF TypeOK

LEMMA UnpackedTypes ==
  ASSUME TypeOK, NEW j \in Job, Unpacked(j)
  PROVE  tar' \in [Job -> File]
  BY DEF TypeOK, Unpacked, File

LEMMA MainTypes ==
  ASSUME TypeOK, NEW s \in Submit,
         Main(s) \/ Kill(s) \/ \E again \in BOOLEAN : Begin(s, again)
  PROVE  TypeOK'
  <1> USE DEF coordinator, process, remote, verifier
  <1>1. ASSUME NEW again \in BOOLEAN, Begin(s, again) PROVE TypeOK'
    BY <1>1 DEF Begin, TypeOK, Phase
  <1>2. ASSUME NEW a \in Artifact, Reuse(s, a) PROVE TypeOK'
    BY <1>2 DEF Reuse, TypeOK, Artifact, After, Phase
  <1>3. ASSUME NEW a \in Artifact, Create(s, a) PROVE TypeOK'
    BY <1>3 DEF Create, TypeOK, Artifact, Creating, File, Phase
  <1>4. ASSUME NEW a \in Artifact, Created(s, a) PROVE TypeOK'
    BY <1>4 DEF Created, TypeOK, Artifact, After, File, Phase
  <1>5. CASE Queue(s)
    BY <1>5 DEF Queue, TypeOK, Phase
  <1>6. CASE End(s)
    BY <1>6 DEF End, TypeOK, Phase
  <1>7. CASE Kill(s)
    <2>1. faults' \in 0..MaxFaults
      BY <1>7, Rank2Assumption DEF Kill, TypeOK
    <2>2. left' \in [Submit -> [Job -> {"none", "prepare", "clean"}]]
      BY <1>7, LeftTypes DEF Kill, TypeOK
    <2> QED BY <1>7, <2>1, <2>2 DEF Kill, TypeOK, Phase
  <1> QED BY <1>1, <1>2, <1>3, <1>4, <1>5, <1>6, <1>7 DEF Main

LEMMA ThreadTypes ==
  ASSUME TypeOK, NEW s \in Submit, NEW n \in Node, Thread(s, n)
  PROVE  TypeOK'
  <1> USE DEF coordinator, process, remote, verifier
  <1>1. ASSUME NEW j \in Job, Fail(s, n, j) PROVE TypeOK'
    <2>1. faults' \in 0..MaxFaults
      BY <1>1, Rank2Assumption DEF Fail, TypeOK
    <2>2. stage' \in [Submit -> [Node -> Stage]]
      BY <1>1, GoToTypes DEF Fail, Stage
    <2>3. left' \in [Submit -> [Job -> {"none", "prepare", "clean"}]]
      BY <1>1, LeftTypes DEF Fail, TypeOK
    <2> QED BY <1>1, <2>1, <2>2, <2>3 DEF Fail, TypeOK
  <1>2. ASSUME NEW j \in Job, Send(s, n, j) PROVE TypeOK'
    <2>1. stage' \in [Submit -> [Node -> Stage]]
      BY <1>2, GoToTypes DEF Send, Stage
    <2> QED BY <1>2, <2>1 DEF Send, TypeOK, Artifact
  <1>3. ASSUME NEW j \in Job, Prepare(s, n, j) PROVE TypeOK'
    <2>1. stage' \in [Submit -> [Node -> Stage]]
      BY <1>3, GoToTypes DEF Prepare, Stage
    <2>2. [NoDir EXCEPT !.source = (tar[j] = "whole")] \in Dir
      BY DEF NoDir, Dir, File
    <2>3. tar' \in [Job -> File] /\ dir' \in [Job -> Dir]
      BY <1>3, <2>2, UnpackedTypes DEF Prepare, TypeOK
    <2>4. container' \in [Submit -> [Job -> Container]]
      BY <1>3, UnmountedTypes DEF Prepare
    <2> QED BY <1>3, <2>1, <2>3, <2>4 DEF Prepare, TypeOK
  <1>4. ASSUME NEW j \in Job, Install(s, n, j) PROVE TypeOK'
    <2>1. stage' \in [Submit -> [Node -> Stage]]
      BY <1>4, GoToTypes DEF Install, Stage
    <2>2. dir' \in [Job -> Dir]
      <3>1. dir[j] \in Dir
        BY DEF TypeOK
      <3>2. [dir[j] EXCEPT !.binary = (artifact["binary"] = "whole")] \in Dir
        BY <3>1 DEF Dir
      <3> QED BY <1>4, <3>2, DirTypes DEF Install
    <2> QED BY <1>4, <2>1, <2>2 DEF Install, TypeOK
  <1>5. ASSUME NEW j \in Job, Start(s, n, j) PROVE TypeOK'
    <2>1. stage' \in [Submit -> [Node -> Stage]]
      BY <1>5, GoToTypes DEF Start, Stage
    <2>2. container' \in [Submit -> [Job -> Container]]
      <3>1. container[s][j] \in Container
        BY DEF TypeOK
      <3>2. [container[s][j] EXCEPT !.state = "sent"] \in Container
        BY <3>1 DEF Container
      <3> QED BY <1>5, <3>2, ContainerTypes DEF Start
    <2> QED BY <1>5, <2>1, <2>2 DEF Start, TypeOK
  <1>6. ASSUME NEW j \in Job, Return(s, n, j) PROVE TypeOK'
    <2>1. stage' \in [Submit -> [Node -> Stage]]
      BY <1>6, GoToTypes DEF Return, Stage
    <2> QED BY <1>6, <2>1 DEF Return, TypeOK
  <1>7. ASSUME NEW j \in Job, Open(s, n, j) PROVE TypeOK'
    <2>1. stage' \in [Submit -> [Node -> Stage]]
      BY <1>7, GoToTypes DEF Open, Stage
    <2>2. CASE dir[j].output = "none"
      BY <1>7, <2>2, <2>1 DEF Open, TypeOK
    <2>3. CASE dir[j].output # "none"
      <3>1. result' = [result EXCEPT ![j] = "part"] /\ fetcher' = [fetcher EXCEPT ![j] = {s}]
        BY <1>7, <2>3 DEF Open
      <3>2. result' \in [Job -> File]
        BY <3>1 DEF TypeOK, File
      <3>3. fetcher' \in [Job -> SUBSET Submit]
        BY <3>1 DEF TypeOK
      <3> QED BY <1>7, <2>1, <3>2, <3>3 DEF Open, TypeOK
    <2> QED BY <2>2, <2>3
  <1>8. ASSUME NEW j \in Job, Copied(s, n, j) PROVE TypeOK'
    <2>1. stage' \in [Submit -> [Node -> Stage]]
      BY <1>8, GoToTypes DEF Copied, Stage
    <2>2. result' \in [Job -> File]
      BY <1>8 DEF Copied, TypeOK, File
    <2> QED BY <1>8, <2>1, <2>2 DEF Copied, TypeOK
  <1>9. ASSUME NEW j \in Job, Clean(s, n, j) PROVE TypeOK'
    <2>1. stage' \in [Submit -> [Node -> Stage]]
      BY <1>9, GoToTypes DEF Clean, Stage
    <2>2. NoDir \in Dir
      BY DEF NoDir, Dir, File
    <2>3. dir' \in [Job -> Dir] /\ container' \in [Submit -> [Job -> Container]]
      BY <1>9, <2>2, UnmountedTypes DEF Clean, TypeOK
    <2>4. left' \in [Submit -> [Job -> {"none", "prepare", "clean"}]]
      <3>1. left' = left \/ left' = [left EXCEPT ![s] = [@ EXCEPT ![j] = "clean"]]
        BY <1>9 DEF Clean
      <3>2. [left EXCEPT ![s] = [@ EXCEPT ![j] = "clean"]]
              \in [Submit -> [Job -> {"none", "prepare", "clean"}]]
        BY LeftStepTypes
      <3> QED BY <3>1, <3>2 DEF TypeOK
    <2> QED BY <1>9, <2>1, <2>3, <2>4 DEF Clean, TypeOK
  <1> QED BY <1>1, <1>2, <1>3, <1>4, <1>5, <1>6, <1>7, <1>8, <1>9 DEF Thread

LEMMA RemoteTypes ==
  ASSUME TypeOK, NEW s \in Submit, NEW j \in Job, Remote(s, j)
  PROVE  TypeOK'
  <1> USE DEF coordinator, process, verifier
  <1>1. CASE Mount(s, j)
    <2>1. container' \in [Submit -> [Job -> Container]]
      <3> DEFINE runs == dir[j].source /\ dir[j].binary
                 one == [container[s][j] EXCEPT
                           !.state = IF runs THEN "running" ELSE "refused",
                           !.mounted = runs,
                           !.late = @ \/ (runs /\ ~At(s, NodeOf[j], j, "wait"))]
      <3>1. container[s][j] \in Container /\ dir[j] \in Dir
        BY DEF TypeOK
      <3>2. one \in Container
        BY <3>1 DEF Container, Dir
      <3>3. container' = [container EXCEPT ![s] = [@ EXCEPT ![j] = one]]
        BY <1>1, <3>1 DEF Mount, TypeOK, Container
      <3> HIDE DEF one
      <3> QED BY <3>2, <3>3, ContainerTypes
    <2> QED BY <1>1, <2>1 DEF Mount, TypeOK
  <1>2. CASE LatePrepare(s, j)
    <2>1. [NoDir EXCEPT !.source = (tar[j] = "whole")] \in Dir
      BY DEF NoDir, Dir, File
    <2>2. [dir[j] EXCEPT !.source = @ \/ tar[j] = "whole"] \in Dir
      BY DEF TypeOK, Dir
    <2>3. dir' \in [Job -> Dir]
      <3>1. dir' = [dir EXCEPT ![j] = dir'[j]]
        BY <1>2 DEF LatePrepare, TypeOK
      <3>2. dir'[j] \in Dir
        BY <1>2, <2>1, <2>2 DEF LatePrepare, TypeOK
      <3> QED BY <3>1, <3>2 DEF TypeOK
    <2>4. container' \in [Submit -> [Job -> Container]]
      BY <1>2, UnmountedTypes DEF LatePrepare, TypeOK
    <2>5. tar' \in [Job -> File]
      BY <1>2, UnpackedTypes DEF LatePrepare
    <2>6. left' \in [Submit -> [Job -> {"none", "prepare", "clean"}]]
      BY <1>2 DEF LatePrepare, TypeOK
    <2> QED BY <1>2, <2>3, <2>4, <2>5, <2>6 DEF LatePrepare, TypeOK
  <1>3. CASE LateClean(s, j)
    <2>1. NoDir \in Dir
      BY DEF NoDir, Dir, File
    <2>2. dir' \in [Job -> Dir] /\ container' \in [Submit -> [Job -> Container]]
      BY <1>3, <2>1, UnmountedTypes DEF LateClean, TypeOK
    <2>3. left' \in [Submit -> [Job -> {"none", "prepare", "clean"}]]
      BY <1>3 DEF LateClean, TypeOK
    <2> QED BY <1>3, <2>2, <2>3 DEF LateClean, TypeOK
  <1>4. CASE Search(s, j)
    <2>1. dir' \in [Job -> Dir]
      <3> DEFINE file == IF container[s][j].state = "running" THEN "part" ELSE "whole"
      <3>1. dir[j] \in Dir
        BY DEF TypeOK
      <3>2. [dir[j] EXCEPT !.output = file] \in Dir
        BY <3>1 DEF Dir, File
      <3>3. dir' = dir \/ dir' = [dir EXCEPT ![j] = [dir[j] EXCEPT !.output = file]]
        BY <1>4 DEF Search
      <3> HIDE DEF file
      <3> QED BY <3>2, <3>3, DirTypes DEF TypeOK
    <2>2. container' \in [Submit -> [Job -> Container]]
      <3> DEFINE state == IF container[s][j].state = "running" THEN "writing" ELSE "done"
      <3>1. container[s][j] \in Container
        BY DEF TypeOK
      <3>2. [container[s][j] EXCEPT !.state = state] \in Container
        BY <3>1 DEF Container
      <3>3. container' = [container EXCEPT ![s] = [@ EXCEPT ![j] =
                            [container[s][j] EXCEPT !.state = state]]]
        BY <1>4 DEF Search
      <3> HIDE DEF state
      <3> QED BY <3>2, <3>3, ContainerTypes
    <2> QED BY <1>4, <2>1, <2>2 DEF Search, TypeOK
  <1> QED BY <1>1, <1>2, <1>3, <1>4 DEF Remote

LEMMA VerifyTypes ==
  ASSUME TypeOK, BeginVerify \/ Verify
  PROVE  TypeOK'
  <1>1. reading' \in 0..2 * Jobs
    <2>1. reading \in 0..2 * Jobs /\ Jobs \in Nat \ {0}
      BY Rank2Assumption DEF TypeOK
    <2>2. CASE BeginVerify
      BY <2>1, <2>2 DEF BeginVerify
    <2>3. CASE Verify
      <3>1. reading' = 0 \/ (reading < 2 * Jobs /\ reading' = reading + 1)
        BY <2>3 DEF Verify
      <3> QED BY <2>1, <3>1
    <2> QED BY <2>2, <2>3
  <1>2. merged' \in BOOLEAN /\ undisturbed' \in BOOLEAN
    BY Zenon DEF BeginVerify, Verify, TypeOK
  <1> QED BY <1>1, <1>2 DEF BeginVerify, Verify, TypeOK, coordinator, process, remote

LEMMA TypesNext == TypeOK /\ [Next]_rank2Vars => TypeOK'
  <1> SUFFICES ASSUME TypeOK, [Next]_rank2Vars PROVE TypeOK'
    OBVIOUS
  <1>1. CASE UNCHANGED rank2Vars
    BY <1>1 DEF rank2Vars, coordinator, process, remote, verifier, TypeOK
  <1> QED BY <1>1, MainTypes, ThreadTypes, RemoteTypes, VerifyTypes DEF Next

-----------------------------------------------------------------------------
(* MergesWholeResults: while nobody submits, what verify has read is whole *)
(* and stays so.                                                           *)

ReadInv == undisturbed => /\ \A s \in Submit : ~Running(s)
                          /\ \A j \in Job : j < reading => result[j] = "whole"

LEMMA InitRead == Init => ReadInv
  BY DEF Init, ReadInv, Running, Job

LEMMA MainRead ==
  ASSUME NEW s \in Submit, ReadInv,
         Main(s) \/ Kill(s) \/ \E again \in BOOLEAN : Begin(s, again)
  PROVE  ~undisturbed'
  <1>1. CASE \E again \in BOOLEAN : Begin(s, again)
    BY <1>1 DEF Begin
  <1>2. CASE Main(s) \/ Kill(s)
    <2>1. Running(s)
      BY <1>2 DEF Main, Kill, Running, Reuse, Create, Created, Queue, End, Artifact, Creating
    <2>2. undisturbed' = undisturbed
      BY <1>2 DEF Main, Kill, Reuse, Create, Created, Queue, End, verifier
    <2> QED BY <2>1, <2>2 DEF ReadInv
  <1> QED BY <1>1, <1>2

LEMMA ThreadRead ==
  ASSUME NEW s \in Submit, NEW n \in Node, ReadInv, Thread(s, n)
  PROVE  ~undisturbed'
  <1>1. phase[s] = "running"
    BY DEF Thread, Fail, Send, Prepare, Install, Start, Return, Open, Copied, Clean, At
  <1>2. undisturbed' = undisturbed
    BY DEF Thread, Fail, Send, Prepare, Install, Start, Return, Open, Copied, Clean, verifier
  <1> QED BY <1>1, <1>2 DEF ReadInv, Running

LEMMA VerifyRead ==
  ASSUME TypeOK, ReadInv, BeginVerify \/ Verify
  PROVE  /\ ReadInv'
         /\ (~merged /\ merged' /\ undisturbed) => \A j \in Job : result[j] = "whole"
  <1>1. reading \in Nat /\ Jobs \in Nat \ {0} /\ Job = 1..Jobs
    BY Rank2Assumption DEF TypeOK, Job
  <1>2. \A s \in Submit : Running(s)' <=> Running(s)
    BY DEF BeginVerify, Verify, process, Running
  <1>3. CASE BeginVerify
    BY <1>1, <1>2, <1>3 DEF BeginVerify, ReadInv, coordinator
  <1>4. CASE Verify
    <2>1. undisturbed' = undisturbed /\ result' = result
      BY <1>4 DEF Verify, coordinator
    <2>2. CASE result[Read] = "whole" /\ reading < 2 * Jobs
      <3>1. reading' = reading + 1 /\ merged' = merged
        BY <1>4, <2>2, <1>1 DEF Verify, Readable, TypeOK
      <3>2. ASSUME undisturbed, NEW j \in Job, j < reading + 1 PROVE result[j] = "whole"
        BY <3>2, <2>2, <1>1 DEF ReadInv, Read
      <3> QED BY <3>1, <3>2, <2>1, <1>2 DEF ReadInv, TypeOK
    <2>3. CASE ~(result[Read] = "whole" /\ reading < 2 * Jobs)
      <3>1. reading' = 0
        BY <1>4, <2>3 DEF Verify, Readable
      <3>2. ReadInv'
        BY <3>1, <2>1, <1>1, <1>2 DEF ReadInv
      <3>3. ASSUME ~merged, merged', undisturbed, NEW j \in Job PROVE result[j] = "whole"
        <4>1. reading = 2 * Jobs
          BY <3>3, <1>4 DEF Verify
        <4> QED BY <4>1, <3>3, <1>1 DEF ReadInv
      <3> QED BY <3>2, <3>3
    <2> QED BY <2>2, <2>3
  <1>5. BeginVerify => merged' = merged
    BY DEF BeginVerify
  <1> QED BY <1>3, <1>4, <1>5 DEF TypeOK

LEMMA NextRead ==
  TypeOK /\ ReadInv /\ [Next]_rank2Vars =>
    /\ ReadInv'
    /\ (~merged /\ merged' /\ undisturbed) => \A j \in Job : result[j] = "whole"
  <1> SUFFICES ASSUME TypeOK, ReadInv, [Next]_rank2Vars
               PROVE  /\ ReadInv'
                      /\ (~merged /\ merged' /\ undisturbed) => \A j \in Job : result[j] = "whole"
    OBVIOUS
  <1>1. CASE UNCHANGED rank2Vars
    BY <1>1 DEF rank2Vars, coordinator, process, verifier, ReadInv, Running, TypeOK
  <1>2. ASSUME NEW s \in Submit, Main(s) \/ Kill(s) \/ \E again \in BOOLEAN : Begin(s, again)
        PROVE  ~undisturbed' /\ merged' = merged
    <2>1. merged' = merged
      BY <1>2 DEF Main, Kill, Begin, Reuse, Create, Created, Queue, End, verifier
    <2> QED BY <1>2, <2>1, MainRead
  <1>3. ASSUME NEW s \in Submit, NEW n \in Node, Thread(s, n)
        PROVE  ~undisturbed' /\ merged' = merged
    <2>1. merged' = merged
      BY <1>3 DEF Thread, Fail, Send, Prepare, Install, Start, Return, Open, Copied, Clean,
                  verifier
    <2> QED BY <1>3, <2>1, ThreadRead
  <1>4. ASSUME NEW s \in Submit, NEW j \in Job, Remote(s, j)
        PROVE  ReadInv' /\ merged' = merged
    BY <1>4 DEF Remote, Mount, LatePrepare, LateClean, Search, ReadInv, Running,
                coordinator, process, verifier
  <1>5. CASE BeginVerify \/ Verify
    BY <1>5, VerifyRead
  <1> QED BY <1>1, <1>2, <1>3, <1>4, <1>5 DEF Next, ReadInv

(* However the results came about: cmd_verify, with nobody submitting      *)
(* beside it, writes merged.json from whole results only.                  *)
THEOREM MergesAreWhole == Spec => MergesWholeResults
  <1>1. TypeOK /\ ReadInv /\ [Next]_rank2Vars =>
          [(~merged /\ merged' /\ undisturbed) => \A j \in Job : result[j] = "whole"]_rank2Vars
    BY NextRead
  <1> QED BY InitTypes, TypesNext, InitRead, NextRead, <1>1, PTL DEF Spec, MergesWholeResults

-----------------------------------------------------------------------------
(* One submit after the other.  Alone and OneMount say who can touch a job *)
(* and its directory.  Place says which containers may be about while a    *)
(* thread is at a job; Good follows a job from an empty directory to a     *)
(* whole result, which holds until a container of the job comes late.      *)
(* Settled and Repaired say which results a running submit may find whole, *)
(* and which it must.                                                      *)

Early == {"none", "archive", "archiving", "binary", "building", "queue"}

Fresh == \A s \in Submit : phase[s] \in Early => \A n \in Node : stage[s][n] = "send"

Alone == \A s, t \in Submit : Running(s) /\ Running(t) => s = t

\* Submit s's container has the job's directory, and started when awaited.
Prompt(s, j) == container[s][j].mounted /\ ~container[s][j].late

Late(j) == \E s \in Submit : container[s][j].late

OneMount(j) == \A s, t \in Submit : Prompt(s, j) /\ Prompt(t, j) => s = t

Starting(s, n, j) == At(s, n, j, "install") \/ At(s, n, j, "start")
Fetching(s, n, j) == At(s, n, j, "fetch") \/ At(s, n, j, "copying")

Place(s, n, j) ==
  /\ Starting(s, n, j) => \A t \in Submit : ~Prompt(t, j)
  /\ At(s, n, j, "wait") \/ Fetching(s, n, j) => \A t \in Submit : Prompt(t, j) => t = s
  /\ At(s, n, j, "copying") => fetcher[j] = {s}

Good(s, n, j) ==
  /\ Starting(s, n, j) => dir[j].output = "none"
  /\ At(s, n, j, "wait") =>
       IF container[s][j].mounted /\ container[s][j].state # "sent"
       THEN container[s][j].state = "done" => dir[j].output = "whole"
       ELSE dir[j].output = "none"
  /\ Fetching(s, n, j) =>
       IF container[s][j].mounted
       THEN container[s][j].state = "done" /\ dir[j].output = "whole"
       ELSE dir[j].output = "none"
  /\ ~At(s, n, j, "copyingPart")
  /\ At(s, n, j, "clean") => result[j] = "whole"

Settled(s, j) ==
  phase[s] = "running" /\ ~rerun[s] /\ j \in todo[s] /\ result[j] = "whole" =>
    stage[s][NodeOf[j]] = "failed" \/ At(s, NodeOf[j], j, "clean")

Repaired(s, j) ==
  phase[s] = "running" /\ rerun[s] => j \in todo[s] \/ result[j] = "whole" \/ Late(j)

Solo == /\ Alone
        /\ \A j \in Job : /\ OneMount(j)
                          /\ \A s \in Submit : /\ \A n \in Node : /\ Place(s, n, j)
                                                                  /\ Late(j) \/ Good(s, n, j)
                                               /\ Settled(s, j)
                                               /\ Repaired(s, j)

SoloInv == TypeOK /\ Fresh /\ (~overlapped => Solo)

LEMMA InitSolo == Init => SoloInv
  <1> SUFFICES ASSUME Init PROVE SoloInv
    OBVIOUS
  <1>1. TypeOK
    BY InitTypes
  <1>2. Fresh
    BY DEF Init, Fresh
  <1>3. Alone /\ \A s \in Submit : phase[s] = "none"
    BY DEF Init, Alone, Running
  <1>4. \A j \in Job : OneMount(j)
    BY DEF Init, OneMount, Prompt, NoContainer
  <1>5. \A s \in Submit : \A n, j, x : ~At(s, n, j, x)
    BY <1>3 DEF At
  <1>6. \A s \in Submit, n \in Node, j \in Job : Place(s, n, j) /\ Good(s, n, j)
    BY <1>5 DEF Place, Good, Starting, Fetching
  <1>7. \A s \in Submit, j \in Job : Settled(s, j) /\ Repaired(s, j)
    BY <1>3 DEF Settled, Repaired
  <1> QED BY <1>1, <1>2, <1>3, <1>4, <1>6, <1>7 DEF SoloInv, Solo

-----------------------------------------------------------------------------
(* Where the threads are                                                   *)

\* A thread is at one job of its own node.
LEMMA AtIs ==
  ASSUME TypeOK, NEW s \in Submit, NEW n \in Node, NEW j \in Job, NEW w, At(s, n, j, w)
  PROVE  /\ phase[s] = "running" /\ Running(s)
         /\ stage[s][n] = w /\ NodeOf[j] = n /\ j \in todo[s]
         /\ \A k \in Job : \A x : At(s, n, k, x) => k = j /\ x = w
  <1>1. /\ phase[s] = "running"
        /\ stage[s][n] = w /\ NodeOf[j] = n /\ j \in todo[s]
        /\ j \in Current(s, n) /\ \A k \in Current(s, n) : j <= k
    BY DEF At, Current
  <1>2. ASSUME NEW k \in Job, NEW x, At(s, n, k, x) PROVE k = j /\ x = w
    <2>1. x = w /\ k \in Current(s, n) /\ k <= j
      BY <1>1, <1>2 DEF At
    <2>2. j <= k
      BY <1>1, <2>1
    <2>3. j \in Nat /\ k \in Nat
      BY Rank2Assumption DEF Job
    <2> QED BY <2>1, <2>2, <2>3
  <1> QED BY <1>1, <1>2 DEF Running

\* A thread that goes on within its job is seen there; nobody else moves.
LEMMA Moves ==
  ASSUME TypeOK, NEW s \in Submit, NEW n \in Node, NEW j \in Job, NEW w, At(s, n, j, w),
         NEW to \in Stage, GoTo(s, n, to), phase' = phase, todo' = todo
  PROVE  \A t \in Submit, m \in Node, k \in Job : \A x :
           At(t, m, k, x)' <=> IF t = s /\ m = n THEN k = j /\ x = to ELSE At(t, m, k, x)
  <1>1. \A t \in Submit, m \in Node :
          stage'[t][m] = IF t = s /\ m = n THEN to ELSE stage[t][m]
    BY DEF GoTo, TypeOK
  <1>2. \A t, m : Current(t, m)' = Current(t, m)
    BY DEF Current
  <1> TAKE t \in Submit, m \in Node, k \in Job
  <1> TAKE x
  <1>3. CASE t = s /\ m = n
    <2>1. At(s, n, k, w) <=> k = j
      BY AtIs
    <2>2. At(s, n, k, x)' <=> At(s, n, k, w) /\ x = to
      BY <1>1, <1>2 DEF At
    <2> QED BY <1>3, <2>1, <2>2
  <1>4. CASE ~(t = s /\ m = n)
    BY <1>1, <1>2, <1>4 DEF At
  <1> QED BY <1>3, <1>4

\* When one submit runs at a time, two threads are at different jobs.
LEMMA Apart ==
  ASSUME TypeOK, Alone,
         NEW s \in Submit, NEW n \in Node, NEW j \in Job, NEW w, At(s, n, j, w),
         NEW t \in Submit, NEW m \in Node, NEW k \in Job, NEW x, At(t, m, k, x),
         ~(t = s /\ m = n)
  PROVE  t = s /\ k # j
  BY AtIs DEF Alone

LEMMA FreshThread ==
  ASSUME TypeOK, Fresh, NEW s \in Submit, NEW n \in Node, NEW j \in Job, NEW w,
         At(s, n, j, w), NEW to \in Stage, GoTo(s, n, to), phase' = phase
  PROVE  Fresh'
  <1>1. phase[s] = "running"
    BY AtIs
  <1>2. \A t \in Submit : t # s => stage'[t] = stage[t]
    BY DEF GoTo, TypeOK
  <1> QED BY <1>1, <1>2 DEF Fresh, Early

-----------------------------------------------------------------------------
(* Steps of the threads                                                    *)

\* What concerns other jobs is as it was.
LEMMA SameSolo ==
  ASSUME Solo, NEW t \in Submit, NEW m \in Node, NEW k \in Job,
         \A x : At(t, m, k, x)' <=> At(t, m, k, x),
         \A u \in Submit : container'[u][k] = container[u][k],
         dir'[k] = dir[k], result'[k] = result[k], fetcher'[k] = fetcher[k]
  PROVE  Place(t, m, k)' /\ (Late(k)' \/ Good(t, m, k)')
  <1>1. Place(t, m, k) /\ (Late(k) \/ Good(t, m, k))
    BY DEF Solo
  <1>2. Late(k) => Late(k)'
    BY DEF Late
  <1>3. /\ Starting(t, m, k)' <=> Starting(t, m, k)
        /\ Fetching(t, m, k)' <=> Fetching(t, m, k)
    BY DEF Starting, Fetching
  <1>4. \A u \in Submit : Prompt(u, k)' <=> Prompt(u, k)
    BY DEF Prompt
  <1>5. Place(t, m, k)'
    BY <1>1, <1>3, <1>4 DEF Place
  <1>6. Good(t, m, k) => Good(t, m, k)'
    BY <1>3 DEF Good
  <1> QED BY <1>1, <1>2, <1>5, <1>6

\* What a thread does at one job is told by that job alone.
LEMMA ThreadSolo ==
  ASSUME TypeOK, Solo,
         NEW s \in Submit, NEW n \in Node, NEW j \in Job, NEW w, At(s, n, j, w), w # "failed",
         NEW to \in Stage, GoTo(s, n, to), phase' = phase, todo' = todo, rerun' = rerun,
         \A t \in Submit, k \in Job : k # j => container'[t][k] = container[t][k],
         \A k \in Job : k # j => /\ dir'[k] = dir[k]
                                 /\ result'[k] = result[k]
                                 /\ fetcher'[k] = fetcher[k],
         OneMount(j)', Place(s, n, j)', Late(j)' \/ Good(s, n, j)',
         result'[j] = "whole" => rerun[s] \/ to \in {"clean", "failed"}
  PROVE  Solo'
  <1>1. /\ Alone /\ phase[s] = "running" /\ Running(s) /\ stage[s][n] = w
        /\ NodeOf[j] = n /\ j \in todo[s]
        /\ \A k \in Job : \A x : At(s, n, k, x) => k = j /\ x = w
    BY AtIs DEF Solo
  <1>2. \A t \in Submit, m \in Node, k \in Job : \A x :
          At(t, m, k, x)' <=> IF t = s /\ m = n THEN k = j /\ x = to ELSE At(t, m, k, x)
    BY Moves
  <1>3. Alone'
    BY <1>1 DEF Alone, Running
  <1>4. ASSUME NEW k \in Job PROVE OneMount(k)'
    <2>1. CASE k = j
      BY <2>1
    <2>2. CASE k # j
      <3>1. OneMount(k) /\ \A t \in Submit : container'[t][k] = container[t][k]
        BY <2>2 DEF Solo
      <3> QED BY <3>1 DEF OneMount, Prompt
    <2> QED BY <2>1, <2>2
  <1>5. ASSUME NEW t \in Submit, NEW m \in Node, NEW k \in Job
        PROVE  Place(t, m, k)' /\ (Late(k)' \/ Good(t, m, k)')
    <2>1. CASE t = s /\ m = n /\ k = j
      BY <2>1
    <2>2. CASE \A x : ~At(t, m, k, x)'
      BY <2>2 DEF Place, Good, Starting, Fetching
    <2>3. CASE ~(t = s /\ m = n) /\ \E x : At(t, m, k, x)'
      <3>1. \A x : At(t, m, k, x)' <=> At(t, m, k, x)
        BY <1>2, <2>3
      <3>2. k # j
        BY <3>1, <2>3, <1>1, Apart
      <3>3. /\ \A u \in Submit : container'[u][k] = container[u][k]
            /\ dir'[k] = dir[k] /\ result'[k] = result[k] /\ fetcher'[k] = fetcher[k]
        BY <3>2
      <3> QED BY <3>1, <3>3, SameSolo
    <2> QED BY <2>1, <2>2, <2>3, <1>2
  <1>6. ASSUME NEW t \in Submit, NEW k \in Job PROVE Settled(t, k)'
    <2> SUFFICES ASSUME phase[t] = "running", ~rerun[t], k \in todo[t], result'[k] = "whole"
                 PROVE  stage'[t][NodeOf[k]] = "failed" \/ At(t, NodeOf[k], k, "clean")'
      BY DEF Settled
    <2>1. t = s /\ NodeOf[k] \in Node
      BY <1>1, NodeIs DEF Alone, Running
    <2>2. \A m \in Node : stage'[s][m] = IF m = n THEN to ELSE stage[s][m]
      BY DEF GoTo, TypeOK
    <2>3. CASE k = j
      BY <2>1, <2>2, <2>3, <1>1, <1>2
    <2>4. CASE k # j
      <3>1. stage[s][NodeOf[k]] = "failed" \/ At(s, NodeOf[k], k, "clean")
        BY <2>1, <2>4 DEF Solo, Settled
      <3>2. NodeOf[k] # n
        BY <3>1, <2>4, <1>1
      <3> QED BY <3>1, <3>2, <2>1, <2>2, <1>2
    <2> QED BY <2>3, <2>4
  <1>7. ASSUME NEW t \in Submit, NEW k \in Job PROVE Repaired(t, k)'
    <2> SUFFICES ASSUME phase[t] = "running", rerun[t]
                 PROVE  k \in todo[t] \/ result'[k] = "whole" \/ Late(k)'
      BY DEF Repaired
    <2>1. t = s
      BY <1>1 DEF Alone, Running
    <2>2. k = j \/ k \in todo[s] \/ result[k] = "whole" \/ Late(k)
      BY <2>1 DEF Solo, Repaired
    <2>3. k # j /\ Late(k) => Late(k)'
      BY DEF Late
    <2> QED BY <2>1, <2>2, <2>3, <1>1
  <1> QED BY <1>3, <1>4, <1>5, <1>6, <1>7 DEF Solo

\* What is at a place, for one thread.
LEMMA PlaceAt ==
  ASSUME TypeOK, Solo, NEW s \in Submit, NEW n \in Node, NEW j \in Job, NEW w, At(s, n, j, w),
         NEW to \in Stage, GoTo(s, n, to), phase' = phase, todo' = todo
  PROVE  /\ \A x : At(s, n, j, x)' <=> x = to
         /\ OneMount(j) /\ Place(s, n, j) /\ (Late(j) \/ Good(s, n, j)) /\ Settled(s, j)
  BY Moves DEF Solo

LEMMA SettledAt ==
  ASSUME TypeOK, Solo, NEW s \in Submit, NEW n \in Node, NEW j \in Job, NEW w, At(s, n, j, w),
         w \notin {"clean", "failed"}, result[j] = "whole"
  PROVE  rerun[s]
  <1>1. /\ phase[s] = "running" /\ stage[s][n] = w /\ NodeOf[j] = n /\ j \in todo[s]
        /\ \A x : At(s, n, j, x) => x = w
    BY AtIs
  <1> QED BY <1>1 DEF Solo, Settled, TypeOK

LEMMA FailSolo ==
  ASSUME TypeOK, Solo, NEW s \in Submit, NEW n \in Node, NEW j \in Job, Fail(s, n, j)
  PROVE  Solo'
  <1>1. /\ At(s, n, j, stage[s][n]) /\ stage[s][n] # "failed" /\ GoTo(s, n, "failed")
        /\ phase' = phase /\ todo' = todo /\ rerun' = rerun
        /\ container' = container /\ dir' = dir /\ result' = result /\ fetcher' = fetcher
    BY DEF Fail, coordinator, remote
  <1>2. "failed" \in Stage
    BY DEF Stage
  <1>3. /\ \A x : At(s, n, j, x)' <=> x = "failed"
        /\ OneMount(j)
    BY <1>1, <1>2, PlaceAt
  <1>4. OneMount(j)' /\ Place(s, n, j)' /\ Good(s, n, j)'
    BY <1>1, <1>3 DEF OneMount, Prompt, Place, Good, Starting, Fetching
  <1> QED BY <1>1, <1>2, <1>4, ThreadSolo

LEMMA SendSolo ==
  ASSUME TypeOK, Solo, NEW s \in Submit, NEW n \in Node, NEW j \in Job, Send(s, n, j)
  PROVE  Solo'
  <1>1. /\ At(s, n, j, "send") /\ GoTo(s, n, "prepare")
        /\ phase' = phase /\ todo' = todo /\ rerun' = rerun
        /\ container' = container /\ dir' = dir /\ result' = result /\ fetcher' = fetcher
    BY DEF Send, coordinator
  <1>2. "prepare" \in Stage
    BY DEF Stage
  <1>3. /\ \A x : At(s, n, j, x)' <=> x = "prepare"
        /\ OneMount(j)
    BY <1>1, <1>2, PlaceAt
  <1>4. OneMount(j)' /\ Place(s, n, j)' /\ Good(s, n, j)'
    BY <1>1, <1>3 DEF OneMount, Prompt, Place, Good, Starting, Fetching
  <1>5. result'[j] = "whole" => rerun[s]
    BY <1>1, SettledAt
  <1> QED BY <1>1, <1>2, <1>4, <1>5, ThreadSolo

\* After rm -rf nobody writes into the directory any more.
LEMMA NobodyMounts ==
  ASSUME TypeOK, NEW j \in Job, container' = Unmounted(j)
  PROVE  \A t \in Submit : /\ ~container'[t][j].mounted
                           /\ container'[t][j].late = container[t][j].late
                           /\ \A k \in Job : k # j => container'[t][k] = container[t][k]
  <1> TAKE t \in Submit
  <1>1. container[t][j] \in Container
    BY DEF TypeOK
  <1>2. container'[t][j] = [container[t][j] EXCEPT !.mounted = FALSE]
    BY DEF Unmounted
  <1>3. ~container'[t][j].mounted /\ container'[t][j].late = container[t][j].late
    BY <1>1, <1>2 DEF Container
  <1>4. \A k \in Job : k # j => container'[t][k] = container[t][k]
    BY DEF Unmounted
  <1> QED BY <1>3, <1>4

LEMMA PrepareSolo ==
  ASSUME TypeOK, Solo, NEW s \in Submit, NEW n \in Node, NEW j \in Job, Prepare(s, n, j)
  PROVE  Solo'
  <1> DEFINE to == IF tar[j] = "whole" THEN "install" ELSE "failed"
  <1>1. /\ At(s, n, j, "prepare") /\ GoTo(s, n, to) /\ to \in Stage
        /\ phase' = phase /\ todo' = todo /\ rerun' = rerun
        /\ container' = Unmounted(j) /\ result' = result /\ fetcher' = fetcher
    BY DEF Prepare, coordinator, Stage
  <1>2. \A k \in Job : k # j => dir'[k] = dir[k]
    BY DEF Prepare, TypeOK
  <1>3. \A t \in Submit : /\ ~container'[t][j].mounted
                          /\ \A k \in Job : k # j => container'[t][k] = container[t][k]
    BY <1>1, NobodyMounts
  <1>4. \A x : At(s, n, j, x)' <=> x = to
    BY <1>1, PlaceAt
  <1>5. to \in {"install", "failed"}
    OBVIOUS
  <1> HIDE DEF to
  <1>6. OneMount(j)' /\ Place(s, n, j)' /\ Good(s, n, j)'
    <2>1. dir'[j].output = "none"
      BY DEF Prepare, TypeOK, NoDir
    <2> QED BY <1>3, <1>4, <1>5, <2>1 DEF OneMount, Prompt, Place, Good, Starting, Fetching
  <1>7. result'[j] = "whole" => rerun[s]
    BY <1>1, SettledAt
  <1> QED BY <1>1, <1>2, <1>3, <1>6, <1>7, ThreadSolo

LEMMA InstallSolo ==
  ASSUME TypeOK, Solo, NEW s \in Submit, NEW n \in Node, NEW j \in Job, Install(s, n, j)
  PROVE  Solo'
  <1>1. /\ At(s, n, j, "install") /\ GoTo(s, n, "start") /\ "start" \in Stage
        /\ phase' = phase /\ todo' = todo /\ rerun' = rerun
        /\ container' = container /\ result' = result /\ fetcher' = fetcher
        /\ \A k \in Job : k # j => dir'[k] = dir[k]
    BY DEF Install, coordinator, Stage, TypeOK
  <1>2. /\ \A x : At(s, n, j, x)' <=> x = "start"
        /\ OneMount(j) /\ Place(s, n, j) /\ (Late(j) \/ Good(s, n, j))
    BY <1>1, PlaceAt
  <1>3. OneMount(j)' /\ Place(s, n, j)'
    BY <1>1, <1>2 DEF OneMount, Prompt, Place, Starting, Fetching
  <1>4. Late(j)' \/ Good(s, n, j)'
    <2>1. dir'[j].output = dir[j].output
      BY DEF Install, TypeOK, Dir
    <2> QED BY <1>1, <1>2, <2>1 DEF Late, Good, Starting, Fetching
  <1>5. result'[j] = "whole" => rerun[s]
    BY <1>1, SettledAt
  <1> QED BY <1>1, <1>3, <1>4, <1>5, ThreadSolo

LEMMA StartSolo ==
  ASSUME TypeOK, Solo, NEW s \in Submit, NEW n \in Node, NEW j \in Job, Start(s, n, j)
  PROVE  Solo'
  <1>1. /\ At(s, n, j, "start") /\ GoTo(s, n, "wait") /\ "wait" \in Stage
        /\ phase' = phase /\ todo' = todo /\ rerun' = rerun
        /\ dir' = dir /\ result' = result /\ fetcher' = fetcher
    BY DEF Start, coordinator, Stage
  <1>2. /\ container'[s][j].state = "sent"
        /\ \A t \in Submit : /\ container'[t][j].mounted = container[t][j].mounted
                             /\ container'[t][j].late = container[t][j].late
        /\ \A t \in Submit, k \in Job : k # j => container'[t][k] = container[t][k]
    <2>1. container[s][j] \in Container
      BY DEF TypeOK
    <2> QED BY <2>1 DEF Start, TypeOK, Container
  <1>3. /\ \A x : At(s, n, j, x)' <=> x = "wait"
        /\ OneMount(j) /\ Place(s, n, j) /\ (Late(j) \/ Good(s, n, j))
    BY <1>1, PlaceAt
  <1>4. (Late(j)' <=> Late(j)) /\ \A t \in Submit : Prompt(t, j)' <=> Prompt(t, j)
    BY <1>2 DEF Late, Prompt
  <1>5. OneMount(j)' /\ Place(s, n, j)'
    BY <1>1, <1>3, <1>4 DEF OneMount, Place, Starting, Fetching
  <1>6. Late(j)' \/ Good(s, n, j)'
    BY <1>1, <1>2, <1>3, <1>4 DEF Good, Starting, Fetching
  <1>7. result'[j] = "whole" => rerun[s]
    BY <1>1, SettledAt
  <1> QED BY <1>1, <1>2, <1>5, <1>6, <1>7, ThreadSolo

LEMMA ReturnSolo ==
  ASSUME TypeOK, Solo, NEW s \in Submit, NEW n \in Node, NEW j \in Job, Return(s, n, j)
  PROVE  Solo'
  <1> DEFINE to == IF container[s][j].state = "done" THEN "fetch" ELSE "failed"
  <1>1. /\ At(s, n, j, "wait") /\ GoTo(s, n, to) /\ to \in Stage
        /\ phase' = phase /\ todo' = todo /\ rerun' = rerun
        /\ container' = container /\ dir' = dir /\ result' = result /\ fetcher' = fetcher
    BY DEF Return, coordinator, remote, Stage
  <1>2. /\ \A x : At(s, n, j, x)' <=> x = to
        /\ OneMount(j) /\ Place(s, n, j) /\ (Late(j) \/ Good(s, n, j))
    BY <1>1, PlaceAt
  <1>3. to = "failed" \/ (to = "fetch" /\ container[s][j].state = "done")
    OBVIOUS
  <1> HIDE DEF to
  <1>4. OneMount(j)' /\ Place(s, n, j)'
    BY <1>1, <1>2, <1>3 DEF OneMount, Prompt, Place, Starting, Fetching
  <1>5. Late(j)' \/ Good(s, n, j)'
    BY <1>1, <1>2, <1>3 DEF Late, Good, Starting, Fetching
  <1>6. result'[j] = "whole" => rerun[s]
    BY <1>1, SettledAt
  <1> QED BY <1>1, <1>4, <1>5, <1>6, ThreadSolo

LEMMA OpenSolo ==
  ASSUME TypeOK, Solo, NEW s \in Submit, NEW n \in Node, NEW j \in Job, Open(s, n, j)
  PROVE  Solo'
  <1>1. /\ At(s, n, j, "fetch")
        /\ phase' = phase /\ todo' = todo /\ rerun' = rerun
        /\ container' = container /\ dir' = dir
    BY DEF Open, remote
  <1>2. OneMount(j) /\ Place(s, n, j) /\ (Late(j) \/ Good(s, n, j))
    BY DEF Solo
  <1>3. (Late(j)' <=> Late(j)) /\ \A t \in Submit : Prompt(t, j)' <=> Prompt(t, j)
    BY <1>1 DEF Late, Prompt
  <1>4. CASE dir[j].output = "none"
    <2>1. /\ GoTo(s, n, "failed") /\ "failed" \in Stage
          /\ result' = result /\ fetcher' = fetcher
      BY <1>4 DEF Open, Stage
    <2>2. \A x : At(s, n, j, x)' <=> x = "failed"
      BY <1>1, <2>1, PlaceAt
    <2>3. OneMount(j)' /\ Place(s, n, j)' /\ Good(s, n, j)'
      BY <1>2, <1>3, <2>2 DEF OneMount, Place, Good, Starting, Fetching
    <2> QED BY <1>1, <2>1, <2>3, ThreadSolo
  <1>5. CASE dir[j].output # "none"
    <2> DEFINE to == IF dir[j].output = "whole" THEN "copying" ELSE "copyingPart"
    <2>1. /\ GoTo(s, n, to) /\ to \in Stage
          /\ result' = [result EXCEPT ![j] = "part"] /\ fetcher' = [fetcher EXCEPT ![j] = {s}]
      BY <1>5 DEF Open, Stage
    <2>2. /\ result'[j] = "part" /\ fetcher'[j] = {s}
          /\ \A k \in Job : k # j => result'[k] = result[k] /\ fetcher'[k] = fetcher[k]
      BY <2>1 DEF TypeOK
    <2>3. \A x : At(s, n, j, x)' <=> x = to
      BY <1>1, <2>1, PlaceAt
    <2>4. to = "copyingPart" \/ to = "copying"
      OBVIOUS
    <2>5. Late(j) \/ (to = "copying" /\ container[s][j].mounted
                      /\ container[s][j].state = "done" /\ dir[j].output = "whole")
      BY <1>1, <1>2, <1>5 DEF Good, Fetching
    <2> HIDE DEF to
    <2>6. OneMount(j)' /\ Place(s, n, j)'
      BY <1>1, <1>2, <1>3, <2>2, <2>3, <2>4 DEF OneMount, Place, Starting, Fetching
    <2>7. Late(j)' \/ Good(s, n, j)'
      BY <1>1, <1>3, <2>3, <2>5 DEF Good, Starting, Fetching
    <2> QED BY <1>1, <2>1, <2>2, <2>6, <2>7, ThreadSolo
  <1> QED BY <1>4, <1>5

LEMMA CopiedSolo ==
  ASSUME TypeOK, Solo, NEW s \in Submit, NEW n \in Node, NEW j \in Job, Copied(s, n, j)
  PROVE  Solo'
  <1>1. /\ GoTo(s, n, "clean") /\ "clean" \in Stage
        /\ phase' = phase /\ todo' = todo /\ rerun' = rerun
        /\ container' = container /\ dir' = dir /\ fetcher' = fetcher
    BY DEF Copied, remote, Stage
  <1>2. OneMount(j) /\ Place(s, n, j) /\ (Late(j) \/ Good(s, n, j))
    BY DEF Solo
  <1>3. PICK w \in {"copying", "copyingPart"} : At(s, n, j, w)
    BY DEF Copied
  <1>4. \A k \in Job : k # j => result'[k] = result[k]
    BY DEF Copied, TypeOK
  <1>5. Late(j) \/ result'[j] = "whole"
    <2>1. SUFFICES ASSUME Good(s, n, j) PROVE result'[j] = "whole"
      BY <1>2
    <2>2. w = "copying" /\ stage[s][n] = "copying"
      BY <1>3, <2>1, AtIs DEF Good
    <2>3. dir[j].output # "part" /\ fetcher[j] = {s}
      BY <1>2, <1>3, <2>1, <2>2 DEF Good, Place, Fetching
    <2> QED BY <2>2, <2>3 DEF Copied, TypeOK
  <1>6. \A x : At(s, n, j, x)' <=> x = "clean"
    BY <1>1, <1>3, PlaceAt
  <1>7. (Late(j)' <=> Late(j)) /\ \A t \in Submit : Prompt(t, j)' <=> Prompt(t, j)
    BY <1>1 DEF Late, Prompt
  <1>8. OneMount(j)' /\ Place(s, n, j)'
    BY <1>2, <1>6, <1>7 DEF OneMount, Place, Starting, Fetching
  <1>9. Late(j)' \/ Good(s, n, j)'
    BY <1>5, <1>6, <1>7 DEF Good, Starting, Fetching
  <1> QED BY <1>1, <1>3, <1>4, <1>8, <1>9, ThreadSolo

LEMMA CleanSolo ==
  ASSUME TypeOK, Solo, NEW s \in Submit, NEW n \in Node, NEW j \in Job, Clean(s, n, j)
  PROVE  Solo'
  <1>1. /\ At(s, n, j, "clean") /\ phase' = phase /\ rerun' = rerun
        /\ result' = result /\ fetcher' = fetcher
    BY DEF Clean, coordinator
  <1>2. /\ Alone /\ phase[s] = "running" /\ Running(s) /\ stage[s][n] = "clean"
        /\ NodeOf[j] = n /\ j \in todo[s]
        /\ \A k \in Job : \A x : At(s, n, k, x) => k = j /\ x = "clean"
    BY <1>1, AtIs DEF Solo
  <1>3. /\ \A t \in Submit : todo'[t] = IF t = s THEN todo[s] \ {j} ELSE todo[t]
        /\ \A t \in Submit, m \in Node :
             stage'[t][m] = IF t = s /\ m = n THEN "send" ELSE stage[t][m]
    BY DEF Clean, GoTo, TypeOK
  <1>4. \A k \in Job : k # j => /\ dir'[k] = dir[k]
                                /\ \A t \in Submit : container'[t][k] = container[t][k]
    BY NobodyMounts DEF Clean, TypeOK
  <1>5. \A t \in Submit, k \in Job :
          /\ container'[t][k].mounted => container[t][k].mounted
          /\ container'[t][k].late = container[t][k].late
    <2>1. container' = Unmounted(j) \/ container' = container
      BY DEF Clean
    <2>2. ASSUME NEW t \in Submit, NEW k \in Job, container' = Unmounted(j)
          PROVE  /\ container'[t][k].mounted => container[t][k].mounted
                 /\ container'[t][k].late = container[t][k].late
      BY <2>2, NobodyMounts
    <2> QED BY <2>1, <2>2
  <1>6. ASSUME NEW t \in Submit, NEW m \in Node, NEW k \in Job, NEW x
        PROVE  IF t = s /\ m = n THEN At(t, m, k, x)' => x = "send"
                                 ELSE At(t, m, k, x)' <=> At(t, m, k, x)
    <2>1. CASE t = s /\ m = n
      BY <1>3, <2>1 DEF At
    <2>2. CASE ~(t = s /\ m = n)
      <3>1. Current(t, m)' = Current(t, m)
        BY <1>2, <1>3, <2>2 DEF Current
      <3> QED BY <1>1, <1>3, <2>2, <3>1 DEF At
    <2> QED BY <2>1, <2>2
  <1>7. Alone'
    BY <1>1, <1>2 DEF Alone, Running
  <1>8. ASSUME NEW k \in Job PROVE OneMount(k)'
    <2>1. OneMount(k)
      BY DEF Solo
    <2> QED BY <1>5, <2>1 DEF OneMount, Prompt
  <1>9. ASSUME NEW t \in Submit, NEW m \in Node, NEW k \in Job
        PROVE  Place(t, m, k)' /\ (Late(k)' \/ Good(t, m, k)')
    <2>1. CASE t = s /\ m = n
      BY <1>6, <2>1 DEF Place, Good, Starting, Fetching
    <2>2. CASE \A x : ~At(t, m, k, x)'
      BY <2>2 DEF Place, Good, Starting, Fetching
    <2>3. CASE ~(t = s /\ m = n) /\ \E x : At(t, m, k, x)'
      <3>1. \A x : At(t, m, k, x)' <=> At(t, m, k, x)
        BY <1>6, <2>3
      <3>2. k # j
        BY <3>1, <2>3, <1>1, <1>2, Apart
      <3>3. /\ \A u \in Submit : container'[u][k] = container[u][k]
            /\ dir'[k] = dir[k] /\ result'[k] = result[k] /\ fetcher'[k] = fetcher[k]
        BY <3>2, <1>1, <1>4
      <3> QED BY <3>1, <3>3, SameSolo
    <2> QED BY <2>1, <2>2, <2>3
  <1>10. ASSUME NEW t \in Submit, NEW k \in Job PROVE Settled(t, k)'
    <2> SUFFICES ASSUME phase[t] = "running", ~rerun[t], k \in todo'[t], result[k] = "whole"
                 PROVE  stage'[t][NodeOf[k]] = "failed" \/ At(t, NodeOf[k], k, "clean")'
      BY <1>1 DEF Settled
    <2>1. t = s /\ NodeOf[k] \in Node /\ k # j /\ k \in todo[s]
      BY <1>2, <1>3, NodeIs DEF Alone, Running
    <2>2. stage[s][NodeOf[k]] = "failed" \/ At(s, NodeOf[k], k, "clean")
      BY <2>1 DEF Solo, Settled
    <2>3. NodeOf[k] # n
      BY <1>2, <2>1, <2>2
    <2> QED BY <1>3, <1>6, <2>1, <2>2, <2>3
  <1>11. ASSUME NEW t \in Submit, NEW k \in Job PROVE Repaired(t, k)'
    <2> SUFFICES ASSUME phase[t] = "running", rerun[t], k \notin todo'[t]
                 PROVE  result[k] = "whole" \/ Late(k)
      <3>1. Late(k) => Late(k)'
        BY <1>5 DEF Late
      <3> QED BY <1>1, <3>1 DEF Repaired
    <2>1. t = s
      BY <1>2 DEF Alone, Running
    <2>2. CASE k = j
      BY <1>1, <2>2 DEF Solo, Good
    <2>3. CASE k # j
      BY <1>3, <2>1, <2>3 DEF Solo, Repaired
    <2> QED BY <2>2, <2>3
  <1> QED BY <1>7, <1>8, <1>9, <1>10, <1>11 DEF Solo

LEMMA ThreadNext ==
  ASSUME SoloInv, NEW s \in Submit, NEW n \in Node, Thread(s, n)
  PROVE  Fresh' /\ (~overlapped' => Solo')
  <1> USE DEF SoloInv
  <1>1. ASSUME NEW j \in Job, Fail(s, n, j) PROVE Fresh' /\ (~overlapped' => Solo')
    BY <1>1, FreshThread, FailSolo DEF Fail, Stage
  <1>2. ASSUME NEW j \in Job, Send(s, n, j) PROVE Fresh' /\ (~overlapped' => Solo')
    BY <1>2, FreshThread, SendSolo DEF Send, Stage
  <1>3. ASSUME NEW j \in Job, Prepare(s, n, j) PROVE Fresh' /\ (~overlapped' => Solo')
    BY <1>3, FreshThread, PrepareSolo DEF Prepare, Stage
  <1>4. ASSUME NEW j \in Job, Install(s, n, j) PROVE Fresh' /\ (~overlapped' => Solo')
    BY <1>4, FreshThread, InstallSolo DEF Install, Stage
  <1>5. ASSUME NEW j \in Job, Start(s, n, j) PROVE Fresh' /\ (~overlapped' => Solo')
    BY <1>5, FreshThread, StartSolo DEF Start, Stage
  <1>6. ASSUME NEW j \in Job, Return(s, n, j) PROVE Fresh' /\ (~overlapped' => Solo')
    BY <1>6, FreshThread, ReturnSolo DEF Return, Stage
  <1>7. ASSUME NEW j \in Job, Open(s, n, j) PROVE Fresh' /\ (~overlapped' => Solo')
    BY <1>7, FreshThread, OpenSolo DEF Open, Stage
  <1>8. ASSUME NEW j \in Job, Copied(s, n, j) PROVE Fresh' /\ (~overlapped' => Solo')
    BY <1>8, FreshThread, CopiedSolo DEF Copied, Stage
  <1>9. ASSUME NEW j \in Job, Clean(s, n, j) PROVE Fresh' /\ (~overlapped' => Solo')
    BY <1>9, FreshThread, CleanSolo DEF Clean, Stage
  <1> QED BY <1>1, <1>2, <1>3, <1>4, <1>5, <1>6, <1>7, <1>8, <1>9 DEF Thread

-----------------------------------------------------------------------------
(* Steps of the others                                                     *)

\* A step that only takes submits out of their run, or leaves them where
\* they are.
LEMMA PhaseSolo ==
  ASSUME Solo,
         \A t \in Submit : phase'[t] = "running" => phase[t] = "running",
         \A t \in Submit : Running(t)' => Running(t),
         UNCHANGED <<result, fetcher, rerun, todo, stage, dir, container>>
  PROVE  Solo'
  <1>1. Alone'
    BY DEF Solo, Alone
  <1>2. ASSUME NEW t \in Submit, NEW m \in Node, NEW k \in Job
        PROVE  \A x : At(t, m, k, x)' => At(t, m, k, x)
    BY DEF At, Current
  <1>3. ASSUME NEW k \in Job PROVE OneMount(k)' /\ (Late(k)' <=> Late(k))
    BY DEF Solo, OneMount, Prompt, Late
  <1>4. ASSUME NEW t \in Submit, NEW m \in Node, NEW k \in Job
        PROVE  Place(t, m, k)' /\ (Late(k)' \/ Good(t, m, k)')
    <2>1. Place(t, m, k) /\ (Late(k) \/ Good(t, m, k))
      BY DEF Solo
    <2>2. \A u \in Submit : Prompt(u, k)' <=> Prompt(u, k)
      BY DEF Prompt
    <2>3. Place(t, m, k)'
      BY <1>2, <2>1, <2>2 DEF Place, Starting, Fetching
    <2>4. Good(t, m, k) => Good(t, m, k)'
      BY <1>2 DEF Good, Starting, Fetching
    <2> QED BY <1>3, <2>1, <2>3, <2>4
  <1>5. ASSUME NEW t \in Submit, NEW k \in Job PROVE Settled(t, k)' /\ Repaired(t, k)'
    <2>1. Settled(t, k) /\ Repaired(t, k)
      BY DEF Solo
    <2>2. phase'[t] = "running" =>
            (At(t, NodeOf[k], k, "clean") => At(t, NodeOf[k], k, "clean")')
      BY DEF At, Current
    <2> QED BY <1>3, <2>1, <2>2 DEF Settled, Repaired
  <1> QED BY <1>1, <1>3, <1>4, <1>5 DEF Solo

LEMMA BeginNext ==
  ASSUME SoloInv, NEW s \in Submit, NEW again \in BOOLEAN, Begin(s, again)
  PROVE  Fresh' /\ (~overlapped' => Solo')
  <1> USE DEF SoloInv
  <1>1. /\ phase[s] = "none" /\ stage' = stage
        /\ \A t \in Submit : phase'[t] = IF t = s THEN "archive" ELSE phase[t]
    BY DEF Begin, TypeOK
  <1>2. Fresh'
    BY <1>1 DEF Fresh, Early
  <1>3. ASSUME ~overlapped' PROVE Solo'
    <2>1. ~overlapped /\ \A t \in Submit : ~Running(t)
      BY <1>3 DEF Begin, TypeOK
    <2>2. container' = container
      BY DEF Begin, remote
    <2>3. \A t \in Submit : phase'[t] # "running" /\ (Running(t)' => t = s)
      BY <1>1, <2>1 DEF Running
    <2>4. Alone'
      BY <2>3 DEF Alone
    <2>5. \A t \in Submit : \A m, k, x : ~At(t, m, k, x)'
      BY <2>3 DEF At
    <2>6. \A k \in Job : OneMount(k)'
      BY <2>1, <2>2 DEF Solo, OneMount, Prompt
    <2>7. \A t \in Submit, m \in Node, k \in Job : Place(t, m, k)' /\ Good(t, m, k)'
      BY <2>5 DEF Place, Good, Starting, Fetching
    <2>8. \A t \in Submit, k \in Job : Settled(t, k)' /\ Repaired(t, k)'
      BY <2>3 DEF Settled, Repaired
    <2> QED BY <2>4, <2>6, <2>7, <2>8 DEF Solo
  <1> QED BY <1>2, <1>3

LEMMA QueueNext ==
  ASSUME SoloInv, NEW s \in Submit, Queue(s)
  PROVE  Fresh' /\ (~overlapped' => Solo')
  <1> USE DEF SoloInv
  <1>1. /\ phase[s] = "queue" /\ Running(s)
        /\ result' = result /\ rerun' = rerun /\ stage' = stage /\ container' = container
        /\ overlapped' = overlapped
    BY DEF Queue, Running, coordinator, remote
  <1>2. /\ \A t \in Submit : phase'[t] = IF t = s THEN "running" ELSE phase[t]
        /\ todo'[s] = {j \in Job : result[j] = "none" \/ rerun[s]}
    BY DEF Queue, TypeOK
  <1>3. Fresh'
    BY <1>1, <1>2 DEF Fresh, Early
  <1>4. ASSUME Solo PROVE Solo'
    <2>1. \A t \in Submit : Running(t) => t = s
      BY <1>1, <1>4 DEF Solo, Alone
    <2>2. \A t \in Submit : Running(t)' => t = s
      BY <1>2, <2>1 DEF Running
    <2>3. Alone'
      BY <2>2 DEF Alone
    <2>4. \A t \in Submit, m \in Node, k \in Job : \A x : At(t, m, k, x)' => x = "send"
      <3>1. \A m \in Node : stage[s][m] = "send"
        BY <1>1 DEF Fresh, Early
      <3>2. \A t \in Submit : phase'[t] = "running" => t = s
        BY <2>2 DEF Running
      <3> QED BY <1>1, <3>1, <3>2 DEF At
    <2>5. \A k \in Job : OneMount(k)'
      BY <1>1, <1>4 DEF Solo, OneMount, Prompt
    <2>6. \A t \in Submit, m \in Node, k \in Job : Place(t, m, k)' /\ Good(t, m, k)'
      BY <2>4 DEF Place, Good, Starting, Fetching
    <2>7. \A t \in Submit, k \in Job : Settled(t, k)' /\ Repaired(t, k)'
      <3>1. \A t \in Submit : phase'[t] = "running" => t = s
        BY <2>2 DEF Running
      <3> QED BY <1>1, <1>2, <3>1 DEF Settled, Repaired
    <2> QED BY <2>3, <2>5, <2>6, <2>7 DEF Solo
  <1> QED BY <1>1, <1>3, <1>4

\* The rest of a submit's own steps.
LEMMA StepNext ==
  ASSUME SoloInv, NEW s \in Submit,
         \/ \E a \in Artifact : Reuse(s, a) \/ Create(s, a) \/ Created(s, a)
         \/ End(s)
         \/ Kill(s)
  PROVE  Fresh' /\ (~overlapped' => Solo')
  <1>1. /\ UNCHANGED <<result, fetcher, rerun, todo, stage, dir, container, overlapped>>
        /\ \A t \in Submit : t # s => phase'[t] = phase[t]
        /\ Running(s) /\ phase'[s] # "running" /\ phase'[s] # "none"
        /\ phase'[s] \in Early => phase[s] \in Early
    <2> USE DEF coordinator, remote, Running, SoloInv, TypeOK
    <2>1. CASE \E a \in Artifact : Reuse(s, a) \/ Create(s, a) \/ Created(s, a)
      BY <2>1 DEF Reuse, Create, Created, Artifact, Creating, After, Early
    <2>2. CASE End(s)
      BY <2>2 DEF End, Early
    <2>3. CASE Kill(s)
      BY <2>3 DEF Kill, Early
    <2> QED BY <2>1, <2>2, <2>3
  <1>2. Fresh'
    BY <1>1 DEF SoloInv, Fresh
  <1>3. \A t \in Submit : /\ phase'[t] = "running" => phase[t] = "running"
                          /\ Running(t)' => Running(t)
    BY <1>1 DEF Running
  <1> QED BY <1>1, <1>2, <1>3, PhaseSolo DEF SoloInv

\* A step on a node leaves the submits and the coordinator as they are.
LEMMA RemoteFrame ==
  ASSUME SoloInv, NEW s \in Submit, NEW j \in Job, Remote(s, j)
  PROVE  /\ UNCHANGED <<result, fetcher, phase, rerun, todo, stage, overlapped>>
         /\ Fresh'
         /\ \A k \in Job : k # j =>
              dir'[k] = dir[k] /\ \A t \in Submit : container'[t][k] = container[t][k]
  <1>1. /\ UNCHANGED <<result, fetcher, phase, rerun, todo, stage, overlapped>>
    BY DEF Remote, Mount, LatePrepare, LateClean, Search, coordinator, process
  <1>2. Fresh'
    BY <1>1 DEF SoloInv, Fresh
  <1>3. ASSUME NEW k \in Job, k # j
        PROVE  dir'[k] = dir[k] /\ \A t \in Submit : container'[t][k] = container[t][k]
    <2> USE DEF SoloInv
    <2>1. CASE Mount(s, j)
      <3>1. dir' = dir
        BY <2>1 DEF Mount
      <3>2. \A t \in Submit : container'[t][k] = container[t][k]
        BY <1>3, <2>1 DEF Mount, TypeOK
      <3> QED BY <3>1, <3>2
    <2>3. CASE Search(s, j)
      <3>1. dir'[k] = dir[k]
        BY <1>3, <2>3 DEF Search, TypeOK
      <3>2. \A t \in Submit : container'[t][k] = container[t][k]
        BY <1>3, <2>3 DEF Search, TypeOK
      <3> QED BY <3>1, <3>2
    <2>2. CASE LatePrepare(s, j) \/ LateClean(s, j)
      BY <1>3, <2>2, NobodyMounts DEF LatePrepare, LateClean, TypeOK
    <2> QED BY <2>1, <2>2, <2>3 DEF Remote
  <1> QED BY <1>1, <1>2, <1>3

\* So it is told by its job alone.
LEMMA RemoteSolo ==
  ASSUME TypeOK, Solo, NEW j \in Job,
         UNCHANGED <<result, fetcher, phase, rerun, todo, stage>>,
         \A k \in Job : k # j =>
           dir'[k] = dir[k] /\ \A t \in Submit : container'[t][k] = container[t][k],
         Late(j) => Late(j)',
         OneMount(j)',
         \A t \in Submit, m \in Node : Place(t, m, j)' /\ (Late(j)' \/ Good(t, m, j)')
  PROVE  Solo'
  <1>1. \A t \in Submit, m \in Node, k \in Job : \A x : At(t, m, k, x)' <=> At(t, m, k, x)
    BY DEF At, Current
  <1>2. Alone'
    BY DEF Solo, Alone, Running
  <1>3. ASSUME NEW k \in Job PROVE OneMount(k)' /\ (Late(k) => Late(k)')
    BY DEF Solo, OneMount, Prompt, Late
  <1>4. ASSUME NEW t \in Submit, NEW m \in Node, NEW k \in Job
        PROVE  Place(t, m, k)' /\ (Late(k)' \/ Good(t, m, k)')
    <2>1. CASE k = j
      BY <2>1
    <2>2. CASE k # j
      BY <1>1, <2>2, SameSolo
    <2> QED BY <2>1, <2>2
  <1>5. ASSUME NEW t \in Submit, NEW k \in Job PROVE Settled(t, k)' /\ Repaired(t, k)'
    <2>1. Settled(t, k) /\ Repaired(t, k) /\ NodeOf[k] \in Node
      BY NodeIs DEF Solo
    <2> QED BY <1>1, <1>3, <2>1 DEF Settled, Repaired
  <1> QED BY <1>2, <1>3, <1>4, <1>5 DEF Solo

\* The directory goes, or only its sources change.
LEMMA CutSolo ==
  ASSUME TypeOK, Solo, NEW j \in Job,
         UNCHANGED <<result, fetcher, phase, rerun, todo, stage>>,
         \/ container' = Unmounted(j) /\ dir'[j].output = "none"
         \/ container' = container /\ dir'[j].output = dir[j].output
  PROVE  /\ Late(j) => Late(j)'
         /\ OneMount(j)'
         /\ \A t \in Submit, m \in Node : Place(t, m, j)' /\ (Late(j)' \/ Good(t, m, j)')
  <1>1. \A t \in Submit, m \in Node : \A x : At(t, m, j, x)' <=> At(t, m, j, x)
    BY DEF At, Current
  <1>2. \A t \in Submit : /\ container'[t][j].mounted => container[t][j].mounted
                          /\ container'[t][j].late = container[t][j].late
    BY NobodyMounts
  <1>3. (Late(j)' <=> Late(j)) /\ \A t \in Submit : Prompt(t, j)' => Prompt(t, j)
    BY <1>2 DEF Late, Prompt
  <1>4. OneMount(j)'
    BY <1>3 DEF Solo, OneMount
  <1>5. ASSUME NEW t \in Submit, NEW m \in Node
        PROVE  Place(t, m, j)' /\ (Late(j)' \/ Good(t, m, j)')
    <2>1. Place(t, m, j) /\ (Late(j) \/ Good(t, m, j))
      BY DEF Solo
    <2>2. /\ Starting(t, m, j)' <=> Starting(t, m, j)
          /\ Fetching(t, m, j)' <=> Fetching(t, m, j)
      BY <1>1 DEF Starting, Fetching
    <2>3. Place(t, m, j)'
      BY <1>1, <1>3, <2>1, <2>2 DEF Place
    <2>4. CASE container' = Unmounted(j) /\ dir'[j].output = "none"
      <3>1. ~container'[t][j].mounted
        BY <2>4, NobodyMounts
      <3>2. Good(t, m, j) => Good(t, m, j)'
        BY <1>1, <2>2, <2>4, <3>1 DEF Good
      <3> QED BY <1>3, <2>1, <2>3, <3>2
    <2>5. CASE container' = container /\ dir'[j].output = dir[j].output
      <3>1. Good(t, m, j) => Good(t, m, j)'
        BY <1>1, <2>2, <2>5 DEF Good
      <3> QED BY <1>3, <2>1, <2>3, <3>1
    <2> QED BY <2>4, <2>5
  <1> QED BY <1>3, <1>4, <1>5

LEMMA LateNext ==
  ASSUME SoloInv, NEW s \in Submit, NEW j \in Job, LatePrepare(s, j) \/ LateClean(s, j)
  PROVE  Fresh' /\ (~overlapped' => Solo')
  <1>1. Remote(s, j)
    BY DEF Remote
  <1>2. \/ container' = Unmounted(j) /\ dir'[j].output = "none"
        \/ container' = container /\ dir'[j].output = dir[j].output
    <2>1. dir \in [Job -> Dir] /\ dir[j] \in Dir
      BY DEF SoloInv, TypeOK
    <2> QED BY <2>1 DEF LatePrepare, LateClean, NoDir, Dir
  <1> QED BY <1>1, <1>2, RemoteFrame, RemoteSolo, CutSolo DEF SoloInv

\* A container that arrives while its thread waits for it is the only one;
\* any other is late.
LEMMA MountNext ==
  ASSUME SoloInv, NEW s \in Submit, NEW j \in Job, Mount(s, j)
  PROVE  Fresh' /\ (~overlapped' => Solo')
  <1> USE DEF SoloInv
  <1>1. /\ Remote(s, j) /\ dir' = dir /\ container[s][j].state = "sent"
        /\ UNCHANGED <<result, fetcher, phase, rerun, todo, stage>>
        /\ NodeOf[j] \in Node
    BY NodeIs DEF Remote, Mount, coordinator, process
  <1>2. /\ container'[s][j].state \in {"running", "refused"}
        /\ container'[s][j].mounted <=> container'[s][j].state = "running"
        /\ container'[s][j].late <=>
             container[s][j].late \/ (container'[s][j].mounted /\ ~At(s, NodeOf[j], j, "wait"))
        /\ \A t \in Submit : t # s => container'[t][j] = container[t][j]
    <2>1. container[s][j] \in Container /\ dir[j] \in Dir
      BY DEF TypeOK
    <2>2. container' = [container EXCEPT ![s] = [@ EXCEPT ![j] = container'[s][j]]]
      BY DEF Mount, TypeOK
    <2>3. /\ container'[s][j].state = IF dir[j].source /\ dir[j].binary
                                      THEN "running" ELSE "refused"
          /\ container'[s][j].mounted <=> dir[j].source /\ dir[j].binary
          /\ container'[s][j].late <=> container[s][j].late \/
               (dir[j].source /\ dir[j].binary /\ ~At(s, NodeOf[j], j, "wait"))
      BY <2>1 DEF Mount, TypeOK, Container, Dir
    <2>4. \A t \in Submit : t # s => container'[t][j] = container[t][j]
      BY <2>2 DEF TypeOK
    <2> QED BY <2>3, <2>4
  <1>3. ASSUME Solo PROVE Solo'
    <2>1. \A t \in Submit, m \in Node : \A x : At(t, m, j, x)' <=> At(t, m, j, x)
      BY <1>1 DEF At, Current
    <2>2. \A t \in Submit : /\ t # s => (Prompt(t, j)' <=> Prompt(t, j))
                            /\ t = s /\ Prompt(t, j)' => At(s, NodeOf[j], j, "wait")
      BY <1>2 DEF Prompt
    <2>3. At(s, NodeOf[j], j, "wait") => \A t \in Submit : Prompt(t, j) => t = s
      BY <1>1, <1>3 DEF Solo, Place
    <2>4. OneMount(j)'
      BY <1>3, <2>2, <2>3 DEF Solo, OneMount
    <2>5. ASSUME NEW t \in Submit, NEW m \in Node, NEW x, At(t, m, j, x), Prompt(s, j)'
          PROVE  t = s /\ x = "wait"
      <3>1. At(s, NodeOf[j], j, "wait") /\ m = NodeOf[j]
        BY <2>2, <2>5, AtIs
      <3>2. t = s
        BY <1>3, <2>5, <3>1, AtIs DEF Solo, Alone
      <3> QED BY <2>5, <3>1, <3>2, AtIs
    <2>6. ASSUME NEW t \in Submit, NEW m \in Node PROVE Place(t, m, j)'
      <3>1. Place(t, m, j)
        BY <1>3 DEF Solo
      <3>2. /\ Starting(t, m, j)' => Starting(t, m, j) /\ ~Prompt(s, j)'
            /\ Fetching(t, m, j)' => Fetching(t, m, j) /\ ~Prompt(s, j)'
            /\ At(t, m, j, "wait")' => At(t, m, j, "wait") /\ (Prompt(s, j)' => t = s)
        BY <2>1, <2>5 DEF Starting, Fetching
      <3> QED BY <1>1, <2>1, <2>2, <3>1, <3>2 DEF Place
    <2>7. Late(j) => Late(j)'
      BY <1>2 DEF Late
    <2>8. ASSUME NEW t \in Submit, NEW m \in Node, ~Late(j)' PROVE Good(t, m, j)'
      <3>1. Good(t, m, j)
        BY <1>3, <2>7, <2>8 DEF Solo
      <3>2. CASE t # s
        BY <1>1, <1>2, <2>1, <3>1, <3>2 DEF Good, Starting, Fetching
      <3>3. CASE t = s
        <4>1. container'[s][j].mounted => Prompt(s, j)'
          BY <2>8 DEF Late, Prompt
        <4>2. container'[s][j].mounted => \A x : At(s, m, j, x) => x = "wait"
          BY <2>5, <4>1, <3>3
        <4> QED BY <1>1, <1>2, <2>1, <3>1, <3>3, <4>2 DEF Good, Starting, Fetching
      <3> QED BY <3>2, <3>3
    <2> QED BY <1>1, <1>3, <2>4, <2>6, <2>7, <2>8, RemoteFrame, RemoteSolo
  <1> QED BY <1>1, <1>3, RemoteFrame

\* A container writes where its own thread waits for it, or where nobody
\* that is awaited has the directory.
LEMMA SearchNext ==
  ASSUME SoloInv, NEW s \in Submit, NEW j \in Job, Search(s, j)
  PROVE  Fresh' /\ (~overlapped' => Solo')
  <1> USE DEF SoloInv
  <1>1. /\ Remote(s, j)
        /\ UNCHANGED <<result, fetcher, phase, rerun, todo, stage>>
    BY DEF Remote, Search, coordinator, process
  <1>2. /\ container[s][j].state \in {"running", "writing"}
        /\ container'[s][j].state = IF container[s][j].state = "running"
                                    THEN "writing" ELSE "done"
        /\ \A t \in Submit : /\ container'[t][j].mounted = container[t][j].mounted
                             /\ container'[t][j].late = container[t][j].late
                             /\ t # s => container'[t][j] = container[t][j]
    <2>1. \A t \in Submit : container[t][j] \in Container
      BY DEF TypeOK
    <2> QED BY <2>1 DEF Search, TypeOK, Container
  <1>3. /\ ~container[s][j].mounted => dir' = dir
        /\ container[s][j].mounted =>
             dir'[j].output = IF container[s][j].state = "running" THEN "part" ELSE "whole"
    <2>1. dir[j] \in Dir
      BY DEF TypeOK
    <2> QED BY <2>1 DEF Search, TypeOK, Dir
  <1>4. (Late(j)' <=> Late(j)) /\ \A t \in Submit : Prompt(t, j)' <=> Prompt(t, j)
    BY <1>2 DEF Late, Prompt
  <1>5. ASSUME Solo PROVE Solo'
    <2>1. \A t \in Submit, m \in Node : \A x : At(t, m, j, x)' <=> At(t, m, j, x)
      BY <1>1 DEF At, Current
    <2>2. OneMount(j)'
      BY <1>4, <1>5 DEF Solo, OneMount
    <2>3. ASSUME NEW t \in Submit, NEW m \in Node
          PROVE  Place(t, m, j)' /\ (Late(j)' \/ Good(t, m, j)')
      <3>1. Place(t, m, j) /\ (Late(j) \/ Good(t, m, j))
        BY <1>5 DEF Solo
      <3>2. Place(t, m, j)'
        BY <1>1, <1>4, <2>1, <3>1 DEF Place, Starting, Fetching
      <3>3. ASSUME ~Late(j), Good(t, m, j) PROVE Good(t, m, j)'
        <4>1. container[s][j].mounted => Prompt(s, j)
          BY <3>3 DEF Late, Prompt
        <4>2. CASE ~container[s][j].mounted
          BY <1>1, <1>2, <1>3, <2>1, <3>3, <4>2 DEF Good, Starting, Fetching
        <4>3. CASE container[s][j].mounted /\ t = s
          BY <1>1, <1>2, <1>3, <2>1, <3>1, <3>3, <4>1, <4>3 DEF Place, Good, Starting, Fetching
        <4>4. CASE container[s][j].mounted /\ t # s
          <5>1. ~Starting(t, m, j) /\ ~At(t, m, j, "wait") /\ ~Fetching(t, m, j)
            BY <3>1, <4>1, <4>4 DEF Place
          <5> QED BY <1>1, <2>1, <3>3, <5>1 DEF Good, Starting, Fetching
        <4> QED BY <4>2, <4>3, <4>4
      <3> QED BY <1>4, <3>1, <3>2, <3>3
    <2> QED BY <1>1, <1>4, <1>5, <2>2, <2>3, RemoteFrame, RemoteSolo
  <1> QED BY <1>1, <1>5, RemoteFrame

LEMMA RemoteNext ==
  ASSUME SoloInv, NEW s \in Submit, NEW j \in Job, Remote(s, j)
  PROVE  Fresh' /\ (~overlapped' => Solo')
  BY MountNext, LateNext, SearchNext DEF Remote

LEMMA NextSolo == SoloInv /\ [Next]_rank2Vars => SoloInv'
  <1> SUFFICES ASSUME SoloInv, [Next]_rank2Vars PROVE SoloInv'
    OBVIOUS
  <1>1. TypeOK'
    BY TypesNext DEF SoloInv
  <1>2. CASE UNCHANGED <<coordinator, process, remote, overlapped>>
    <2>1. Fresh' /\ \A t \in Submit : Running(t)' => Running(t)
      BY <1>2 DEF SoloInv, Fresh, Running, process
    <2> QED BY <1>1, <1>2, <2>1, PhaseSolo DEF SoloInv, coordinator, process, remote
  <1>3. BeginVerify \/ Verify \/ UNCHANGED rank2Vars =>
          UNCHANGED <<coordinator, process, remote, overlapped>>
    BY DEF BeginVerify, Verify, rank2Vars
  <1>4. ASSUME NEW s \in Submit, Main(s) PROVE Fresh' /\ (~overlapped' => Solo')
    BY <1>4, QueueNext, StepNext DEF Main
  <1> QED BY <1>1, <1>2, <1>3, <1>4, BeginNext, StepNext, ThreadNext, RemoteNext
          DEF Next, SoloInv

LEMMA AlwaysSolo == Spec => []SoloInv
  BY InitSolo, NextSolo, PTL DEF Spec

-----------------------------------------------------------------------------
(* What follows                                                            *)

\* A set of submits in which any two are the same has at most one member.
LEMMA AtMostOne ==
  ASSUME NEW S \in SUBSET Submit, \A s, t \in S : s = t
  PROVE  Cardinality(S) <= 1
  <1>1. CASE S = {}
    <2>1. Cardinality(S) = 0
      BY <1>1, FS_EmptySet
    <2> QED BY <2>1
  <1>2. CASE S # {}
    <2>1. PICK s \in S : TRUE
      BY <1>2
    <2>2. S = {s}
      BY <2>1
    <2>3. Cardinality(S) = 1
      BY <2>2, FS_Singleton
    <2> QED BY <2>3
  <1> QED BY <1>1, <1>2

LEMMA SoloCutsOff == SoloInv => OrphansAreCutOff
  <1> SUFFICES ASSUME Solo, NEW j \in Job
               PROVE  Cardinality(
                        {s \in Submit : /\ container[s][j].state \in {"running", "writing"}
                                        /\ container[s][j].mounted
                                        /\ ~container[s][j].late}) <= 1
    BY DEF SoloInv, OrphansAreCutOff
  <1> DEFINE writers == {s \in Submit : /\ container[s][j].state \in {"running", "writing"}
                                        /\ container[s][j].mounted
                                        /\ ~container[s][j].late}
  <1>1. writers \in SUBSET Submit /\ \A s, t \in writers : s = t
    BY DEF Solo, OneMount, Prompt
  <1> HIDE DEF writers
  <1>2. Cardinality(writers) <= 1
    BY <1>1, AtMostOne
  <1> QED BY <1>2 DEF writers

(* While submits follow one another, of the containers that started while  *)
(* they were awaited at most one writes where a result is fetched from,    *)
(* whatever was killed or timed out before, and with commands of earlier   *)
(* submits still arriving.                                                 *)
THEOREM OrphansNeverMix == Spec => []OrphansAreCutOff
  BY AlwaysSolo, SoloCutsOff, PTL

\* Results are written by the fetch alone.
LEMMA OnlyFetches ==
  ASSUME TypeOK, [Next]_rank2Vars, NEW j \in Job, result'[j] # result[j]
  PROVE  \E s \in Submit, n \in Node, k \in Job : Open(s, n, k) \/ Copied(s, n, k)
  <1>1. CASE UNCHANGED rank2Vars \/ BeginVerify \/ Verify
    BY <1>1 DEF rank2Vars, coordinator, BeginVerify, Verify
  <1>2. ASSUME NEW s \in Submit, Main(s) \/ Kill(s) \/ \E again \in BOOLEAN : Begin(s, again)
        PROVE  FALSE
    BY <1>2 DEF Main, Kill, Begin, Reuse, Create, Created, Queue, End, coordinator
  <1>3. ASSUME NEW s \in Submit, NEW k \in Job, Remote(s, k) PROVE FALSE
    BY <1>3 DEF Remote, Mount, LatePrepare, LateClean, Search, coordinator
  <1>4. ASSUME NEW s \in Submit, NEW n \in Node, Thread(s, n)
        PROVE  \E k \in Job : Open(s, n, k) \/ Copied(s, n, k)
    BY <1>4 DEF Thread, Fail, Send, Prepare, Install, Start, Return, Clean, coordinator
  <1> QED BY <1>1, <1>2, <1>3, <1>4 DEF Next

LEMMA KeepsStep ==
  ASSUME SoloInv, [Next]_rank2Vars, NEW j \in Job, result[j] = "whole", result'[j] # "whole"
  PROVE  overlapped \/ \E s \in Submit : Running(s) /\ rerun[s]
  <1>1. PICK s \in Submit, n \in Node, k \in Job : Open(s, n, k) \/ Copied(s, n, k)
    BY OnlyFetches DEF SoloInv
  <1>2. Open(s, n, k) /\ k = j
    BY <1>1 DEF Open, Copied, SoloInv, TypeOK
  <1>3. At(s, n, j, "fetch")
    BY <1>2 DEF Open
  <1>4. ~overlapped => Running(s) /\ rerun[s]
    BY <1>3, AtIs, SettledAt DEF SoloInv
  <1> QED BY <1>4

(* Only --rerun, or two submits at a time, can undo a whole result.        *)
THEOREM WholeResultsStay == Spec => KeepsResults
  <1>1. SoloInv /\ [Next]_rank2Vars =>
          [\A j \in Job : (result[j] = "whole" /\ result'[j] # "whole")
             => overlapped \/ \E s \in Submit : Running(s) /\ rerun[s]]_rank2Vars
    BY KeepsStep
  <1> QED BY AlwaysSolo, <1>1, PTL DEF Spec, KeepsResults

\* A submit reports success at its end and nowhere else.
LEMMA OnlyEndSucceeds ==
  ASSUME TypeOK, [Next]_rank2Vars, NEW s \in Submit, Running(s), phase'[s] = "ok"
  PROVE  phase[s] = "running" /\ todo[s] = {}
  <1> USE DEF TypeOK, Running
  <1>1. ASSUME NEW t \in Submit, NEW a \in Artifact, Reuse(t, a) \/ Create(t, a) \/ Created(t, a)
        PROVE  FALSE
    BY <1>1 DEF Reuse, Create, Created, Artifact, Creating, After
  <1>2. ASSUME NEW t \in Submit, Queue(t) \/ Kill(t) \/ \E again \in BOOLEAN : Begin(t, again)
        PROVE  FALSE
    BY <1>2 DEF Queue, Kill, Begin
  <1>3. ASSUME NEW t \in Submit, End(t) PROVE phase[s] = "running" /\ todo[s] = {}
    BY <1>3 DEF End
  <1>4. ASSUME NEW t \in Submit, NEW n \in Node, Thread(t, n) PROVE FALSE
    BY <1>4 DEF Thread, Fail, Send, Prepare, Install, Start, Return, Open, Copied, Clean
  <1>5. ASSUME NEW t \in Submit, NEW j \in Job, Remote(t, j) PROVE FALSE
    BY <1>5 DEF Remote, Mount, LatePrepare, LateClean, Search, process
  <1>6. CASE BeginVerify \/ Verify \/ UNCHANGED rank2Vars
    BY <1>6 DEF BeginVerify, Verify, rank2Vars, process
  <1> QED BY <1>1, <1>2, <1>3, <1>4, <1>5, <1>6 DEF Next, Main

LEMMA RepairsStep ==
  ASSUME SoloInv, [Next]_rank2Vars, NEW s \in Submit, Running(s), phase'[s] = "ok", rerun[s],
         ~overlapped, NEW j \in Job
  PROVE  result[j] = "whole" \/ \E t \in Submit : container[t][j].late
  <1>1. phase[s] = "running" /\ todo[s] = {}
    BY OnlyEndSucceeds DEF SoloInv
  <1> QED BY <1>1 DEF SoloInv, Solo, Repaired, Late

(* A submit with --rerun that met no other one and reports success leaves  *)
(* whole results only, whatever it found, but for jobs of which a          *)
(* container came up after its submit had given up.                        *)
THEOREM RerunLeavesWhole == Spec => RerunRepairs
  <1>1. SoloInv /\ [Next]_rank2Vars =>
          [\A s \in Submit : (Running(s) /\ phase'[s] = "ok" /\ rerun[s] /\ ~overlapped)
             => \A j \in Job : result[j] = "whole" \/ \E t \in Submit : container[t][j].late
            ]_rank2Vars
    BY RepairsStep
  <1> QED BY AlwaysSolo, <1>1, PTL DEF Spec, RerunRepairs
=============================================================================
