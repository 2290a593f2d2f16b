---------------------------- MODULE DaemonProofs ----------------------------
(***************************************************************************)
(* Proofs about Daemon and DaemonStatus, for every number of threads, with *)
(* and without trace output: first the control part, then the counters,    *)
(* then what a status reader makes of them.                                *)
(***************************************************************************)
EXTENDS DaemonStatus, FiniteSetTheorems, SequenceTheorems, TLAPS

\* The control part of the state is well-formed.
ControlOK == /\ pc \in [Thread -> PC]
             /\ owner \in Thread \cup {Nobody}

\* Places where a thread holds a gate that it found unpoisoned.
Trusting == At({"granted", "leaving", "starting", "marking", "beginning", "computing"})

\* The gate and the places agree: who is inside owns it, and a poisoned one
\* has let nobody in.
GateInv == /\ ControlOK
           /\ \A t \in Holding : owner = t
           /\ poisoned => Trusting = {}

\* Places of a thread that is unwinding, or has answered and is leaving.
Leaving(t) == pc[t] \in {"finishing", "settling", "clearing", "ending", "unlocking"}

\* A thread that leaves unanswered still owns the gate, and has no success.
SilenceInv ==
  /\ GateInv
  /\ ~debug => \A t \in Thread :
       /\ t \in success => pc[t] \in {"replying", "ended"} \/ Leaving(t)
       /\ Leaving(t) /\ t \notin replied => t \notin success /\ owner = t
       /\ pc[t] = "ended" /\ t \notin replied => t \notin success /\ poisoned

LEMMA InitSilence == Init => SilenceInv
  BY DEF Init, SilenceInv, GateInv, ControlOK, PC, Holding, Trusting, At, Leaving

LEMMA NextGate == GateInv /\ [Next]_daemonVars => GateInv'
  <1> SUFFICES ASSUME GateInv, [Next]_daemonVars
               PROVE  GateInv'
    OBVIOUS
  <1> USE ThreadAssumption DEF GateInv, ControlOK, Holding, Trusting, At, Goto, gate
  <1>1. ASSUME NEW t \in Thread, Receive(t)
        PROVE  GateInv'
    BY <1>1 DEF Receive, PC
  <1>2. ASSUME NEW t \in Thread, Handle(t)
        PROVE  GateInv'
    <2>1. CASE Reject(t)
      BY <2>1 DEF Reject, PC, BumpLeadsTo
    <2>2. CASE EnterQueue(t)
      BY <2>2 DEF EnterQueue, PC, BumpLeadsTo
    <2>3. CASE Bump(t)
      BY <2>3 DEF Bump, PC, BumpLeadsTo
    <2>4. CASE Lock(t)
      BY <2>4 DEF Lock, PC
    <2>5. CASE LeaveQueue(t)
      BY <2>5 DEF LeaveQueue, PC, BumpLeadsTo
    <2>6. CASE RecordFailure(t)
      BY <2>6 DEF RecordFailure, PC, BumpLeadsTo
    <2>7. CASE BeginActive(t)
      BY <2>7 DEF BeginActive, PC
    <2>8. CASE MarkStarted(t)
      BY <2>8 DEF MarkStarted, PC, BumpLeadsTo
    <2>9. ASSUME NEW ok \in BOOLEAN, Computed(t, ok)
          PROVE  GateInv'
      BY <2>9 DEF Computed, PC
    <2>10. CASE ComputePanics(t)
      BY <2>10 DEF ComputePanics, PC
    <2>11. CASE ReplyEarly(t)
      BY <2>11 DEF ReplyEarly, PC
    <2>12. CASE Reply(t)
      BY <2>12 DEF Reply, PC
    <2>13. CASE FinishActive(t)
      BY <2>13 DEF FinishActive, PC
    <2>14. CASE Settle(t)
      BY <2>14 DEF Settle, PC
    <2>15. CASE ClearStarted(t)
      BY <2>15 DEF ClearStarted, PC, BumpLeadsTo
    <2>16. CASE Unlock(t)
      BY <2>16 DEF Unlock, PC
    <2>17. CASE TracePanics(t)
      BY <2>17 DEF TracePanics, PC
    <2> QED BY <1>2, <2>1, <2>2, <2>3, <2>4, <2>5, <2>6, <2>7, <2>8, <2>9, <2>10,
               <2>11, <2>12, <2>13, <2>14, <2>15, <2>16, <2>17 DEF Handle
  <1>3. CASE UNCHANGED daemonVars
    BY <1>3 DEF daemonVars, threadVars
  <1> QED BY <1>1, <1>2, <1>3 DEF Next, AllEnded

\* GateInv' is known from NextGate; the rest says who may be silent.
LEMMA NextSilence == SilenceInv /\ [Next]_daemonVars => SilenceInv'
  <1> SUFFICES ASSUME SilenceInv, [Next]_daemonVars
               PROVE  SilenceInv'
    OBVIOUS
  <1>1. GateInv'
    BY NextGate DEF SilenceInv
  <1> USE ThreadAssumption, <1>1
      DEF SilenceInv, GateInv, ControlOK, Holding, At, Leaving, Goto, gate
  <1>2. ASSUME NEW t \in Thread, Receive(t)
        PROVE  SilenceInv'
    BY <1>2 DEF Receive
  <1>3. ASSUME NEW t \in Thread, Handle(t)
        PROVE  SilenceInv'
    <2>1. CASE Reject(t)
      BY <2>1 DEF Reject
    <2>2. CASE EnterQueue(t)
      BY <2>2 DEF EnterQueue
    <2>3. CASE Bump(t)
      BY <2>3 DEF Bump, PC, BumpLeadsTo
    <2>4. CASE Lock(t)
      BY <2>4 DEF Lock
    <2>5. CASE LeaveQueue(t)
      BY <2>5 DEF LeaveQueue
    <2>6. CASE RecordFailure(t)
      BY <2>6 DEF RecordFailure
    <2>7. CASE BeginActive(t)
      BY <2>7 DEF BeginActive
    <2>8. CASE MarkStarted(t)
      BY <2>8 DEF MarkStarted
    <2>9. ASSUME NEW ok \in BOOLEAN, Computed(t, ok)
          PROVE  SilenceInv'
      BY <2>9 DEF Computed
    <2>10. CASE ComputePanics(t)
      BY <2>10 DEF ComputePanics
    <2>11. CASE ReplyEarly(t)
      BY <2>11 DEF ReplyEarly
    <2>12. CASE Reply(t)
      BY <2>12 DEF Reply
    <2>13. CASE FinishActive(t)
      BY <2>13 DEF FinishActive
    <2>14. CASE Settle(t)
      BY <2>14 DEF Settle
    <2>15. CASE ClearStarted(t)
      BY <2>15 DEF ClearStarted
    <2>16. CASE Unlock(t)
      BY <2>16 DEF Unlock
    <2>17. CASE TracePanics(t)
      BY <2>17 DEF TracePanics
    <2> QED BY <1>3, <2>1, <2>2, <2>3, <2>4, <2>5, <2>6, <2>7, <2>8, <2>9, <2>10,
               <2>11, <2>12, <2>13, <2>14, <2>15, <2>16, <2>17 DEF Handle
  <1>4. CASE UNCHANGED daemonVars
    BY <1>4 DEF daemonVars, threadVars
  <1> QED BY <1>2, <1>3, <1>4 DEF Next, AllEnded

\* A set whose members are all the same has at most one.
LEMMA AtMostOne ==
  ASSUME NEW S, NEW x, \A y \in S : y = x
  PROVE  Cardinality(S) <= 1
  <1>1. CASE S = {}
    BY <1>1, FS_EmptySet
  <1>2. CASE S = {x}
    BY <1>2, FS_Singleton
  <1> QED BY <1>1, <1>2

(* One job at a time on the GPU, and none after a panic has poisoned the   *)
(* gate, for every number of threads and every order of their panics.      *)
THEOREM OneJobOnTheGPU == Spec => []GPUExclusive
  <1>1. SilenceInv => GPUExclusive
    <2> SUFFICES ASSUME SilenceInv
                 PROVE  GPUExclusive
      OBVIOUS
    <2>1. At({"starting", "marking", "beginning", "computing"}) \subseteq Holding
      BY DEF At, Holding
    <2>2. Cardinality(At({"starting", "marking", "beginning", "computing"})) <= 1
      BY <2>1, AtMostOne DEF SilenceInv, GateInv
    <2>3. poisoned => At({"leaving", "starting", "marking", "beginning", "computing"}) = {}
      BY DEF SilenceInv, GateInv, Trusting, At
    <2> QED BY <2>2, <2>3 DEF GPUExclusive, SilenceInv, GateInv
  <1> QED BY InitSilence, NextSilence, <1>1, PTL DEF Spec

(* Without trace output, a connection that ends without an answer belongs  *)
(* to a job that failed and left the gate poisoned.                        *)
THEOREM SilentThreadsPoisoned == Spec => []SilenceIsAFailure
  <1>1. SilenceInv => SilenceIsAFailure
    BY DEF SilenceInv, SilenceIsAFailure
  <1> QED BY InitSilence, NextSilence, <1>1, PTL DEF Spec

-----------------------------------------------------------------------------
(* The counters.  Each counts the threads between two places.              *)

Count(places) == Cardinality(At(places))

In(place, places) == IF place \in places THEN 1 ELSE 0

ActivePlaces == {"marking", "beginning", "computing", "replying", "finishing"}
QueuedPlaces == {"entering", "queueing", "granted", "refused"}
OpenPlaces == {"received", "entering", "queueing", "granted", "refused", "leaving", "refusing",
               "failing", "starting", "marking", "beginning", "computing", "replying",
               "finishing", "settling"}
ClosedPlaces == {"clearing", "ending", "unlocking", "ended"}
SuccessPlaces == {"replying", "finishing", "settling"} \cup ClosedPlaces
OwnerPlaces == {"granted", "leaving", "starting", "marking", "beginning", "computing",
                "refused", "refusing", "failing", "recording", "reply500",
                "finishing", "settling", "clearing", "ending", "unlocking"}

Closed == {t \in success : pc[t] \in ClosedPlaces}

\* A trace that panics leaves a request in queued and in total for good.
QueuedOK == /\ queued \in Nat /\ queued >= Count(QueuedPlaces)
            /\ ~debug => queued = Count(QueuedPlaces)
ActiveOK == active = Count(ActivePlaces)
TotalOK == /\ total \in Nat
           /\ ~debug => total = completed + failed + Count(OpenPlaces)
SettledOK == /\ failed \in Nat
             /\ success \subseteq Thread
             /\ \A t \in success : pc[t] \in SuccessPlaces
             /\ completed = Cardinality(Closed)
OwnerOK == owner # Nobody => pc[owner] \in OwnerPlaces

CountInv == GateInv /\ QueuedOK /\ ActiveOK /\ TotalOK /\ SettledOK /\ OwnerOK

LEMMA CountIs ==
  ASSUME NEW places
  PROVE  IsFiniteSet(At(places)) /\ Count(places) \in Nat /\ Count(places)' \in Nat
  <1>1. At(places) \subseteq Thread /\ At(places)' \subseteq Thread
    BY DEF At
  <1> QED BY <1>1, ThreadAssumption, FS_Subset, FS_CardinalityType DEF Count

LEMMA CountMoves ==
  ASSUME ControlOK, NEW t \in Thread, NEW from, NEW to, Goto(t, from, to), NEW places
  PROVE  Count(places)' = Count(places) + In(to, places) - In(from, places)
  <1>1. /\ pc[t] = from /\ pc'[t] = to /\ \A u \in Thread : u # t => pc'[u] = pc[u]
    BY DEF Goto, ControlOK
  <1>2. IsFiniteSet(At(places)) /\ Count(places) \in Nat
    BY CountIs
  <1>3. CASE from \in places <=> to \in places
    <2>1. At(places)' = At(places)
      BY <1>1, <1>3 DEF At
    <2> QED BY <1>2, <1>3, <2>1 DEF Count, In
  <1>4. CASE from \in places /\ to \notin places
    <2>1. At(places)' = At(places) \ {t} /\ t \in At(places)
      BY <1>1, <1>4 DEF At
    <2>2. Cardinality(At(places) \ {t}) = Cardinality(At(places)) - 1
      BY <1>2, <2>1, FS_RemoveElement
    <2> QED BY <1>2, <1>4, <2>1, <2>2 DEF Count, In
  <1>5. CASE from \notin places /\ to \in places
    <2>1. At(places)' = At(places) \cup {t} /\ t \notin At(places)
      BY <1>1, <1>5 DEF At
    <2>2. Cardinality(At(places) \cup {t}) = Cardinality(At(places)) + 1
      BY <1>2, <2>1, FS_AddElement
    <2> QED BY <1>2, <1>5, <2>1, <2>2 DEF Count, In
  <1> QED BY <1>3, <1>4, <1>5

\* The three counts of a step from one place to another.
Shifted(from, to) ==
  /\ Count(QueuedPlaces)' = Count(QueuedPlaces) + In(to, QueuedPlaces) - In(from, QueuedPlaces)
  /\ Count(ActivePlaces)' = Count(ActivePlaces) + In(to, ActivePlaces) - In(from, ActivePlaces)
  /\ Count(OpenPlaces)' = Count(OpenPlaces) + In(to, OpenPlaces) - In(from, OpenPlaces)
  /\ {Count(QueuedPlaces), Count(ActivePlaces), Count(OpenPlaces)} \subseteq Nat
  /\ {Count(QueuedPlaces)', Count(ActivePlaces)', Count(OpenPlaces)'} \subseteq Nat

LEMMA Shifts ==
  ASSUME ControlOK, NEW t \in Thread, NEW from, NEW to, Goto(t, from, to)
  PROVE  Shifted(from, to)
  <1>1. ASSUME NEW places
        PROVE  /\ Count(places)' = Count(places) + In(to, places) - In(from, places)
               /\ Count(places) \in Nat /\ Count(places)' \in Nat
    <2>1. Count(places) \in Nat /\ In(to, places) \in {0, 1} /\ In(from, places) \in {0, 1}
      BY CountIs DEF In
    <2>2. Count(places)' = Count(places) + In(to, places) - In(from, places)
      BY CountMoves
    <2> QED BY CountIs, <2>1, <2>2
  <1> QED BY <1>1 DEF Shifted

LEMMA InitCounts == Init => CountInv
  <1> SUFFICES ASSUME Init PROVE CountInv
    OBVIOUS
  <1>1. At(QueuedPlaces) = {} /\ At(ActivePlaces) = {} /\ At(OpenPlaces) = {} /\ Closed = {}
    BY DEF Init, At, QueuedPlaces, ActivePlaces, OpenPlaces, Closed
  <1>2. /\ Count(QueuedPlaces) = 0 /\ Count(ActivePlaces) = 0 /\ Count(OpenPlaces) = 0
        /\ Cardinality(Closed) = 0
    BY <1>1, FS_EmptySet DEF Count
  <1>3. GateInv /\ OwnerOK
    BY InitSilence DEF Init, SilenceInv, OwnerOK
  <1>4. QueuedOK /\ ActiveOK /\ TotalOK /\ SettledOK
    BY <1>2 DEF Init, QueuedOK, ActiveOK, TotalOK, SettledOK
  <1> QED BY <1>3, <1>4 DEF CountInv

LEMMA CompletedIs ==
  ASSUME CountInv
  PROVE  IsFiniteSet(Closed) /\ completed \in Nat
  <1>1. Closed \subseteq Thread
    BY DEF CountInv, SettledOK, Closed
  <1>2. IsFiniteSet(Closed) /\ Cardinality(Closed) \in Nat
    BY <1>1, ThreadAssumption, FS_Subset, FS_CardinalityType
  <1> QED BY <1>2 DEF CountInv, SettledOK

\* A step that leaves success alone, of a thread that is not in it or does
\* not cross the bound.
LEMMA ClosedStays ==
  ASSUME CountInv, NEW t \in Thread, NEW from, NEW to, Goto(t, from, to),
         UNCHANGED <<success, completed>>, failed' \in Nat,
         from \in SuccessPlaces => /\ to \in SuccessPlaces
                                   /\ from \in ClosedPlaces <=> to \in ClosedPlaces
  PROVE  SettledOK'
  <1>1. /\ pc[t] = from /\ pc'[t] = to /\ \A u \in Thread : u # t => pc'[u] = pc[u]
        /\ success \subseteq Thread /\ \A u \in success : pc[u] \in SuccessPlaces
    BY DEF CountInv, GateInv, ControlOK, SettledOK, Goto
  <1>2. Closed' = Closed
    BY <1>1 DEF Closed
  <1> QED BY <1>1, <1>2 DEF CountInv, SettledOK

\* Each counter moves as the places ask for, those that a panicking trace
\* may leave behind aside.
LEMMA CountersFollow ==
  ASSUME CountInv, NEW t \in Thread, NEW from, NEW to, Goto(t, from, to), UNCHANGED debug,
         \/ queued' = queued + In(to, QueuedPlaces) - In(from, QueuedPlaces)
         \/ debug /\ queued' = queued /\ In(to, QueuedPlaces) = 0,
         active' = active + In(to, ActivePlaces) - In(from, ActivePlaces),
         total' \in Nat, completed' \in Nat, failed' \in Nat,
         debug \/ total' + completed + failed + In(from, OpenPlaces)
                    = total + completed' + failed' + In(to, OpenPlaces)
  PROVE  QueuedOK' /\ ActiveOK' /\ TotalOK'
  <1>1. Shifted(from, to)
    BY Shifts DEF CountInv, GateInv
  <1>2. completed \in Nat /\ failed \in Nat /\ total \in Nat /\ queued \in Nat
    BY CompletedIs DEF CountInv, SettledOK, TotalOK, QueuedOK
  <1>3. \A places : In(to, places) \in {0, 1} /\ In(from, places) \in {0, 1}
    BY DEF In
  <1>4. QueuedOK'
    BY <1>1, <1>2, <1>3 DEF CountInv, QueuedOK, Shifted
  <1>5. ActiveOK'
    BY <1>1 DEF CountInv, ActiveOK, Shifted
  <1>6. TotalOK'
    BY <1>1, <1>2, <1>3 DEF CountInv, TotalOK, Shifted
  <1> QED BY <1>4, <1>5, <1>6

LEMMA OwnerNext == CountInv /\ [Next]_daemonVars => OwnerOK'
  <1> SUFFICES ASSUME CountInv, [Next]_daemonVars PROVE OwnerOK'
    OBVIOUS
  <1> USE ThreadAssumption DEF CountInv, GateInv, ControlOK, OwnerOK, OwnerPlaces, Goto, gate
  <1>1. ASSUME NEW t \in Thread, Receive(t) PROVE OwnerOK'
    BY <1>1 DEF Receive
  <1>2. ASSUME NEW t \in Thread, Reject(t) PROVE OwnerOK'
    BY <1>2 DEF Reject
  <1>3. ASSUME NEW t \in Thread, EnterQueue(t) PROVE OwnerOK'
    BY <1>3 DEF EnterQueue
  <1>4. ASSUME NEW t \in Thread, RecordFailure(t) PROVE OwnerOK'
    BY <1>4 DEF RecordFailure
  <1>5. ASSUME NEW t \in Thread, BeginActive(t) PROVE OwnerOK'
    BY <1>5 DEF BeginActive
  <1>6. ASSUME NEW t \in Thread, MarkStarted(t) PROVE OwnerOK'
    BY <1>6 DEF MarkStarted
  <1>7. ASSUME NEW t \in Thread, ComputePanics(t) PROVE OwnerOK'
    BY <1>7 DEF ComputePanics
  <1>8. ASSUME NEW t \in Thread, Reply(t) PROVE OwnerOK'
    BY <1>8 DEF Reply
  <1>9. ASSUME NEW t \in Thread, FinishActive(t) PROVE OwnerOK'
    BY <1>9 DEF FinishActive
  <1>10. ASSUME NEW t \in Thread, ClearStarted(t) PROVE OwnerOK'
    BY <1>10 DEF ClearStarted
  <1>11. ASSUME NEW t \in Thread, Unlock(t) PROVE OwnerOK'
    BY <1>11 DEF Unlock
  <1>12. ASSUME NEW t \in Thread, LeaveQueue(t) PROVE OwnerOK'
    BY <1>12 DEF LeaveQueue
  <1>13. ASSUME NEW t \in Thread, ReplyEarly(t) PROVE OwnerOK'
    BY <1>13 DEF ReplyEarly
  <1>14. ASSUME NEW t \in Thread, Lock(t) PROVE OwnerOK'
    BY <1>14 DEF Lock
  <1>15. ASSUME NEW t \in Thread, TracePanics(t) PROVE OwnerOK'
    BY <1>15 DEF TracePanics
  <1>16. ASSUME NEW t \in Thread, Bump(t) PROVE OwnerOK'
    BY <1>16 DEF Bump, BumpLeadsTo
  <1>17. ASSUME NEW t \in Thread, Settle(t) PROVE OwnerOK'
    BY <1>17 DEF Settle
  <1>18. ASSUME NEW t \in Thread, NEW ok \in BOOLEAN, Computed(t, ok) PROVE OwnerOK'
    BY <1>18 DEF Computed
  <1>19. CASE UNCHANGED daemonVars
    BY <1>19 DEF daemonVars, threadVars
  <1> QED BY <1>1, <1>2, <1>3, <1>4, <1>5, <1>6, <1>7, <1>8, <1>9, <1>10, <1>11,
             <1>12, <1>13, <1>14, <1>15, <1>16, <1>17, <1>18, <1>19
          DEF Next, Handle, AllEnded

\* Every step of a thread moves the counters as its places ask for.
LEMMA HandleCounts ==
  ASSUME CountInv, NEW t \in Thread, Receive(t) \/ Handle(t)
  PROVE  QueuedOK' /\ ActiveOK' /\ TotalOK' /\ SettledOK'
  <1>1. completed \in Nat /\ failed \in Nat /\ total \in Nat /\ queued \in Nat /\ active \in Nat
    BY CompletedIs, CountIs DEF CountInv, SettledOK, TotalOK, QueuedOK, ActiveOK
  <1>2. CASE Receive(t)
    BY <1>1, <1>2, CountersFollow, ClosedStays
       DEF Receive, In, QueuedPlaces, ActivePlaces, OpenPlaces, ClosedPlaces, SuccessPlaces
  <1>3. CASE Reject(t)
    BY <1>1, <1>3, CountersFollow, ClosedStays
       DEF Reject, In, QueuedPlaces, ActivePlaces, OpenPlaces, ClosedPlaces, SuccessPlaces
  <1>4. CASE EnterQueue(t)
    BY <1>1, <1>4, CountersFollow, ClosedStays
       DEF EnterQueue, In, QueuedPlaces, ActivePlaces, OpenPlaces, ClosedPlaces, SuccessPlaces
  <1>5. CASE RecordFailure(t)
    BY <1>1, <1>5, CountersFollow, ClosedStays
       DEF RecordFailure, In, QueuedPlaces, ActivePlaces, OpenPlaces, ClosedPlaces, SuccessPlaces
  <1>6. CASE BeginActive(t)
    BY <1>1, <1>6, CountersFollow, ClosedStays
       DEF BeginActive, In, QueuedPlaces, ActivePlaces, OpenPlaces, ClosedPlaces, SuccessPlaces
  <1>7. CASE MarkStarted(t)
    BY <1>1, <1>7, CountersFollow, ClosedStays
       DEF MarkStarted, In, QueuedPlaces, ActivePlaces, OpenPlaces, ClosedPlaces, SuccessPlaces
  <1>8. CASE ComputePanics(t)
    BY <1>1, <1>8, CountersFollow, ClosedStays
       DEF ComputePanics, In, QueuedPlaces, ActivePlaces, OpenPlaces,
           ClosedPlaces, SuccessPlaces, counters
  <1>9. CASE Reply(t)
    BY <1>1, <1>9, CountersFollow, ClosedStays
       DEF Reply, In, QueuedPlaces, ActivePlaces, OpenPlaces, ClosedPlaces, SuccessPlaces, counters
  <1>10. CASE FinishActive(t)
    BY <1>1, <1>10, CountersFollow, ClosedStays
       DEF FinishActive, In, QueuedPlaces, ActivePlaces, OpenPlaces, ClosedPlaces, SuccessPlaces
  <1>11. CASE ClearStarted(t)
    BY <1>1, <1>11, CountersFollow, ClosedStays
       DEF ClearStarted, In, QueuedPlaces, ActivePlaces, OpenPlaces, ClosedPlaces, SuccessPlaces
  <1>12. CASE Unlock(t)
    BY <1>1, <1>12, CountersFollow, ClosedStays
       DEF Unlock, In, QueuedPlaces, ActivePlaces, OpenPlaces, ClosedPlaces, SuccessPlaces, counters
  <1>13. CASE LeaveQueue(t)
    <2>1. UNCHANGED <<debug, active, total, completed, failed, success>> /\ queued' = queued - 1
      BY <1>13 DEF LeaveQueue, counters
    <2>2. CASE Goto(t, "granted", "leaving")
      BY <1>1, <2>1, <2>2, CountersFollow, ClosedStays
         DEF In, QueuedPlaces, ActivePlaces, OpenPlaces, ClosedPlaces, SuccessPlaces
    <2>3. CASE Goto(t, "refused", "refusing")
      BY <1>1, <2>1, <2>3, CountersFollow, ClosedStays
         DEF In, QueuedPlaces, ActivePlaces, OpenPlaces, ClosedPlaces, SuccessPlaces
    <2> QED BY <1>13, <2>2, <2>3 DEF LeaveQueue
  <1>14. CASE ReplyEarly(t)
    <2>1. UNCHANGED <<debug, queued, active, total, completed, failed, success>>
      BY <1>14 DEF ReplyEarly, counters
    <2>2. CASE Goto(t, "reply400", "ended")
      BY <1>1, <2>1, <2>2, CountersFollow, ClosedStays
         DEF In, QueuedPlaces, ActivePlaces, OpenPlaces, ClosedPlaces, SuccessPlaces
    <2>3. CASE Goto(t, "reply500", "ended")
      BY <1>1, <2>1, <2>3, CountersFollow, ClosedStays
         DEF In, QueuedPlaces, ActivePlaces, OpenPlaces, ClosedPlaces, SuccessPlaces
    <2> QED BY <1>14, <2>2, <2>3 DEF ReplyEarly
  <1>15. CASE Lock(t)
    <2>1. UNCHANGED <<debug, queued, active, total, completed, failed, success>>
      BY <1>15 DEF Lock, counters
    <2>2. CASE Goto(t, "queueing", "granted")
      BY <1>1, <2>1, <2>2, CountersFollow, ClosedStays
         DEF In, QueuedPlaces, ActivePlaces, OpenPlaces, ClosedPlaces, SuccessPlaces
    <2>3. CASE Goto(t, "queueing", "refused")
      BY <1>1, <2>1, <2>3, CountersFollow, ClosedStays
         DEF In, QueuedPlaces, ActivePlaces, OpenPlaces, ClosedPlaces, SuccessPlaces
    <2> QED BY <1>15, <2>2, <2>3 DEF Lock
  <1>16. CASE TracePanics(t)
    <2>1. UNCHANGED <<debug, queued, active, total, completed, failed, success>>
      BY <1>16 DEF TracePanics, counters
    <2>2. CASE Goto(t, "received", "ended")
      BY <1>1, <1>16, <2>1, <2>2, CountersFollow, ClosedStays
         DEF TracePanics, In, QueuedPlaces, ActivePlaces, OpenPlaces, ClosedPlaces, SuccessPlaces
    <2>3. CASE Goto(t, "reply400", "ended")
      BY <1>1, <1>16, <2>1, <2>3, CountersFollow, ClosedStays
         DEF TracePanics, In, QueuedPlaces, ActivePlaces, OpenPlaces, ClosedPlaces, SuccessPlaces
    <2>4. CASE Goto(t, "queueing", "ended")
      BY <1>1, <1>16, <2>1, <2>4, CountersFollow, ClosedStays
         DEF TracePanics, In, QueuedPlaces, ActivePlaces, OpenPlaces, ClosedPlaces, SuccessPlaces
    <2>5. CASE Goto(t, "reply500", "unlocking")
      BY <1>1, <1>16, <2>1, <2>5, CountersFollow, ClosedStays
         DEF TracePanics, In, QueuedPlaces, ActivePlaces, OpenPlaces, ClosedPlaces, SuccessPlaces
    <2>6. CASE Goto(t, "replying", "finishing")
      BY <1>1, <1>16, <2>1, <2>6, CountersFollow, ClosedStays
         DEF TracePanics, In, QueuedPlaces, ActivePlaces, OpenPlaces, ClosedPlaces, SuccessPlaces
    <2> QED BY <1>16, <2>2, <2>3, <2>4, <2>5, <2>6 DEF TracePanics
  <1>17. CASE Bump(t)
    <2>1. UNCHANGED <<debug, queued, active, total, completed, failed, success>>
      BY <1>17 DEF Bump, counters
    <2>2. CASE Goto(t, "rejecting", "reply400")
      BY <1>1, <2>1, <2>2, CountersFollow, ClosedStays
         DEF In, QueuedPlaces, ActivePlaces, OpenPlaces, ClosedPlaces, SuccessPlaces
    <2>3. CASE Goto(t, "entering", "queueing")
      BY <1>1, <2>1, <2>3, CountersFollow, ClosedStays
         DEF In, QueuedPlaces, ActivePlaces, OpenPlaces, ClosedPlaces, SuccessPlaces
    <2>4. CASE Goto(t, "leaving", "starting")
      BY <1>1, <2>1, <2>4, CountersFollow, ClosedStays
         DEF In, QueuedPlaces, ActivePlaces, OpenPlaces, ClosedPlaces, SuccessPlaces
    <2>5. CASE Goto(t, "refusing", "failing")
      BY <1>1, <2>1, <2>5, CountersFollow, ClosedStays
         DEF In, QueuedPlaces, ActivePlaces, OpenPlaces, ClosedPlaces, SuccessPlaces
    <2>6. CASE Goto(t, "recording", "reply500")
      BY <1>1, <2>1, <2>6, CountersFollow, ClosedStays
         DEF In, QueuedPlaces, ActivePlaces, OpenPlaces, ClosedPlaces, SuccessPlaces
    <2>7. CASE Goto(t, "beginning", "computing")
      BY <1>1, <2>1, <2>7, CountersFollow, ClosedStays
         DEF In, QueuedPlaces, ActivePlaces, OpenPlaces, ClosedPlaces, SuccessPlaces
    <2>8. CASE Goto(t, "ending", "unlocking")
      BY <1>1, <2>1, <2>8, CountersFollow, ClosedStays
         DEF In, QueuedPlaces, ActivePlaces, OpenPlaces, ClosedPlaces, SuccessPlaces
    <2>9. pc[t] \in DOMAIN BumpLeadsTo /\ Goto(t, pc[t], BumpLeadsTo[pc[t]])
      BY <1>17 DEF Bump, Goto
    <2> QED BY <2>2, <2>3, <2>4, <2>5, <2>6, <2>7, <2>8, <2>9 DEF BumpLeadsTo
  <1>18. ASSUME NEW ok \in BOOLEAN, Computed(t, ok)
        PROVE  QueuedOK' /\ ActiveOK' /\ TotalOK' /\ SettledOK'
    <2>1. QueuedOK' /\ ActiveOK' /\ TotalOK'
      BY <1>1, <1>18, CountersFollow
         DEF Computed, In, QueuedPlaces, ActivePlaces, OpenPlaces, counters
    <2>2. /\ pc[t] = "computing" /\ pc'[t] = "replying"
          /\ \A u \in Thread : u # t => pc'[u] = pc[u]
          /\ success \subseteq Thread /\ success' \in {success, success \cup {t}}
      BY <1>18 DEF Computed, Goto, CountInv, GateInv, ControlOK, SettledOK
    <2>3. Closed' = Closed
      BY <2>2 DEF Closed, ClosedPlaces
    <2>4. \A u \in success' : u \in Thread /\ pc'[u] \in SuccessPlaces
      BY <2>2 DEF CountInv, SettledOK, SuccessPlaces
    <2> QED BY <1>18, <2>1, <2>3, <2>4 DEF Computed, counters, CountInv, SettledOK
  <1>19. CASE Settle(t)
    <2>1. /\ pc[t] = "settling" /\ pc'[t] = "clearing"
          /\ \A u \in Thread : u # t => pc'[u] = pc[u]
          /\ success \subseteq Thread /\ success' = success
      BY <1>19 DEF Settle, Goto, CountInv, GateInv, ControlOK, SettledOK
    <2>2. IsFiniteSet(Closed) /\ completed = Cardinality(Closed)
      BY CompletedIs DEF CountInv, SettledOK
    <2>3. completed' = Cardinality(Closed)'
      <3>1. CASE t \in success
        <4>1. Closed' = Closed \cup {t} /\ t \notin Closed
          BY <2>1, <3>1 DEF Closed, ClosedPlaces
        <4>2. Cardinality(Closed \cup {t}) = Cardinality(Closed) + 1
          BY <2>2, <4>1, FS_AddElement
        <4> QED BY <1>19, <2>2, <3>1, <4>1, <4>2 DEF Settle
      <3>2. CASE t \notin success
        <4>1. Closed' = Closed
          BY <2>1, <3>2 DEF Closed, ClosedPlaces
        <4> QED BY <1>19, <2>2, <3>2, <4>1 DEF Settle
      <3> QED BY <3>1, <3>2
    <2>4. \A u \in success' : u \in Thread /\ pc'[u] \in SuccessPlaces
      BY <2>1 DEF CountInv, SettledOK, SuccessPlaces, ClosedPlaces
    <2>5. QueuedOK' /\ ActiveOK' /\ TotalOK'
      BY <1>1, <1>19, CountersFollow DEF Settle, In, QueuedPlaces, ActivePlaces, OpenPlaces
    <2>6. failed' \in Nat
      BY <1>1, <1>19 DEF Settle
    <2> QED BY <2>3, <2>4, <2>5, <2>6 DEF SettledOK
  <1> QED BY <1>2, <1>3, <1>4, <1>5, <1>6, <1>7, <1>8, <1>9, <1>10, <1>11, <1>12,
             <1>13, <1>14, <1>15, <1>16, <1>17, <1>18, <1>19
          DEF Handle

LEMMA CountNext == CountInv /\ [Next]_daemonVars => CountInv'
  <1> SUFFICES ASSUME CountInv, [Next]_daemonVars PROVE CountInv'
    OBVIOUS
  <1>1. GateInv' /\ OwnerOK'
    BY NextGate, OwnerNext DEF CountInv
  <1>2. ASSUME NEW t \in Thread, Receive(t) \/ Handle(t) PROVE CountInv'
    BY <1>1, <1>2, HandleCounts DEF CountInv
  <1>3. CASE UNCHANGED daemonVars
    <2>1. Count(QueuedPlaces)' = Count(QueuedPlaces) /\ Count(ActivePlaces)' = Count(ActivePlaces)
          /\ Count(OpenPlaces)' = Count(OpenPlaces) /\ Closed' = Closed
      BY <1>3 DEF daemonVars, threadVars, Count, At, Closed
    <2> QED BY <1>1, <1>3, <2>1
            DEF CountInv, QueuedOK, ActiveOK, TotalOK, SettledOK, daemonVars, counters, threadVars
  <1> QED BY <1>2, <1>3 DEF Next, AllEnded

(* Whenever no request is under way, the counters are at rest: nothing is  *)
(* active, the gate is free, and each request has been counted once, for   *)
(* every number of threads and whatever has panicked.                      *)
THEOREM CountersAddUp == Spec => []AllAccounted
  <1>1. CountInv => AllAccounted
    <2> SUFFICES ASSUME CountInv, AtRest
                 PROVE  /\ active = 0 /\ owner = Nobody
                        /\ ~debug => queued = 0 /\ total = completed + failed
                        /\ completed = Cardinality(success)
      BY DEF AllAccounted
    <2>1. At(QueuedPlaces) = {} /\ At(ActivePlaces) = {} /\ At(OpenPlaces) = {}
      BY DEF AtRest, At, QueuedPlaces, ActivePlaces, OpenPlaces
    <2>2. Count(QueuedPlaces) = 0 /\ Count(ActivePlaces) = 0 /\ Count(OpenPlaces) = 0
      BY <2>1, FS_EmptySet DEF Count
    <2>3. Closed = success
      BY DEF CountInv, SettledOK, AtRest, Closed, SuccessPlaces, ClosedPlaces
    <2>4. owner = Nobody
      BY DEF CountInv, GateInv, ControlOK, OwnerOK, OwnerPlaces, AtRest
    <2>5. completed \in Nat /\ failed \in Nat
      BY CompletedIs DEF CountInv, SettledOK
    <2> QED BY <2>2, <2>3, <2>4, <2>5 DEF CountInv, QueuedOK, ActiveOK, TotalOK, SettledOK
  <1> QED BY InitCounts, CountNext, <1>1, PTL DEF Spec

-----------------------------------------------------------------------------
(* The status reader.                                                      *)

\* As long as a snapshot is incomplete, what is steady is so now; a value
\* that was loaded then is not 0.
ReaderInv ==
  /\ snapshot \in Seq(Nat) /\ Len(snapshot) \in 0..2
  /\ Len(snapshot) < 2 => steady \subseteq Occupancy
  /\ (Len(snapshot) >= 1 /\ \E t \in Thread : <<t, "computing">> \in steady) => snapshot[1] # 0
  /\ (Len(snapshot) = 2 /\ \E t \in Thread : <<t, "waiting">> \in steady) => snapshot[2] # 0

LEMMA SomebodyCounts ==
  ASSUME NEW t \in Thread, NEW places, pc[t] \in places
  PROVE  Count(places) # 0
  <1>1. t \in At(places) /\ IsFiniteSet(At(places))
    BY CountIs DEF At
  <1> QED BY <1>1, FS_EmptySet DEF Count

LEMMA AppendIs ==
  ASSUME NEW s \in Seq(Nat), NEW n \in Nat
  PROVE  /\ Append(s, n) \in Seq(Nat) /\ Len(Append(s, n)) = Len(s) + 1
         /\ Append(s, n)[Len(s) + 1] = n
  <1>1. Append(s, n) \in Seq(Nat)
    OBVIOUS
  <1>2. Len(Append(s, n)) = Len(s) + 1
    OBVIOUS
  <1>3. Append(s, n)[Len(s) + 1] = n
    OBVIOUS
  <1> QED BY <1>1, <1>2, <1>3

LEMMA AppendSecond ==
  ASSUME NEW s \in Seq(Nat), NEW n \in Nat, Len(s) = 1
  PROVE  /\ Append(s, n) \in Seq(Nat) /\ Len(Append(s, n)) = 2
         /\ Append(s, n)[1] = s[1] /\ Append(s, n)[2] = n
  <1>1. Append(s, n)[1] = s[1]
    BY AppendProperties
  <1>2. Len(s) + 1 = 2
    OBVIOUS
  <1> QED BY <1>1, <1>2, AppendIs, Zenon

LEMMA ReaderNext ==
  ASSUME CountInv, ReaderInv, [StatusNext]_statusVars
  PROVE  ReaderInv'
  <1>1. Len(Fields) = 2 /\ Fields[1] = "active" /\ Fields[2] = "queued"
    BY DEF Fields
  <1>2. CASE BeginPoll
    <2>1. Occupancy' = Occupancy
      BY <1>2 DEF BeginPoll, daemonVars, threadVars, Occupancy, Waiting, Computing, Inside, At
    <2> QED BY <1>2, <2>1 DEF BeginPoll, ReaderInv
  <1>3. CASE Load
    <2>1. /\ steady' = steady /\ Occupancy' = Occupancy /\ Len(snapshot) \in {0, 1}
          /\ steady \subseteq Occupancy
      BY <1>1, <1>3
         DEF Load, Done, ReaderInv, daemonVars, threadVars, Occupancy, Waiting, Computing, Inside,
             At
    <2>2. CASE Len(snapshot) = 0
      <3>1. snapshot' = Append(snapshot, active) /\ active \in Nat
        BY <1>1, <1>3, <2>2, CountIs DEF Load, Counter, CountInv, ActiveOK
      <3>2. ASSUME NEW t \in Thread, <<t, "computing">> \in steady PROVE active # 0
        <4>1. pc[t] \in ActivePlaces
          BY <2>1, <3>2 DEF Occupancy, Computing, At, ActivePlaces
        <4> QED BY <4>1, SomebodyCounts DEF CountInv, ActiveOK
      <3>3. snapshot' \in Seq(Nat) /\ Len(snapshot') = 1 /\ snapshot'[1] = active
        BY <2>2, <3>1 DEF ReaderInv
      <3>4. (\E t \in Thread : <<t, "computing">> \in steady') => snapshot'[1] # 0
        BY <2>1, <3>2, <3>3
      <3> QED BY <2>1, <3>3, <3>4 DEF ReaderInv
    <2>3. CASE Len(snapshot) = 1
      <3>1. snapshot' = Append(snapshot, queued) /\ queued \in Nat
        BY <1>1, <1>3, <2>3 DEF Load, Counter, CountInv, QueuedOK
      <3>2. ASSUME NEW t \in Thread, <<t, "waiting">> \in steady PROVE queued # 0
        <4>1. pc[t] \in QueuedPlaces
          BY <2>1, <3>2 DEF Occupancy, Waiting, At, QueuedPlaces
        <4> QED BY <4>1, SomebodyCounts, CountIs DEF CountInv, QueuedOK
      <3>3. /\ snapshot' \in Seq(Nat) /\ Len(snapshot') = 2
            /\ snapshot'[1] = snapshot[1] /\ snapshot'[2] = queued
        <4>1. snapshot \in Seq(Nat)
          BY DEF ReaderInv
        <4> QED BY <2>3, <3>1, <4>1, AppendSecond, Zenon
      <3>4. (\E t \in Thread : <<t, "waiting">> \in steady') => snapshot'[2] # 0
        BY <2>1, <3>2, <3>3
      <3>5. (\E t \in Thread : <<t, "computing">> \in steady') => snapshot'[1] # 0
        BY <2>1, <2>3, <3>3 DEF ReaderInv
      <3>6. ~(Len(snapshot') < 2) /\ Len(snapshot') \in 0..2
        BY <3>3
      <3> QED BY <3>3, <3>4, <3>5, <3>6, Zenon DEF ReaderInv
    <2> QED BY <2>1, <2>2, <2>3
  <1>4. CASE /\ Next
             /\ steady' = IF Done(snapshot) THEN steady ELSE steady \cap Occupancy'
             /\ UNCHANGED snapshot
    <2>1. steady' \subseteq steady /\ (Len(snapshot) < 2 => steady' \subseteq Occupancy')
      BY <1>1, <1>4 DEF Done
    <2> QED BY <1>4, <2>1 DEF ReaderInv
  <1>5. CASE UNCHANGED statusVars
    BY <1>5 DEF statusVars, readerVars, daemonVars, threadVars, ReaderInv, Occupancy, Waiting,
                Computing, Inside, At
  <1> QED BY <1>2, <1>3, <1>4, <1>5 DEF StatusNext

(* A job that waits, or computes, throughout a status request is in the    *)
(* value of its counter, for every number of threads.                      *)
THEOREM SteadyWorkReported == StatusSpec => []SteadyWorkIsSeen
  <1>1. StatusInit => CountInv /\ ReaderInv
    BY InitCounts DEF StatusInit, ReaderInv
  <1>2. CountInv /\ ReaderInv /\ [StatusNext]_statusVars => CountInv' /\ ReaderInv'
    <2> SUFFICES ASSUME CountInv, ReaderInv, [StatusNext]_statusVars PROVE CountInv' /\ ReaderInv'
      OBVIOUS
    <2>1. [Next]_daemonVars
      BY DEF StatusNext, BeginPoll, Load, statusVars
    <2> QED BY <2>1, CountNext, ReaderNext
  <1>3. ReaderInv => SteadyWorkIsSeen
    <2>1. \A s : Value(s, "active") = s[1] /\ Value(s, "queued") = s[2]
      BY DEF Value, Fields
    <2> QED BY <2>1 DEF ReaderInv, SteadyWorkIsSeen, Done, Fields
  <1> QED BY <1>1, <1>2, <1>3, PTL DEF StatusSpec
=============================================================================
