-------------------------- MODULE HeartbeatProofs ---------------------------
(***************************************************************************)
(* Any number of heartbeats and of announcer processes.  The three         *)
(* invariants speak of the whole stream of unflagged heartbeats, but the   *)
(* listener keeps one number per instance: TypeOK says that this number is *)
(* the end of the stream, and Streamed that the stream climbs, holds what  *)
(* was heard, and of one process only unless an operator gave the id.      *)
(***************************************************************************)
EXTENDS Heartbeat, TLAPS

Streamed(i) ==
  /\ \A k \in 1..Len(clean[i]) : /\ clean[i][k] \in heard
                                 /\ ~idGiven => clean[i][k].process = i
  /\ \A k \in 1..Len(clean[i]) - 1 : clean[i][k].seq < clean[i][k + 1].seq
  /\ clean[i] = <<>> => gaps[i] = 0

StreamInvariant == /\ TypeOK
                   /\ \A i \in Instance : Streamed(i)
                   /\ GapsAccountForLoss
                   /\ FlagsTellTheTruth

-----------------------------------------------------------------------------
LEMMA StreamInit == Init => StreamInvariant
  <1> SUFFICES ASSUME Init PROVE StreamInvariant
    OBVIOUS
  <1>1. /\ previous = [i \in Instance |-> 0] /\ heard = {} /\ network = {}
        /\ clean = [i \in Instance |-> <<>>] /\ gaps = [i \in Instance |-> 0]
        /\ last = Nothing /\ start = 1 /\ seq = 0 /\ idGiven \in BOOLEAN
    BY DEF Init, NewListener
  <1>2. TypeOK
    BY <1>1, HeartbeatAssumption DEF TypeOK
  <1>3. \A i \in Instance : Streamed(i)
    BY <1>1 DEF Streamed
  <1> QED BY <1>1, <1>2, <1>3 DEF StreamInvariant, GapsAccountForLoss, FlagsTellTheTruth, Nothing

\* The listener alone matters, and what is on the network only grows.
LEMMA SenderKeeps ==
  ASSUME StreamInvariant, UNCHANGED <<idGiven, listener>>, TypeOK'
  PROVE  StreamInvariant'
  BY DEF StreamInvariant, Streamed, GapsAccountForLoss, FlagsTellTheTruth, SentAfter, listener

LEMMA SenderTypes ==
  ASSUME TypeOK, Announce \/ RestartAnnouncer
  PROVE  TypeOK'
  <1>1. CASE Announce
    <2>1. seq' \in 1..MaxSeq /\ seq' = seq + 1
      BY <1>1, HeartbeatAssumption DEF Announce, TypeOK
    <2>2. [process |-> start, seq |-> seq'] \in Datagram
      BY <2>1 DEF Datagram, TypeOK
    <2> QED BY <1>1, <2>1, <2>2 DEF Announce, TypeOK, listener
  <1>2. CASE RestartAnnouncer
    BY <1>2, HeartbeatAssumption DEF RestartAnnouncer, TypeOK, listener
  <1> QED BY <1>1, <1>2

LEMMA ListenerRestartKeeps ==
  ASSUME StreamInvariant, RestartListener
  PROVE  StreamInvariant'
  <1>1. /\ previous' = [i \in Instance |-> 0] /\ heard' = {}
        /\ clean' = [i \in Instance |-> <<>>] /\ gaps' = [i \in Instance |-> 0]
        /\ last' = Nothing /\ UNCHANGED <<idGiven, start, seq, network>>
    BY DEF RestartListener, announcer
  <1>2. TypeOK'
    <2>1. clean' \in [Instance -> Seq(Datagram)] /\ previous' \in [Instance -> 0..MaxSeq]
      BY <1>1, HeartbeatAssumption
    <2>2. \A i \in Instance : clean'[i] = <<>> /\ previous'[i] = 0
      BY <1>1
    <2> QED BY <1>1, <2>1, <2>2 DEF TypeOK, StreamInvariant
  <1>3. \A i \in Instance : Streamed(i)'
    BY <1>1 DEF Streamed
  <1> QED BY <1>1, <1>2, <1>3 DEF StreamInvariant, GapsAccountForLoss, FlagsTellTheTruth, Nothing

LEMMA InstanceIsOne ==
  ASSUME TypeOK, NEW process \in 1..MaxStarts
  PROVE  InstanceOf(process) \in Instance
  BY HeartbeatAssumption DEF InstanceOf, Instance, TypeOK

\* A flagged heartbeat leaves the stream as it is.
LEMMA FlaggedKeeps ==
  ASSUME StreamInvariant, NEW d \in Datagram, Receive(d),
         Duplicate(d, previous[InstanceOf(d.process)])
           \/ Reordered(d, previous[InstanceOf(d.process)])
  PROVE  StreamInvariant'
  <1>i. PICK i \in Instance : i = InstanceOf(d.process)
    <2>1. TypeOK /\ d.process \in 1..MaxStarts
      BY DEF StreamInvariant, Datagram
    <2> QED BY <2>1, InstanceIsOne
  <1>0. TypeOK /\ Streamed(i) /\ (~idGiven => d.process = i)
    BY <1>i DEF StreamInvariant, InstanceOf
  <1>1. /\ d \in network /\ UNCHANGED <<previous, clean, gaps, idGiven, start, seq, network>>
        /\ heard' = heard \cup {d}
        /\ last' = [datagram |-> d, duplicate |-> Duplicate(d, previous[i]),
                    reordered |-> Reordered(d, previous[i])]
        /\ Duplicate(d, previous[i]) \/ Reordered(d, previous[i])
    BY <1>i DEF Receive, announcer
  <1>2. /\ previous[i] # 0 /\ clean[i] # <<>> /\ previous[i] = Last(clean[i]).seq
        /\ clean[i] \in Seq(Datagram)
    BY <1>0, <1>1 DEF Duplicate, Reordered, TypeOK
  <1> DEFINE n == Len(clean[i])
  <1>3. /\ n \in 1..n /\ clean[i][n] \in Datagram /\ clean[i][n].seq = previous[i]
        /\ clean[i][n] \in heard /\ (~idGiven => clean[i][n].process = i)
    BY <1>0, <1>2 DEF Last, Streamed
  <1>4. ~idGiven => clean[i][n].process = d.process
    BY <1>0, <1>3
  <1>5. TypeOK'
    BY <1>0, <1>1 DEF TypeOK
  <1>6. \A j \in Instance : Streamed(j)'
    BY <1>1 DEF Streamed, StreamInvariant
  <1>7. GapsAccountForLoss'
    BY <1>1 DEF GapsAccountForLoss, StreamInvariant
  <1>8. FlagsTellTheTruth'
    <2> SUFFICES ASSUME ~idGiven
                 PROVE /\ last'.reordered => \E e \in heard' : SentAfter(e, last'.datagram)
                       /\ last'.duplicate => \E j \in Instance : \E k \in 1..Len(clean[j]) :
                                              clean[j][k] = last'.datagram
      BY <1>1 DEF FlagsTellTheTruth, SentAfter
    <2>1. last'.datagram = d /\ last'.duplicate = Duplicate(d, previous[i])
          /\ last'.reordered = Reordered(d, previous[i])
      BY <1>1
    <2>2. Reordered(d, previous[i]) => SentAfter(clean[i][n], d)
      BY <1>3, <1>4 DEF Reordered, SentAfter, Datagram
    <2>3. Duplicate(d, previous[i]) => clean[i][n] = d
      BY <1>3, <1>4 DEF Duplicate, Datagram
    <2> QED BY <1>0, <1>1, <1>3, <2>1, <2>2, <2>3
  <1> QED BY <1>5, <1>6, <1>7, <1>8 DEF StreamInvariant

\* One that is not flagged is later than all before it.
LEMMA OrderedKeeps ==
  ASSUME StreamInvariant, NEW d \in Datagram, Receive(d),
         ~Duplicate(d, previous[InstanceOf(d.process)]),
         ~Reordered(d, previous[InstanceOf(d.process)])
  PROVE  StreamInvariant'
  <1>i. PICK i \in Instance : i = InstanceOf(d.process)
    <2>1. TypeOK /\ d.process \in 1..MaxStarts
      BY DEF StreamInvariant, Datagram
    <2> QED BY <2>1, InstanceIsOne
  <1> DEFINE before == previous[i]
             n == Len(clean[i])
  <1>0. TypeOK /\ Streamed(i) /\ (~idGiven => d.process = i)
    BY <1>i DEF StreamInvariant, InstanceOf
  <1>1. /\ d \in network /\ UNCHANGED <<idGiven, start, seq, network>>
        /\ heard' = heard \cup {d}
        /\ previous' = [previous EXCEPT ![i] = d.seq]
        /\ clean' = [clean EXCEPT ![i] = Append(clean[i], d)]
        /\ gaps' = [gaps EXCEPT ![i] = gaps[i] + Gap(d, before)]
        /\ last' = [datagram |-> d, duplicate |-> Duplicate(d, before),
                    reordered |-> Reordered(d, before)]
        /\ ~Duplicate(d, before) /\ ~Reordered(d, before)
    BY <1>i DEF Receive, announcer
  <1>2. /\ clean[i] \in Seq(Datagram) /\ before \in Nat /\ gaps[i] \in Nat
        /\ d.seq \in 1..MaxSeq /\ n \in Nat
        /\ clean[i] = <<>> => before = 0
        /\ clean[i] # <<>> => before = Last(clean[i]).seq
    <2>1. clean[i] \in Seq(Datagram) /\ previous[i] \in 0..MaxSeq /\ gaps[i] \in Nat
      BY <1>0 DEF TypeOK
    <2>2. previous[i] = IF clean[i] = <<>> THEN 0 ELSE Last(clean[i]).seq
      BY <1>0 DEF TypeOK
    <2>3. d.seq \in 1..MaxSeq
      BY DEF Datagram
    <2> QED BY <2>1, <2>2, <2>3, HeartbeatAssumption
  <1>3. /\ clean'[i] = Append(clean[i], d) /\ previous'[i] = d.seq
        /\ gaps'[i] = gaps[i] + Gap(d, before)
        /\ \A j \in Instance \ {i} : /\ clean'[j] = clean[j] /\ previous'[j] = previous[j]
                                     /\ gaps'[j] = gaps[j]
    BY <1>0, <1>1 DEF TypeOK
  <1>4. /\ Len(clean'[i]) = n + 1 /\ clean'[i][n + 1] = d /\ clean'[i] # <<>>
        /\ \A k \in 1..n : clean'[i][k] = clean[i][k]
        /\ Last(clean'[i]) = d
    BY <1>2, <1>3 DEF Last
  <1>5. clean[i] # <<>> => /\ n \in 1..n /\ clean[i][n] \in Datagram
                           /\ before = clean[i][n].seq /\ d.seq > before
                           /\ before \in 1..MaxSeq
    <2> SUFFICES ASSUME clean[i] # <<>>
                 PROVE /\ n \in 1..n /\ clean[i][n] \in Datagram
                       /\ before = clean[i][n].seq /\ d.seq > before
                       /\ before \in 1..MaxSeq
      OBVIOUS
    <2>1. n \in 1..n /\ clean[i][n] \in Datagram /\ before = clean[i][n].seq
      BY <1>2 DEF Last
    <2>2. clean[i][n].seq \in 1..MaxSeq
      BY <2>1 DEF Datagram
    <2>3. d.seq > before
      BY <1>1, <1>2, <2>1, <2>2 DEF Duplicate, Reordered
    <2> QED BY <2>1, <2>2, <2>3
  <1>6. TypeOK'
    <2>1. clean' \in [Instance -> Seq(Datagram)] /\ previous' \in [Instance -> 0..MaxSeq]
      BY <1>0, <1>1, <1>2 DEF TypeOK
    <2>2. \A j \in Instance :
            previous'[j] = IF clean'[j] = <<>> THEN 0 ELSE Last(clean'[j]).seq
      BY <1>0, <1>3, <1>4 DEF TypeOK
    <2>3. Gap(d, before) \in Nat
      BY <1>2, <1>5 DEF Gap
    <2>4. gaps' \in [Instance -> Nat]
      BY <1>0, <1>1, <1>2, <2>3 DEF TypeOK
    <2>5. last'.datagram \in Datagram /\ heard' \subseteq network'
      BY <1>0, <1>1 DEF TypeOK
    <2> QED BY <1>0, <1>1, <2>1, <2>2, <2>4, <2>5 DEF TypeOK
  <1>7. \A j \in Instance : Streamed(j)'
    <2>1. Streamed(i)'
      <3>1. \A k \in 1..n + 1 : /\ clean'[i][k] \in heard'
                                /\ ~idGiven => clean'[i][k].process = i
        BY <1>0, <1>1, <1>2, <1>4 DEF Streamed
      <3>2. \A k \in 1..n : clean'[i][k].seq < clean'[i][k + 1].seq
        <4> TAKE k \in 1..n
        <4>1. CASE k = n
          BY <1>2, <1>4, <1>5, <4>1
        <4>2. CASE k < n
          <5>1. k \in 1..Len(clean[i]) - 1 /\ k \in 1..n /\ k + 1 \in 1..n
            BY <1>2, <4>2
          <5>2. clean[i][k].seq < clean[i][k + 1].seq
            BY <1>0, <5>1 DEF Streamed
          <5> QED BY <1>4, <5>1, <5>2
        <4> QED BY <1>2, <4>1, <4>2
      <3>3. Len(clean'[i]) = n + 1 /\ Len(clean'[i]) - 1 = n /\ clean'[i] # <<>>
        BY <1>2, <1>4
      <3> HIDE DEF n
      <3> QED BY <1>1, <3>1, <3>2, <3>3 DEF Streamed
    <2>2. \A j \in Instance \ {i} : Streamed(j)'
      BY <1>1, <1>3 DEF Streamed, StreamInvariant
    <2> QED BY <2>1, <2>2
  <1>8. GapsAccountForLoss'
    <2>1. gaps'[i] + Len(clean'[i]) = Last(clean'[i]).seq - Head(clean'[i]).seq + 1
      <3>1. CASE clean[i] = <<>>
        <4>1. gaps[i] = 0
          BY <1>0, <3>1 DEF Streamed
        <4> QED BY <1>2, <1>3, <1>4, <3>1, <4>1 DEF Gap
      <3>2. CASE clean[i] # <<>>
        <4>1. gaps[i] + n = before - Head(clean[i]).seq + 1
          BY <1>0, <1>2, <3>2 DEF StreamInvariant, GapsAccountForLoss
        <4>2. Head(clean'[i]) = Head(clean[i]) /\ Head(clean[i]) \in Datagram
          BY <1>2, <1>4, <1>5, <3>2
        <4>3. Gap(d, before) = d.seq - before - 1
          BY <1>5, <3>2 DEF Gap
        <4>4. Head(clean[i]).seq \in Nat /\ before \in Nat /\ d.seq \in Nat
          BY <1>2, <4>2 DEF Datagram
        <4>5. gaps'[i] = gaps[i] + (d.seq - before - 1) /\ Len(clean'[i]) = n + 1
          BY <1>3, <1>4, <4>3
        <4>6. Last(clean'[i]).seq = d.seq /\ Head(clean'[i]).seq = Head(clean[i]).seq
          BY <1>4, <4>2
        <4>7. gaps[i] \in Int /\ n \in Int
          BY <1>2
        <4>8. gaps[i] + (d.seq - before - 1) + (n + 1) = d.seq - Head(clean[i]).seq + 1
          <5> HIDE DEF n, before
          <5> QED BY <4>1, <4>4, <4>7
        <4> QED BY <4>5, <4>6, <4>8
      <3> QED BY <3>1, <3>2
    <2> QED BY <1>3, <2>1 DEF GapsAccountForLoss, StreamInvariant
  <1>9. FlagsTellTheTruth'
    BY <1>1 DEF FlagsTellTheTruth
  <1> QED BY <1>6, <1>7, <1>8, <1>9 DEF StreamInvariant

LEMMA StreamNext == StreamInvariant /\ [Next]_heartbeatVars => StreamInvariant'
  <1> SUFFICES ASSUME StreamInvariant, [Next]_heartbeatVars PROVE StreamInvariant'
    OBVIOUS
  <1>1. CASE Announce \/ RestartAnnouncer
    <2>1. TypeOK' /\ UNCHANGED <<idGiven, listener>>
      BY <1>1, SenderTypes DEF StreamInvariant, Announce, RestartAnnouncer
    <2> QED BY <2>1, SenderKeeps
  <1>2. ASSUME NEW d \in Datagram, Receive(d) PROVE StreamInvariant'
    BY <1>2, FlaggedKeeps, OrderedKeeps
  <1>3. CASE RestartListener
    BY <1>3, ListenerRestartKeeps
  <1>4. CASE UNCHANGED heartbeatVars
    BY <1>4, SenderKeeps DEF heartbeatVars, announcer, listener, StreamInvariant, TypeOK
  <1> QED BY <1>1, <1>2, <1>3, <1>4 DEF Next

LEMMA StreamInvariance == Spec => []StreamInvariant
  BY StreamInit, StreamNext, PTL DEF Spec

(* Unless an operator gave the id, what is not flagged was sent in the     *)
(* order in which it came.                                                 *)
THEOREM UnflaggedInOrder == Spec => []CleanStreamIsInOrder
  <1>1. StreamInvariant => CleanStreamIsInOrder
    <2> SUFFICES ASSUME StreamInvariant, ~idGiven, NEW i \in Instance,
                        NEW k \in 1..Len(clean[i]) - 1
                 PROVE SentAfter(clean[i][k + 1], clean[i][k])
      BY DEF CleanStreamIsInOrder
    <2>1. clean[i] \in Seq(Datagram) /\ Streamed(i)
      BY DEF StreamInvariant, TypeOK
    <2>2. k \in 1..Len(clean[i]) /\ k + 1 \in 1..Len(clean[i])
      BY <2>1
    <2>3. clean[i][k] \in Datagram /\ clean[i][k + 1] \in Datagram
      BY <2>1, <2>2
    <2> QED BY <2>1, <2>2, <2>3 DEF Streamed, SentAfter, Datagram
  <1> QED BY <1>1, StreamInvariance, PTL

(* The reported gaps and the unflagged heartbeats make up the whole span.  *)
THEOREM GapsAddUp == Spec => []GapsAccountForLoss
  <1>1. StreamInvariant => GapsAccountForLoss
    BY DEF StreamInvariant
  <1> QED BY <1>1, StreamInvariance, PTL

(* Unless an operator gave the id, no heartbeat is flagged wrongly.        *)
THEOREM FlagsAreTrue == Spec => []FlagsTellTheTruth
  <1>1. StreamInvariant => FlagsTellTheTruth
    BY DEF StreamInvariant
  <1> QED BY <1>1, StreamInvariance, PTL
=============================================================================
