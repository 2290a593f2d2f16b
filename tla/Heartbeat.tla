----------------------------- MODULE Heartbeat ------------------------------
(***************************************************************************)
(* Sequence bookkeeping of blitter_heartbeat.py: one announcing node that  *)
(* may be restarted, UDP in between, one listener.  A datagram is sent     *)
(* once and may be lost, arrive twice, or arrive after later ones: what    *)
(* was put on the network stays there and may arrive at any time.          *)
(*                                                                         *)
(* Presence models what a heartbeat says and how long it counts.  Left out *)
(* here: its contents, validate_heartbeat (a datagram it refuses changes   *)
(* nothing), and the output other than the three sequence annotations.     *)
(***************************************************************************)
EXTENDS Naturals, FiniteSets, Sequences, SequencesExt

CONSTANTS MaxSeq,    \* bound on the heartbeats of one process
          MaxStarts  \* bound on the announcer processes

ASSUME HeartbeatAssumption == /\ MaxSeq \in Nat \ {0}
                              /\ MaxStarts \in Nat \ {0}

VARIABLES idGiven,   \* --instance-id: a restart keeps the id
          start,     \* the announcer process now running
          seq,       \* its heartbeat_seq
          network,   \* the datagrams that may still arrive
          previous,  \* run_listen's dictionary; 0: no entry
          heard,     \* observer: the datagrams this listener has received
          clean,     \* observer: those neither duplicate nor reordered,
                     \* in order of arrival, for each instance id
          gaps,      \* observer: the sum of their sequence_gap
          last       \* observer: the latest annotated datagram

listener == <<previous, heard, clean, gaps, last>>
announcer == <<idGiven, start, seq>>
heartbeatVars == <<announcer, network, listener>>

\* run_announce makes an id of its own from its start time and pid.
InstanceOf(process) == IF idGiven THEN 1 ELSE process
Instance == 1..MaxStarts

Datagram == [process : 1..MaxStarts, seq : 1..MaxSeq]
Nothing == [datagram |-> [process |-> 0, seq |-> 0], duplicate |-> FALSE, reordered |-> FALSE]

\* d was sent after e.
SentAfter(d, e) == d.process > e.process \/ (d.process = e.process /\ d.seq > e.seq)

NewListener == /\ previous = [i \in Instance |-> 0]
               /\ heard = {}
               /\ clean = [i \in Instance |-> <<>>]
               /\ gaps = [i \in Instance |-> 0]
               /\ last = Nothing

Init == /\ idGiven \in BOOLEAN
        /\ start = 1
        /\ seq = 0
        /\ network = {}
        /\ NewListener

-----------------------------------------------------------------------------
\* One turn of run_announce; sendto may fail, which is only printed.
Announce ==
  /\ seq < MaxSeq
  /\ seq' = seq + 1
  /\ \/ network' = network \cup {[process |-> start, seq |-> seq']}
     \/ UNCHANGED network
  /\ UNCHANGED <<idGiven, start, listener>>

RestartAnnouncer ==
  /\ start < MaxStarts
  /\ start' = start + 1
  /\ seq' = 0
  /\ UNCHANGED <<idGiven, network, listener>>

\* annotate_received, from the entry before
Duplicate(d, before) == before # 0 /\ d.seq = before

\* Mutant of Reordered: off by one.
ReorderedOffByOne(d, before) == before # 0 /\ d.seq <= before

Reordered(d, before) == before # 0 /\ d.seq < before

\* Mutant of Gap: every step counts.
GapOfSteps(d, before) == IF before = 0 THEN 0 ELSE d.seq - before

Gap(d, before) == IF before = 0 THEN 0 ELSE d.seq - before - 1

\* Mutant of Receive: the entry follows every datagram.
ReceiveRemembersAll(d) ==
  LET i == InstanceOf(d.process)
      before == previous[i]
      ordered == ~Duplicate(d, before) /\ ~Reordered(d, before)
  IN /\ d \in network
     /\ previous' = [previous EXCEPT ![i] = d.seq]
     /\ heard' = heard \cup {d}
     /\ clean' = IF ordered THEN [clean EXCEPT ![i] = Append(@, d)] ELSE clean
     /\ gaps' = IF ordered THEN [gaps EXCEPT ![i] = @ + Gap(d, before)] ELSE gaps
     /\ last' = [datagram |-> d, duplicate |-> Duplicate(d, before),
                 reordered |-> Reordered(d, before)]
     /\ UNCHANGED <<announcer, network>>

\* One turn of run_listen on a valid heartbeat.
Receive(d) ==
  LET i == InstanceOf(d.process)
      before == previous[i]
      ordered == ~Duplicate(d, before) /\ ~Reordered(d, before)
  IN /\ d \in network
     /\ previous' = IF ordered THEN [previous EXCEPT ![i] = d.seq] ELSE previous
     /\ heard' = heard \cup {d}
     /\ clean' = IF ordered THEN [clean EXCEPT ![i] = Append(@, d)] ELSE clean
     /\ gaps' = IF ordered THEN [gaps EXCEPT ![i] = @ + Gap(d, before)] ELSE gaps
     /\ last' = [datagram |-> d, duplicate |-> Duplicate(d, before),
                 reordered |-> Reordered(d, before)]
     /\ UNCHANGED <<announcer, network>>

\* A new listener process knows nothing of the datagrams before it.
RestartListener ==
  /\ previous' = [i \in Instance |-> 0]
  /\ heard' = {}
  /\ clean' = [i \in Instance |-> <<>>]
  /\ gaps' = [i \in Instance |-> 0]
  /\ last' = Nothing
  /\ UNCHANGED <<announcer, network>>

Next == \/ Announce
        \/ RestartAnnouncer
        \/ \E d \in Datagram : Receive(d)
        \/ RestartListener

Spec == Init /\ [][Next]_heartbeatVars

-----------------------------------------------------------------------------
TypeOK == /\ idGiven \in BOOLEAN
          /\ start \in 1..MaxStarts
          /\ seq \in 0..MaxSeq
          /\ network \subseteq Datagram
          /\ previous \in [Instance -> 0..MaxSeq]
          /\ heard \subseteq network
          /\ clean \in [Instance -> Seq(Datagram)]
          /\ \A i \in Instance :
               previous[i] = IF clean[i] = <<>> THEN 0 ELSE Last(clean[i]).seq
          /\ gaps \in [Instance -> Nat]
          /\ last.datagram \in Datagram \/ last = Nothing

(* What the listener passes on as in order really is: the unflagged        *)
(* heartbeats of an instance come in the order in which they were sent,    *)
(* each once, whatever the network did to the others.  Not so across a     *)
(* restart under an id given by the operator: the old process may be heard *)
(* after the new one.                                                      *)
CleanStreamIsInOrder ==
  ~idGiven =>
    \A i \in Instance : \A k \in 1..Len(clean[i]) - 1 :
      SentAfter(clean[i][k + 1], clean[i][k])

(* The gaps add up: with the unflagged heartbeats they make the span from  *)
(* the first to the latest, so no loss is counted twice or missed.         *)
GapsAccountForLoss ==
  \A i \in Instance : clean[i] # <<>> =>
    gaps[i] + Len(clean[i]) = Last(clean[i]).seq - Head(clean[i]).seq + 1

(* "`instance_id` prevents a sender restart and sequence reset from being  *)
(* misclassified as reordering" (STATUS_API.md:244), as long as the sender *)
(* makes it: a heartbeat is called reordered only if one that was sent     *)
(* after it has been here before, and duplicate only if it has itself.     *)
FlagsTellTheTruth ==
  ~idGiven =>
    /\ last.reordered => \E d \in heard : SentAfter(d, last.datagram)
    /\ last.duplicate => \E i \in Instance : \E k \in 1..Len(clean[i]) :
                          clean[i][k] = last.datagram
=============================================================================
