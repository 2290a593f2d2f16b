------------------------- MODULE ImageDeployProofs -------------------------
(***************************************************************************)
(* Any number of pushes and deployments, checkouts, tags and files.        *)
(*                                                                         *)
(* RecordsAreTrue is not inductive: what a record says is put together     *)
(* over nine commands.  Faithful says what an undisturbed push has         *)
(* established when it has come so far, and Apart that two active pushes   *)
(* share a checkout or a tag only if both know.                            *)
(* Of a node, Holds says what a deployment knows of its record, Owned      *)
(* whose the stack is, and Foreseen that it is idle or the work in it      *)
(* began after the preflight of every deployment that is past it, but for  *)
(* those that docker did not answer.                                       *)
(***************************************************************************)
EXTENDS ImageDeploy, TLAPS

\* What an active push has read is there.
Known(p) ==
  Active(p) =>
    LET r == push[p]
    IN /\ r.checkout \in Checkout /\ r.tag \in Tag /\ r.out \in File
       /\ r.profile \in Locks /\ r.commit \in Source
       /\ r.at \in {"build", "publish", "inspect", "open", "write"} => r.daemon \in Source
       /\ r.at = "publish" => local[r.tag] \in Image
       /\ r.at = "inspect" => registry[r.tag] \in Image
       /\ r.at \in {"open", "write"} => r.digest \in Image

\* What an undisturbed push has read is that of its commit.
Faithful(p) ==
  Active(p) /\ push[p].clean =>
    LET r == push[p]
    IN /\ tree[r.checkout] = [head |-> r.commit, work |-> r.commit]
       /\ r.profile = Lock[r.commit]
       /\ r.at \in {"hash", "build"} => bin[r.checkout] = r.commit
       /\ r.at \in {"build", "publish", "inspect", "open", "write"} => r.daemon = r.commit
       /\ r.at = "publish" => local[r.tag] = BuiltFrom(r.commit)
       /\ r.at = "inspect" => registry[r.tag] = BuiltFrom(r.commit)
       /\ r.at \in {"open", "write"} => r.digest = BuiltFrom(r.commit)

Apart(p, q) ==
  (p # q /\ Active(p) /\ Active(q) /\ push[p].clean) =>
    push[p].checkout # push[q].checkout /\ push[p].tag # push[q].tag

PushInvariant == /\ PushTypeOK
                 /\ \A p \in Push : Known(p) /\ Faithful(p)
                 /\ \A p, q \in Push : Apart(p, q)
                 /\ RecordsAreTrue

-----------------------------------------------------------------------------
LEMMA PushInit == Init => PushInvariant
  <1> SUFFICES ASSUME Init PROVE PushInvariant
    OBVIOUS
  <1>1. Unstarted \in PushState
    BY DEF Unstarted, PushState, PushPC
  <1>2. PushTypeOK
    BY <1>1, DeployAssumption DEF Init, PushTypeOK
  <1>3. \A p \in Push : ~Active(p)
    BY DEF Init, Active, Unstarted
  <1> QED BY <1>2, <1>3 DEF Init, PushInvariant, Known, Faithful, Apart, RecordsAreTrue

\* A push that goes on within its checkout and its tag stays apart, and so
\* do the others.
LEMMA StaysApart ==
  ASSUME PushInvariant, NEW p \in Push, Active(p), NEW r,
         push' = [push EXCEPT ![p] = r],
         r.checkout = push[p].checkout, r.tag = push[p].tag, r.clean = push[p].clean
  PROVE \A q1, q2 \in Push : Apart(q1, q2)'
  <1> SUFFICES ASSUME NEW q1 \in Push, NEW q2 \in Push PROVE Apart(q1, q2)'
    OBVIOUS
  <1>1. /\ push'[q1].checkout = push[q1].checkout /\ push'[q1].tag = push[q1].tag
        /\ push'[q1].clean = push[q1].clean
    BY DEF PushInvariant, PushTypeOK
  <1>2. push'[q2].checkout = push[q2].checkout /\ push'[q2].tag = push[q2].tag
    BY DEF PushInvariant, PushTypeOK
  <1>3. (Active(q1)' => Active(q1)) /\ (Active(q2)' => Active(q2))
    BY DEF Active, PushInvariant, PushTypeOK
  <1> QED BY <1>1, <1>2, <1>3 DEF Apart, PushInvariant

\* What a push does in its own checkout and under its own tag leaves the
\* others as they were.
LEMMA OthersKeep ==
  ASSUME PushInvariant, NEW p \in Push, Active(p), NEW r,
         push' = [push EXCEPT ![p] = r], UNCHANGED tree,
         \A c \in Checkout : c # push[p].checkout => bin'[c] = bin[c],
         \A t \in Tag : t # push[p].tag => local'[t] = local[t] /\ registry'[t] = registry[t],
         \A t \in Tag : /\ local[t] \in Image => local'[t] \in Image
                        /\ registry[t] \in Image => registry'[t] \in Image
  PROVE \A q \in Push \ {p} : Known(q)' /\ Faithful(q)'
  <1> SUFFICES ASSUME NEW q \in Push \ {p} PROVE Known(q)' /\ Faithful(q)'
    OBVIOUS
  <1>1. push'[q] = push[q]
    BY DEF PushInvariant, PushTypeOK
  <1>2. Known(q) /\ Faithful(q) /\ Apart(q, p) /\ (Active(q)' <=> Active(q))
    BY <1>1 DEF PushInvariant, Active
  <1>3. Known(q)'
    <2> SUFFICES ASSUME Active(q) PROVE Known(q)'
      BY <1>2 DEF Known
    <2>1. push[q].tag \in Tag
      BY <1>2 DEF Known
    <2> QED BY <1>1, <1>2, <2>1 DEF Known
  <1>4. ASSUME Active(q), push[q].clean
        PROVE /\ bin'[push[q].checkout] = bin[push[q].checkout]
              /\ local'[push[q].tag] = local[push[q].tag]
              /\ registry'[push[q].tag] = registry[push[q].tag]
    <2>1. push[q].checkout \in Checkout /\ push[q].tag \in Tag
      BY <1>2, <1>4 DEF Known
    <2>2. push[q].checkout # push[p].checkout /\ push[q].tag # push[p].tag
      BY <1>2, <1>4 DEF Apart
    <2> QED BY <2>1, <2>2
  <1>5. Faithful(q)'
    <2> SUFFICES ASSUME Active(q)', push'[q].clean PROVE Faithful(q)'
      BY DEF Faithful
    <2>1. Active(q) /\ push[q].clean
      BY <1>1, <1>2
    <2> QED BY <1>1, <1>2, <1>4, <2>1 DEF Faithful
  <1> QED BY <1>3, <1>5

\* The next command: nothing but the place in the script changes.
LEMMA Proceeds ==
  ASSUME PushInvariant, NEW p \in Push, NEW next \in PushPC, To(p, next)
  PROVE /\ push' = [push EXCEPT ![p] = push'[p]]
        /\ push' \in [Push -> PushState]
        /\ push'[p].at = next
        /\ push'[p].checkout = push[p].checkout /\ push'[p].tag = push[p].tag
        /\ push'[p].out = push[p].out /\ push'[p].profile = push[p].profile
        /\ push'[p].commit = push[p].commit /\ push'[p].daemon = push[p].daemon
        /\ push'[p].digest = push[p].digest /\ push'[p].clean = push[p].clean
  <1>1. push \in [Push -> PushState] /\ push[p] \in PushState
    BY DEF PushInvariant, PushTypeOK
  <1>2. push'[p] = [push[p] EXCEPT !.at = next] /\ push' = [push EXCEPT ![p] = push'[p]]
    BY <1>1 DEF To
  <1>3. push'[p] \in PushState
    BY <1>1, <1>2 DEF PushState
  <1>4. push' \in [Push -> PushState]
    BY <1>1, <1>2, <1>3
  <1> QED BY <1>1, <1>2, <1>4 DEF PushState

LEMMA CompileKeeps ==
  ASSUME PushInvariant, NEW p \in Push, Compile(p)
  PROVE PushInvariant'
  <1> DEFINE c == push[p].checkout
  <1>1. Active(p) /\ push[p] \in PushState /\ "hash" \in PushPC /\ To(p, "hash")
    BY DEF Compile, Active, PushInvariant, PushTypeOK, PushPC
  <1>2. c \in Checkout /\ tree[c].work \in Source
    BY <1>1 DEF PushInvariant, Known, PushTypeOK
  <1>3. bin' = [bin EXCEPT ![c] = tree[c].work] /\ UNCHANGED <<tree, local, registry, files>>
    BY DEF Compile
  <1>4. PushTypeOK'
    <2>1. bin' \in [Checkout -> Source \cup {Nothing}]
      BY <1>2, <1>3 DEF PushInvariant, PushTypeOK
    <2> QED BY <1>1, <2>1, Proceeds DEF Compile, PushInvariant, PushTypeOK
  <1>5. \A q1, q2 \in Push : Apart(q1, q2)'
    BY <1>1, StaysApart, Proceeds
  <1>6. \A q \in Push \ {p} : Known(q)' /\ Faithful(q)'
    <2>1. \A b \in Checkout : b # c => bin'[b] = bin[b]
      BY <1>3 DEF PushInvariant, PushTypeOK
    <2> QED BY <1>1, <1>3, <2>1, OthersKeep, Proceeds
  <1>7. Known(p)'
    BY <1>1, Proceeds DEF Known, PushInvariant
  <1>8. Faithful(p)'
    <2>1. bin'[c] = tree[c].work
      BY <1>2, <1>3 DEF PushInvariant, PushTypeOK
    <2> QED BY <1>1, <1>3, <2>1, Proceeds DEF Faithful, PushInvariant
  <1>9. RecordsAreTrue'
    BY <1>3 DEF RecordsAreTrue, PushInvariant, True
  <1> QED BY <1>4, <1>5, <1>6, <1>7, <1>8, <1>9 DEF PushInvariant

LEMMA HashKeeps ==
  ASSUME PushInvariant, NEW p \in Push, Hash(p)
  PROVE PushInvariant'
  <1> DEFINE sum == bin[push[p].checkout]
             r == [push[p] EXCEPT !.daemon = sum, !.at = "build"]
  <1>1. Active(p) /\ push[p] \in PushState /\ push \in [Push -> PushState]
    BY DEF Hash, Active, PushInvariant, PushTypeOK
  <1>2. UNCHANGED <<tree, bin, local, registry, files, edits>> /\ push[p].at = "hash"
    BY DEF Hash
  <1>3. sum \in Source
    BY <1>1 DEF Hash, PushInvariant, PushTypeOK, Known
  <1>4. r \in PushState
    BY <1>1, <1>3 DEF PushState, PushPC
  <1>5. push' = [push EXCEPT ![p] = r]
    BY <1>1 DEF Hash
  <1>6. /\ push'[p].at = "build" /\ push'[p].daemon = sum
        /\ push'[p].checkout = push[p].checkout /\ push'[p].tag = push[p].tag
        /\ push'[p].out = push[p].out /\ push'[p].profile = push[p].profile
        /\ push'[p].commit = push[p].commit /\ push'[p].clean = push[p].clean
    BY <1>1, <1>5 DEF PushState
  <1>7. PushTypeOK'
    <2>1. push' \in [Push -> PushState]
      BY <1>1, <1>4, <1>5
    <2> QED BY <1>2, <2>1 DEF PushInvariant, PushTypeOK
  <1>8. \A q1, q2 \in Push : Apart(q1, q2)'
    <2>1. /\ r.checkout = push[p].checkout /\ r.tag = push[p].tag
          /\ r.clean = push[p].clean
      BY <1>1 DEF PushState
    <2> HIDE DEF r
    <2> QED BY <1>1, <1>5, <2>1, StaysApart
  <1>9. \A q \in Push \ {p} : Known(q)' /\ Faithful(q)'
    <2> HIDE DEF r
    <2> QED BY <1>1, <1>2, <1>5, OthersKeep
  <1>10. Known(p)' /\ Faithful(p)'
    BY <1>1, <1>2, <1>3, <1>6 DEF Known, Faithful, PushInvariant
  <1>11. RecordsAreTrue'
    BY <1>2 DEF RecordsAreTrue, PushInvariant, True
  <1> QED BY <1>7, <1>8, <1>9, <1>10, <1>11 DEF PushInvariant

LEMMA BuildKeeps ==
  ASSUME PushInvariant, NEW p \in Push, Build(p)
  PROVE PushInvariant'
  <1> DEFINE c == push[p].checkout
             t == push[p].tag
             image == [daemon |-> bin[c], rest |-> tree[c].work]
  <1>1. Active(p) /\ "publish" \in PushPC /\ To(p, "publish") /\ push[p].at = "build"
    BY DEF Build, Active, PushPC
  <1>2. c \in Checkout /\ t \in Tag
    BY <1>1 DEF PushInvariant, Known
  <1>3. image \in Image
    BY <1>2 DEF Build, PushInvariant, PushTypeOK, Image
  <1>4. local' = [local EXCEPT ![t] = image] /\ UNCHANGED <<tree, bin, registry, files, edits>>
    BY DEF Build
  <1>5. PushTypeOK'
    <2>1. local' \in [Tag -> Image \cup {Nothing}]
      BY <1>2, <1>3, <1>4 DEF PushInvariant, PushTypeOK
    <2> QED BY <1>1, <1>4, <2>1, Proceeds DEF PushInvariant, PushTypeOK
  <1>6. \A q1, q2 \in Push : Apart(q1, q2)'
    BY <1>1, StaysApart, Proceeds
  <1>7. local'[t] = image /\ \A u \in Tag : u # t => local'[u] = local[u]
    BY <1>2, <1>4 DEF PushInvariant, PushTypeOK
  <1>8. \A q \in Push \ {p} : Known(q)' /\ Faithful(q)'
    <2>1. \A u \in Tag : local[u] \in Image => local'[u] \in Image
      BY <1>3, <1>7
    <2> HIDE DEF image
    <2> QED BY <1>1, <1>4, <1>7, <2>1, OthersKeep, Proceeds
  <1>9. Known(p)'
    BY <1>1, <1>3, <1>7, Proceeds DEF Known, PushInvariant
  <1>10. Faithful(p)'
    BY <1>1, <1>4, <1>7, Proceeds DEF Faithful, PushInvariant, BuiltFrom
  <1>11. RecordsAreTrue'
    BY <1>4 DEF RecordsAreTrue, PushInvariant, True
  <1> QED BY <1>5, <1>6, <1>8, <1>9, <1>10, <1>11 DEF PushInvariant

LEMMA PublishKeeps ==
  ASSUME PushInvariant, NEW p \in Push, Publish(p)
  PROVE PushInvariant'
  <1> DEFINE t == push[p].tag
  <1>1. Active(p) /\ "inspect" \in PushPC /\ To(p, "inspect") /\ push[p].at = "publish"
    BY DEF Publish, Active, PushPC
  <1>2. t \in Tag /\ local[t] \in Image
    BY <1>1 DEF PushInvariant, Known
  <1>3. /\ registry' = [registry EXCEPT ![t] = local[t]]
        /\ UNCHANGED <<tree, bin, local, files, edits>>
    BY DEF Publish
  <1>4. PushTypeOK'
    <2>1. registry' \in [Tag -> Image \cup {Nothing}]
      BY <1>2, <1>3 DEF PushInvariant, PushTypeOK
    <2> QED BY <1>1, <1>3, <2>1, Proceeds DEF PushInvariant, PushTypeOK
  <1>5. \A q1, q2 \in Push : Apart(q1, q2)'
    BY <1>1, StaysApart, Proceeds
  <1>6. registry'[t] = local[t] /\ \A u \in Tag : u # t => registry'[u] = registry[u]
    BY <1>2, <1>3 DEF PushInvariant, PushTypeOK
  <1>7. \A q \in Push \ {p} : Known(q)' /\ Faithful(q)'
    <2>1. \A u \in Tag : registry[u] \in Image => registry'[u] \in Image
      BY <1>2, <1>6
    <2> QED BY <1>1, <1>3, <1>6, <2>1, OthersKeep, Proceeds
  <1>8. Known(p)'
    BY <1>1, <1>2, <1>6, Proceeds DEF Known, PushInvariant
  <1>9. Faithful(p)'
    BY <1>1, <1>3, <1>6, Proceeds DEF Faithful, PushInvariant
  <1>10. RecordsAreTrue'
    BY <1>3 DEF RecordsAreTrue, PushInvariant, True
  <1> QED BY <1>4, <1>5, <1>7, <1>8, <1>9, <1>10 DEF PushInvariant

LEMMA InspectKeeps ==
  ASSUME PushInvariant, NEW p \in Push, Inspect(p)
  PROVE PushInvariant'
  <1> DEFINE digest == registry[push[p].tag]
             r == [push[p] EXCEPT !.digest = digest, !.at = "open"]
  <1>1. Active(p) /\ push[p] \in PushState /\ push \in [Push -> PushState]
    BY DEF Inspect, Active, PushInvariant, PushTypeOK
  <1>2. UNCHANGED <<tree, bin, local, registry, files, edits>> /\ push[p].at = "inspect"
    BY DEF Inspect
  <1>3. digest \in Image
    BY <1>1, <1>2 DEF PushInvariant, Known
  <1>4. r \in PushState
    BY <1>1, <1>3 DEF PushState, PushPC
  <1>5. push' = [push EXCEPT ![p] = r]
    BY <1>1 DEF Inspect
  <1>6. /\ push'[p].at = "open" /\ push'[p].digest = digest
        /\ push'[p].checkout = push[p].checkout /\ push'[p].tag = push[p].tag
        /\ push'[p].out = push[p].out /\ push'[p].profile = push[p].profile
        /\ push'[p].commit = push[p].commit /\ push'[p].clean = push[p].clean
        /\ push'[p].daemon = push[p].daemon
    BY <1>1, <1>5 DEF PushState
  <1>7. PushTypeOK'
    <2>1. push' \in [Push -> PushState]
      BY <1>1, <1>4, <1>5
    <2> QED BY <1>2, <2>1 DEF PushInvariant, PushTypeOK
  <1>8. \A q1, q2 \in Push : Apart(q1, q2)'
    <2>1. /\ r.checkout = push[p].checkout /\ r.tag = push[p].tag
          /\ r.clean = push[p].clean
      BY <1>1 DEF PushState
    <2> HIDE DEF r
    <2> QED BY <1>1, <1>5, <2>1, StaysApart
  <1>9. \A q \in Push \ {p} : Known(q)' /\ Faithful(q)'
    <2> HIDE DEF r
    <2> QED BY <1>1, <1>2, <1>5, OthersKeep
  <1>10. Known(p)' /\ Faithful(p)'
    BY <1>1, <1>2, <1>3, <1>6 DEF Known, Faithful, PushInvariant
  <1>11. RecordsAreTrue'
    BY <1>2 DEF RecordsAreTrue, PushInvariant, True
  <1> QED BY <1>7, <1>8, <1>9, <1>10, <1>11 DEF PushInvariant

LEMMA OpenKeeps ==
  ASSUME PushInvariant, NEW p \in Push, Open(p)
  PROVE PushInvariant'
  <1>1. Active(p) /\ "write" \in PushPC /\ To(p, "write") /\ push[p].at = "open"
    BY DEF Open, Active, PushPC
  <1>2. push[p].out \in File
    BY <1>1 DEF PushInvariant, Known
  <1>3. /\ files' = [files EXCEPT ![push[p].out] = Torn]
        /\ UNCHANGED <<tree, bin, local, registry, edits>>
    BY DEF Open
  <1>4. PushTypeOK'
    <2>1. files' \in [File -> Record \cup {Nothing, Torn}]
      BY <1>3 DEF PushInvariant, PushTypeOK
    <2> QED BY <1>1, <1>3, <2>1, Proceeds DEF PushInvariant, PushTypeOK
  <1>5. \A q1, q2 \in Push : Apart(q1, q2)'
    BY <1>1, StaysApart, Proceeds
  <1>6. \A q \in Push \ {p} : Known(q)' /\ Faithful(q)'
    BY <1>1, <1>3, OthersKeep, Proceeds
  <1>7. Known(p)' /\ Faithful(p)'
    BY <1>1, <1>3, Proceeds DEF Known, Faithful, PushInvariant
  <1>8. RecordsAreTrue'
    BY <1>2, <1>3 DEF RecordsAreTrue, PushInvariant, PushTypeOK, True
  <1> QED BY <1>4, <1>5, <1>6, <1>7, <1>8 DEF PushInvariant

LEMMA WriteKeeps ==
  ASSUME PushInvariant, NEW p \in Push, Write(p)
  PROVE PushInvariant'
  <1>1. Active(p) /\ "check" \in PushPC /\ To(p, "check") /\ push[p].at = "write"
    BY DEF Write, Active, PushPC
  <1>2. push[p].out \in File /\ push[p] \in PushState
    BY <1>1 DEF PushInvariant, Known, PushTypeOK
  <1>3. /\ files' = [files EXCEPT ![push[p].out] = BuildRecord(p)]
        /\ UNCHANGED <<tree, bin, local, registry, edits>>
    BY DEF Write
  <1>4. BuildRecord(p) \in Record
    BY <1>1, <1>2 DEF BuildRecord, Record, PushInvariant, Known, PushState
  <1>5. PushTypeOK'
    <2>1. files' \in [File -> Record \cup {Nothing, Torn}]
      BY <1>3, <1>4 DEF PushInvariant, PushTypeOK
    <2> QED BY <1>1, <1>3, <2>1, Proceeds DEF PushInvariant, PushTypeOK
  <1>6. \A q1, q2 \in Push : Apart(q1, q2)'
    BY <1>1, StaysApart, Proceeds
  <1>7. \A q \in Push \ {p} : Known(q)' /\ Faithful(q)'
    BY <1>1, <1>3, OthersKeep, Proceeds
  <1>8. Known(p)' /\ Faithful(p)'
    BY <1>1, <1>3, Proceeds DEF Known, Faithful, PushInvariant
  <1>9. RecordsAreTrue'
    <2>1. BuildRecord(p).clean => True(BuildRecord(p))
      BY <1>1 DEF BuildRecord, True, PushInvariant, Faithful
    <2> SUFFICES ASSUME NEW f \in File, files'[f] \notin {Nothing, Torn}, files'[f].clean
                 PROVE True(files'[f])
      BY DEF RecordsAreTrue, True, BuiltFrom
    <2>2. CASE f = push[p].out
      BY <1>2, <1>3, <2>1, <2>2 DEF PushInvariant, PushTypeOK
    <2>3. CASE f # push[p].out
      BY <1>3, <2>3 DEF PushInvariant, PushTypeOK, RecordsAreTrue
    <2> QED BY <2>2, <2>3
  <1> QED BY <1>5, <1>6, <1>7, <1>8, <1>9 DEF PushInvariant

\* A push that is over, with the binary removed or left behind.
LEMMA DoneKeeps ==
  ASSUME PushInvariant, NEW p \in Push, Active(p), To(p, "done"),
         UNCHANGED <<tree, local, registry, files, edits>>,
         bin' = bin \/ bin' = [bin EXCEPT ![push[p].checkout] = Nothing]
  PROVE PushInvariant'
  <1>1. "done" \in PushPC
    BY DEF PushPC
  <1>2. push[p].checkout \in Checkout
    BY DEF PushInvariant, Known
  <1>3. PushTypeOK'
    <2>1. bin' \in [Checkout -> Source \cup {Nothing}]
      BY DEF PushInvariant, PushTypeOK
    <2> QED BY <1>1, <2>1, Proceeds DEF PushInvariant, PushTypeOK
  <1>4. \A q1, q2 \in Push : Apart(q1, q2)'
    BY <1>1, StaysApart, Proceeds
  <1>5. \A q \in Push \ {p} : Known(q)' /\ Faithful(q)'
    <2>1. \A c \in Checkout : c # push[p].checkout => bin'[c] = bin[c]
      BY DEF PushInvariant, PushTypeOK
    <2> QED BY <1>1, <2>1, OthersKeep, Proceeds
  <1>6. Known(p)' /\ Faithful(p)'
    BY <1>1, Proceeds DEF Known, Faithful, Active
  <1>7. RecordsAreTrue'
    BY DEF RecordsAreTrue, PushInvariant, True
  <1> QED BY <1>3, <1>4, <1>5, <1>6, <1>7 DEF PushInvariant

\* Whose checkout or tag is touched knows it from then on.
LEMMA DisturbedKnows ==
  ASSUME PushInvariant, NEW touched, NEW q \in Push
  PROVE /\ Disturbed(touched)[q] \in PushState
        /\ Disturbed(touched)[q].at = push[q].at
        /\ Disturbed(touched)[q].checkout = push[q].checkout
        /\ Disturbed(touched)[q].tag = push[q].tag
        /\ Disturbed(touched)[q].out = push[q].out
        /\ Disturbed(touched)[q].profile = push[q].profile
        /\ Disturbed(touched)[q].commit = push[q].commit
        /\ Disturbed(touched)[q].daemon = push[q].daemon
        /\ Disturbed(touched)[q].digest = push[q].digest
        /\ Disturbed(touched)[q].clean => push[q].clean
        /\ Disturbed(touched)[q].clean => (Active(q) => ~touched[q])
  <1>1. push[q] \in PushState
    BY DEF PushInvariant, PushTypeOK
  <1>2. CASE Active(q) /\ touched[q]
    <2>1. Disturbed(touched)[q] = [push[q] EXCEPT !.clean = FALSE]
      BY <1>2 DEF Disturbed
    <2> QED BY <1>1, <2>1 DEF PushState
  <1>3. CASE ~(Active(q) /\ touched[q])
    <2>1. Disturbed(touched)[q] = push[q]
      BY <1>3 DEF Disturbed
    <2> QED BY <1>1, <1>3, <2>1
  <1> QED BY <1>2, <1>3

LEMMA EditKeeps ==
  ASSUME PushInvariant, NEW c \in Checkout, NEW head \in Source, NEW work \in Source,
         Edit(c, head, work)
  PROVE PushInvariant'
  <1> DEFINE touched == [p \in Push |-> push[p].checkout = c]
  <1>1. /\ tree' = [tree EXCEPT ![c] = [head |-> head, work |-> work]]
        /\ push' = Disturbed(touched) /\ edits < MaxEdits /\ edits' = edits + 1
        /\ UNCHANGED <<bin, local, registry, files>>
    BY DEF Edit
  <1>2. PushTypeOK'
    <2>1. push' \in [Push -> PushState]
      <3>1. \A q \in Push : push'[q] \in PushState
        BY <1>1, DisturbedKnows
      <3> QED BY <1>1, <3>1 DEF Disturbed
    <2>2. tree' \in [Checkout -> [head : Source, work : Source]]
      BY <1>1 DEF PushInvariant, PushTypeOK
    <2>3. edits' \in 0..MaxEdits
      BY <1>1, DeployAssumption DEF PushInvariant, PushTypeOK
    <2> QED BY <1>1, <2>1, <2>2, <2>3 DEF PushInvariant, PushTypeOK
  <1>3. \A q \in Push : Active(q)' <=> Active(q)
    BY <1>1, DisturbedKnows DEF Active
  <1>4. \A q1, q2 \in Push : Apart(q1, q2)'
    <2> TAKE q1, q2 \in Push
    <2>1. Apart(q1, q2)
      BY DEF PushInvariant
    <2> QED BY <1>1, <1>3, <2>1, DisturbedKnows DEF Apart
  <1>5. \A q \in Push : Known(q)'
    <2> TAKE q \in Push
    <2>1. Known(q)
      BY DEF PushInvariant
    <2> QED BY <1>1, <1>3, <2>1, DisturbedKnows DEF Known
  <1>6. \A q \in Push : Faithful(q)'
    <2> SUFFICES ASSUME NEW q \in Push, Active(q)', push'[q].clean PROVE Faithful(q)'
      BY DEF Faithful
    <2>1. Faithful(q) /\ Known(q) /\ Active(q)
      BY <1>3 DEF PushInvariant
    <2>2. push[q].clean /\ push[q].checkout # c
      <3>1. touched[q] = (push[q].checkout = c)
        OBVIOUS
      <3>2. push[q].clean /\ ~touched[q]
        <4> HIDE DEF touched
        <4> QED BY <1>1, <2>1, DisturbedKnows
      <3> QED BY <3>1, <3>2
    <2>3. tree'[push[q].checkout] = tree[push[q].checkout]
      BY <1>1, <2>1, <2>2 DEF Known, PushInvariant, PushTypeOK
    <2> QED BY <1>1, <2>1, <2>2, <2>3, DisturbedKnows DEF Faithful
  <1>7. RecordsAreTrue'
    BY <1>1 DEF RecordsAreTrue, PushInvariant, True
  <1> QED BY <1>2, <1>4, <1>5, <1>6, <1>7 DEF PushInvariant

LEMMA StartKeeps ==
  ASSUME PushInvariant, NEW p \in Push, NEW c \in Checkout, NEW t \in Tag, NEW f \in File,
         Start(p, c, t, f)
  PROVE PushInvariant'
  <1> DEFINE touches == [q \in Push |-> push[q].checkout = c \/ push[q].tag = t]
             alone == \A q \in Push : Active(q) => ~touches[q]
             r == [Unstarted EXCEPT !.at = "compile", !.checkout = c, !.tag = t, !.out = f,
                     !.profile = Lock[tree[c].work], !.commit = tree[c].head,
                     !.clean = alone /\ tree[c].work = tree[c].head]
  <1>1. /\ push' = [Disturbed(touches) EXCEPT ![p] = r] /\ push[p].at = "idle"
        /\ UNCHANGED <<tree, bin, local, registry, files, edits>>
    BY DEF Start
  <1>2. tree[c].work \in Source /\ tree[c].head \in Source
        /\ tree[c] = [head |-> tree[c].head, work |-> tree[c].work]
    BY DEF PushInvariant, PushTypeOK
  <1>3. /\ r.at = "compile" /\ r.checkout = c /\ r.tag = t /\ r.out = f
        /\ r.profile = Lock[tree[c].work] /\ r.commit = tree[c].head
        /\ r.clean = (alone /\ tree[c].work = tree[c].head)
        /\ r.daemon = Nothing /\ r.digest = Nothing
    BY DEF Unstarted
  <1>4. r \in PushState
    <2>1. Lock[tree[c].work] \in Locks
      BY <1>2 DEF Locks
    <2>2. (alone /\ tree[c].work = tree[c].head) \in BOOLEAN
      BY Zenon
    <2> QED BY <1>2, <2>1, <2>2 DEF PushState, PushPC, Unstarted
  <1>5. push'[p] = r /\ \A q \in Push \ {p} : push'[q] = Disturbed(touches)[q]
    BY <1>1 DEF Disturbed
  <1>6. \A q \in Push : touches[q] = (push[q].checkout = c \/ push[q].tag = t)
    OBVIOUS
  <1> HIDE DEF r, touches
  <1>7. PushTypeOK'
    <2>1. push' \in [Push -> PushState]
      <3>1. \A q \in Push : push'[q] \in PushState
        BY <1>4, <1>5, DisturbedKnows
      <3> QED BY <1>1, <3>1 DEF Disturbed
    <2> QED BY <1>1, <2>1 DEF PushInvariant, PushTypeOK
  <1>8. \A q \in Push \ {p} : Active(q)' <=> Active(q)
    BY <1>5, DisturbedKnows DEF Active
  <1>9. ~Active(p)
    BY <1>1 DEF Active
  <1>10. \A q1, q2 \in Push : Apart(q1, q2)'
    <2> SUFFICES ASSUME NEW q1 \in Push, NEW q2 \in Push, q1 # q2,
                        Active(q1)', Active(q2)', push'[q1].clean
                 PROVE push'[q1].checkout # push'[q2].checkout /\ push'[q1].tag # push'[q2].tag
      BY DEF Apart
    <2>1. CASE q1 = p
      <3>1. Active(q2) /\ alone
        BY <1>3, <1>5, <1>8, <2>1
      <3>2. push[q2].checkout # c /\ push[q2].tag # t
        BY <1>6, <3>1
      <3>3. push'[q2].checkout = push[q2].checkout /\ push'[q2].tag = push[q2].tag
        BY <1>5, <2>1, DisturbedKnows
      <3>4. push'[q1].checkout = c /\ push'[q1].tag = t
        BY <1>3, <1>5, <2>1
      <3> QED BY <3>2, <3>3, <3>4
    <2>2. CASE q2 = p
      <3>1. Active(q1) /\ ~touches[q1]
        BY <1>5, <1>8, <2>2, DisturbedKnows
      <3>2. push[q1].checkout # c /\ push[q1].tag # t
        BY <1>6, <3>1
      <3>3. push'[q1].checkout = push[q1].checkout /\ push'[q1].tag = push[q1].tag
        BY <1>5, <2>2, DisturbedKnows
      <3>4. push'[q2].checkout = c /\ push'[q2].tag = t
        BY <1>3, <1>5, <2>2
      <3> QED BY <3>2, <3>3, <3>4
    <2>3. CASE q1 # p /\ q2 # p
      <3>1. Active(q1) /\ Active(q2) /\ push[q1].clean
        BY <1>5, <1>8, <2>3, DisturbedKnows
      <3>2. push[q1].checkout # push[q2].checkout /\ push[q1].tag # push[q2].tag
        BY <3>1 DEF PushInvariant, Apart
      <3> QED BY <1>5, <2>3, <3>2, DisturbedKnows
    <2> QED BY <2>1, <2>2, <2>3
  <1>11. Known(p)' /\ Faithful(p)'
    <2>1. r.profile \in Locks
      BY <1>2, <1>3 DEF Locks
    <2>2. Known(p)'
      BY <1>2, <1>3, <1>5, <2>1 DEF Known
    <2>3. r.clean => tree[c].work = tree[c].head
      BY <1>3
    <2>4. Faithful(p)'
      BY <1>1, <1>2, <1>3, <1>5, <2>3 DEF Faithful
    <2> QED BY <2>2, <2>4
  <1>12. \A q \in Push \ {p} : Known(q)' /\ Faithful(q)'
    <2> TAKE q \in Push \ {p}
    <2>1. Known(q) /\ Faithful(q) /\ (Active(q)' <=> Active(q))
      BY <1>8 DEF PushInvariant
    <2>2. push'[q] = Disturbed(touches)[q]
      BY <1>5
    <2>3. Known(q)'
      BY <1>1, <2>1, <2>2, DisturbedKnows DEF Known
    <2>4. Faithful(q)'
      BY <1>1, <2>1, <2>2, DisturbedKnows DEF Faithful
    <2> QED BY <2>3, <2>4
  <1>13. RecordsAreTrue'
    BY <1>1 DEF RecordsAreTrue, PushInvariant, True
  <1> QED BY <1>7, <1>10, <1>11, <1>12, <1>13 DEF PushInvariant

\* The node's side leaves the publishing side alone.
LEMMA PushStepsKeep == PushInvariant /\ [Next]_vars => PushInvariant'
  <1> SUFFICES ASSUME PushInvariant, [Next]_vars PROVE PushInvariant'
    OBVIOUS
  <1>1. ASSUME NEW c \in Checkout, NEW head \in Source, NEW work \in Source,
               Edit(c, head, work)
        PROVE PushInvariant'
    BY <1>1, EditKeeps
  <1>2. ASSUME NEW p \in Push, PushStep(p)
        PROVE PushInvariant'
    <2>1. CASE \E c \in Checkout, t \in Tag, f \in File : Start(p, c, t, f)
      BY <2>1, StartKeeps
    <2>2. CASE Compile(p) \/ Hash(p) \/ Build(p) \/ Publish(p)
      BY <2>2, CompileKeeps, HashKeeps, BuildKeeps, PublishKeeps
    <2>3. CASE Inspect(p) \/ Open(p) \/ Write(p)
      BY <2>3, InspectKeeps, OpenKeeps, WriteKeeps
    <2>4. CASE Check(p) \/ Fail(p)
      <3>1. Active(p) /\ Ends(p)
        BY <2>4 DEF Check, Fail, Active
      <3> QED BY <3>1, DoneKeeps DEF Ends
    <2>5. CASE Kill(p)
      BY <2>5, DoneKeeps DEF Kill
    <2> QED BY <1>2, <2>1, <2>2, <2>3, <2>4, <2>5 DEF PushStep
  <1>3. CASE UNCHANGED publishing
    BY <1>3 DEF publishing, PushInvariant, PushTypeOK, Known, Faithful, Apart, Active,
                RecordsAreTrue, True
  <1>4. ASSUME NEW d \in Deploy, DeployStep(d)
        PROVE UNCHANGED publishing
    BY <1>4 DEF DeployStep, Validate, Preflight, Looked, Pull, Remove, Run, RunFails, Postcheck,
                GiveUp
  <1>5. ASSUME (\E child \in Procs : ChildExits(child)) \/ Occupy \/ Vacate \/ Terminate \/ Restart
        PROVE UNCHANGED publishing
    BY <1>5 DEF ChildExits, Occupy, Vacate, Terminate, Restart
  <1> QED BY <1>1, <1>2, <1>3, <1>4, <1>5 DEF Next, vars

(* Whatever the number of pushes, checkouts and tags: a record written by  *)
(* an undisturbed push names the commit, the daemon, the profile and the   *)
(* image that belong together.                                             *)
THEOREM ProvenanceIsTrue == Spec => []RecordsAreTrue
  <1>1. PushInvariant => RecordsAreTrue
    BY DEF PushInvariant
  <1> QED BY <1>1, PushInit, PushStepsKeep, PTL DEF Spec
-----------------------------------------------------------------------------
\* What a deployment holds is the record that it validated, and no record
\* of an undisturbed push is untrue.
Holds(d) ==
  dep[d].at # "idle" => /\ dep[d].record \in Record
                        /\ dep[d].record.profile = dep[d].lock
                        /\ dep[d].record.clean => True(dep[d].record)

\* The stack is that of a deployment that has got that far, and only one
\* that runs is occupied.
Owned == stack # Nothing =>
           /\ dep[stack.by].at \notin {"idle", "preflight", "pull", "remove", "run"}
           /\ stack.image = dep[stack.by].record.digest
           /\ (stack.created => stack.procs = {})
           /\ (stack.procs = {} => stack.work = Nothing)

\* Work that is under way began after the preflight of every deployment
\* that is about to replace the stack and had docker's answer.
Foreseen == (stack # Nothing /\ stack.work # Nothing) =>
              \A d \in Deploy : (dep[d].at \in {"pull", "remove"} /\ ~dep[d].blind) =>
                                 d \in stack.work

DeployInvariant == /\ DeployTypeOK
                   /\ \A d \in Deploy : Holds(d)
                   /\ Owned /\ Foreseen /\ GapOnlyWhileReplacing

LEMMA DeployInit == Init => DeployInvariant
  <1> SUFFICES ASSUME Init PROVE DeployInvariant
    OBVIOUS
  <1>1. Undeployed \in DeployState
    BY DEF Undeployed, DeployState, DeployPC
  <1>2. \A d \in Deploy : dep[d].at = "idle"
    BY DEF Init, Undeployed
  <1> QED BY <1>1, <1>2 DEF Init, DeployInvariant, DeployTypeOK, Holds, Owned, Foreseen,
                            GapOnlyWhileReplacing

\* What is validated is a record, and true if it claims to be.
LEMMA ValidatedIsRecord ==
  ASSUME PushInvariant, NEW f \in File, NEW lock, Valid(files[f], lock)
  PROVE /\ files[f] \in Record /\ files[f].profile = lock
        /\ files[f].clean => True(files[f])
  BY DEF PushInvariant, PushTypeOK, Valid, RecordsAreTrue

LEMMA ValidateKeeps ==
  ASSUME PushInvariant, DeployInvariant, NEW d \in Deploy, NEW c \in Checkout, NEW f \in File,
         Validate(d, c, f)
  PROVE DeployInvariant'
  <1> DEFINE lock == Lock[tree[c].work]
             new == [at |-> "preflight", lock |-> lock, record |-> files[f],
                      blind |-> FALSE]
  <1>1. /\ dep' = [dep EXCEPT ![d] = new] /\ dep[d].at = "idle"
        /\ UNCHANGED stack /\ Valid(files[f], lock)
    BY DEF Validate
  <1>2. files[f] \in Record /\ files[f].profile = lock /\ (files[f].clean => True(files[f]))
    BY <1>1, ValidatedIsRecord
  <1>3. lock \in Locks
    BY DEF PushInvariant, PushTypeOK, Locks
  <1>4. new \in DeployState /\ new.at = "preflight" /\ new.lock = lock /\ new.record = files[f]
    BY <1>2, <1>3 DEF DeployState, DeployPC
  <1> HIDE DEF new, lock
  <1>5. dep \in [Deploy -> DeployState]
    BY DEF DeployInvariant, DeployTypeOK
  <1>6. dep'[d] = new /\ \A e \in Deploy \ {d} : dep'[e] = dep[e]
    BY <1>1, <1>5
  <1>7. DeployTypeOK'
    BY <1>1, <1>4 DEF DeployInvariant, DeployTypeOK
  <1>8. \A e \in Deploy : Holds(e)'
    <2> TAKE e \in Deploy
    <2>1. CASE e = d
      BY <1>2, <1>4, <1>6, <2>1 DEF Holds, True
    <2>2. CASE e # d
      BY <1>6, <2>2 DEF Holds, True, DeployInvariant
    <2> QED BY <2>1, <2>2
  <1>9. Owned'
    <2> SUFFICES ASSUME stack # Nothing PROVE Owned'
      BY <1>1 DEF Owned
    <2>1. stack.by \in Deploy /\ stack.by # d
      BY <1>1 DEF DeployInvariant, DeployTypeOK, Stack, Owned
    <2> QED BY <1>1, <1>6, <2>1 DEF Owned, DeployInvariant
  <1>10. Foreseen'
    BY <1>1, <1>4, <1>6 DEF Foreseen, DeployInvariant
  <1>11. GapOnlyWhileReplacing'
    BY <1>1, <1>4, <1>6 DEF GapOnlyWhileReplacing, DeployInvariant
  <1> QED BY <1>7, <1>8, <1>9, <1>10, <1>11 DEF DeployInvariant

\* A step that only moves d on keeps what d holds and whose the stack is.
LEMMA StepKeeps ==
  ASSUME DeployInvariant, NEW d \in Deploy, NEW from, NEW next \in DeployPC,
         Step(d, from, next), from # "idle"
  PROVE /\ dep' \in [Deploy -> DeployState]
        /\ \A e \in Deploy : Holds(e)'
        /\ dep'[d].at = next
        /\ \A e \in Deploy : /\ dep'[e].record = dep[e].record /\ dep'[e].lock = dep[e].lock
                              /\ dep'[e].blind = dep[e].blind
        /\ \A e \in Deploy \ {d} : dep'[e] = dep[e]
  <1>1. dep \in [Deploy -> DeployState] /\ dep[d].at = from
        /\ dep' = [dep EXCEPT ![d].at = next]
    BY DEF DeployInvariant, DeployTypeOK, Step
  <1>2. dep' \in [Deploy -> DeployState]
    BY <1>1 DEF DeployState
  <1>3. dep'[d].at = next
    BY <1>1 DEF DeployState
  <1>4. \A e \in Deploy \ {d} : dep'[e] = dep[e]
    BY <1>1
  <1>5. /\ dep'[d].record = dep[d].record /\ dep'[d].lock = dep[d].lock
        /\ dep'[d].blind = dep[d].blind
    BY <1>1 DEF DeployState
  <1>6. \A e \in Deploy : Holds(e)'
    <2> TAKE e \in Deploy
    <2>1. dep'[e].record = dep[e].record /\ dep'[e].lock = dep[e].lock
      BY <1>4, <1>5
    <2>2. dep[e].at # "idle" \/ dep'[e].at = "idle"
      BY <1>1, <1>4
    <2> QED BY <2>1, <2>2 DEF Holds, True, DeployInvariant
  <1> QED BY <1>2, <1>3, <1>4, <1>5, <1>6

\* The stack stays, and d does not leave a gap unexplained.
LEMMA StackStays ==
  ASSUME DeployInvariant, NEW d \in Deploy, NEW from, NEW next \in DeployPC,
         Step(d, from, next), UNCHANGED stack, from # "idle",
         next = "remove" => from = "pull",
         next \notin {"idle", "preflight", "pull", "run"},
         next \in {"postcheck", "deployed"} => stack # Nothing,
         from = "run" => next = "lost", from # "lost"
  PROVE DeployInvariant'
  <1>1. /\ dep' \in [Deploy -> DeployState]
        /\ \A e \in Deploy : Holds(e)'
        /\ dep'[d].at = next
        /\ \A e \in Deploy : dep'[e].record = dep[e].record /\ dep'[e].blind = dep[e].blind
        /\ \A e \in Deploy \ {d} : dep'[e] = dep[e]
    BY StepKeeps
  <1>2. dep[d].at = from
    BY DEF Step
  <1>3. DeployTypeOK'
    BY <1>1 DEF DeployTypeOK, DeployInvariant
  <1>4. Owned'
    <2> SUFFICES ASSUME stack # Nothing PROVE Owned'
      BY DEF Owned
    <2>1. stack.by \in Deploy
      BY DEF DeployInvariant, DeployTypeOK, Stack
    <2>2. CASE stack.by = d
      <3>1. from \notin {"idle", "preflight", "pull", "remove", "run"}
        BY <1>2, <2>2 DEF Owned, DeployInvariant
      <3>2. next \notin {"idle", "preflight", "pull", "remove", "run"}
        BY <3>1
      <3> QED BY <1>1, <2>1, <2>2, <3>2 DEF Owned, DeployInvariant
    <2>3. CASE stack.by # d
      BY <1>1, <2>1, <2>3 DEF Owned, DeployInvariant
    <2> QED BY <2>2, <2>3
  <1>5. Foreseen'
    <2> SUFFICES ASSUME stack # Nothing, stack.work # Nothing, NEW e \in Deploy,
                        dep'[e].at \in {"pull", "remove"}, ~dep'[e].blind
                 PROVE e \in stack.work
      BY DEF Foreseen
    <2>1. dep[e].at \in {"pull", "remove"} /\ ~dep[e].blind
      BY <1>1, <1>2
    <2> QED BY <2>1 DEF Foreseen, DeployInvariant
  <1>6. GapOnlyWhileReplacing'
    <2> SUFFICES ASSUME stack = Nothing, NEW e \in Deploy,
                        dep'[e].at \in {"postcheck", "deployed"}
                 PROVE \E x \in Deploy : dep'[x].at \in {"run", "lost"}
      BY DEF GapOnlyWhileReplacing
    <2>1. e # d
      BY <1>1
    <2>2. PICK x \in Deploy : dep[x].at \in {"run", "lost"}
      BY <1>1, <2>1 DEF GapOnlyWhileReplacing, DeployInvariant
    <2> QED BY <1>1, <1>2, <2>2
  <1> QED BY <1>1, <1>3, <1>4, <1>5, <1>6 DEF DeployInvariant

LEMMA GiveUpKeeps ==
  ASSUME DeployInvariant, NEW d \in Deploy, GiveUp(d)
  PROVE DeployInvariant'
  <1> DEFINE from == dep[d].at
             next == IF from = "run" THEN "lost" ELSE "failed"
  <1>1. /\ from \notin {"idle", "deployed", "failed", "lost"} /\ Step(d, from, next)
        /\ UNCHANGED stack
    BY DEF GiveUp
  <1>2. next \in DeployPC
    BY DEF DeployPC
  <1>3. next \in {"lost", "failed"} /\ (from = "run" => next = "lost")
    OBVIOUS
  <1> HIDE DEF from, next
  <1> QED BY <1>1, <1>2, <1>3, StackStays

\* A deployment gets past the preflight of an occupied stack only blind.
LEMMA PreflightKeeps ==
  ASSUME DeployInvariant, NEW d \in Deploy, NEW answered \in BOOLEAN, Preflight(d, answered)
  PROVE DeployInvariant'
  <1> DEFINE blind == ~answered /\ stack # Nothing
  <1>1. /\ dep[d].at = "preflight" /\ UNCHANGED stack
        /\ dep' = [dep EXCEPT ![d].at = "pull", ![d].blind = blind]
    BY DEF Preflight, Looked
  <1>2. stack = Nothing \/ blind \/ stack.work = Nothing
    BY DEF Preflight, DeployInvariant, Owned
  <1>3. blind \in BOOLEAN
    BY Zenon
  <1> HIDE DEF blind
  <1>4. dep \in [Deploy -> DeployState]
    BY DEF DeployInvariant, DeployTypeOK
  <1>5. /\ dep' \in [Deploy -> DeployState]
        /\ dep'[d].at = "pull" /\ (dep'[d].blind <=> blind)
        /\ dep'[d].record = dep[d].record /\ dep'[d].lock = dep[d].lock
        /\ \A e \in Deploy \ {d} : dep'[e] = dep[e]
    BY <1>1, <1>3, <1>4 DEF DeployState, DeployPC
  <1>6. \A e \in Deploy : Holds(e)'
    <2> TAKE e \in Deploy
    <2>1. dep'[e].record = dep[e].record /\ dep'[e].lock = dep[e].lock
      BY <1>5
    <2>2. dep[e].at # "idle" \/ dep'[e].at = "idle"
      BY <1>1, <1>5
    <2> QED BY <2>1, <2>2 DEF Holds, True, DeployInvariant
  <1>7. DeployTypeOK'
    BY <1>1, <1>5 DEF DeployTypeOK, DeployInvariant
  <1>8. Owned'
    <2> SUFFICES ASSUME stack # Nothing PROVE Owned'
      BY <1>1 DEF Owned
    <2>1. stack.by \in Deploy /\ stack.by # d
      BY <1>1 DEF DeployInvariant, DeployTypeOK, Stack, Owned
    <2> QED BY <1>1, <1>5, <2>1 DEF Owned, DeployInvariant
  <1>9. Foreseen'
    <2> SUFFICES ASSUME stack # Nothing, stack.work # Nothing, NEW e \in Deploy,
                        dep'[e].at \in {"pull", "remove"}, ~dep'[e].blind
                 PROVE e \in stack.work
      BY <1>1 DEF Foreseen
    <2>1. e # d
      BY <1>2, <1>5
    <2> QED BY <1>5, <2>1 DEF Foreseen, DeployInvariant
  <1>10. GapOnlyWhileReplacing'
    BY <1>1, <1>5 DEF GapOnlyWhileReplacing, DeployInvariant
  <1> QED BY <1>6, <1>7, <1>8, <1>9, <1>10 DEF DeployInvariant

LEMMA WaitingKeeps ==
  ASSUME DeployInvariant, NEW d \in Deploy, Pull(d) \/ Postcheck(d)
  PROVE DeployInvariant'
  <1>1. CASE Pull(d)
    BY <1>1, StackStays DEF Pull, DeployPC
  <1>2. CASE Postcheck(d)
    BY <1>2, StackStays DEF Postcheck, DeployPC
  <1> QED BY <1>1, <1>2

LEMMA RemoveKeeps ==
  ASSUME DeployInvariant, NEW d \in Deploy, Remove(d)
  PROVE DeployInvariant'
  <1>1. Step(d, "remove", "run") /\ stack' = Nothing
    BY DEF Remove
  <1>2. /\ dep' \in [Deploy -> DeployState] /\ \A e \in Deploy : Holds(e)'
        /\ dep'[d].at = "run"
    BY <1>1, StepKeeps DEF DeployPC
  <1> QED BY <1>1, <1>2 DEF DeployInvariant, DeployTypeOK, Owned, Foreseen,
                            GapOnlyWhileReplacing

\* docker run, whether the container starts or is only created.
LEMMA RunKeeps ==
  ASSUME DeployInvariant, NEW d \in Deploy, Run(d) \/ RunFails(d)
  PROVE DeployInvariant'
  <1>1. PICK new \in {[Started(d) EXCEPT !.procs = {}, !.created = TRUE], Started(d)},
             at \in {"postcheck", "failed"} :
          Step(d, "run", at) /\ stack' = new
    BY DEF Run, RunFails
  <1>2. /\ dep' \in [Deploy -> DeployState] /\ \A e \in Deploy : Holds(e)'
        /\ dep'[d].at = at
        /\ \A e \in Deploy : dep'[e].record = dep[e].record
    BY <1>1, StepKeeps DEF DeployPC
  <1>3. dep[d].record.digest \in Image
    BY <1>1 DEF Step, DeployInvariant, Holds, Record
  <1>4. /\ new \in Stack /\ new.by = d /\ new.image = dep[d].record.digest
        /\ new.work = Nothing /\ (new.created => new.procs = {})
    <2>1. Started(d) \in Stack
      BY <1>3 DEF Started, Stack
    <2>2. /\ Started(d).by = d /\ Started(d).image = dep[d].record.digest
          /\ Started(d).work = Nothing /\ ~Started(d).created
      BY DEF Started
    <2>3. CASE new = Started(d)
      BY <2>1, <2>2, <2>3
    <2>4. CASE new = [Started(d) EXCEPT !.procs = {}, !.created = TRUE]
      BY <2>1, <2>2, <2>4 DEF Stack
    <2> QED BY <2>3, <2>4
  <1>5. new # Nothing
    BY <1>4, DeployAssumption
  <1> QED BY <1>1, <1>2, <1>4, <1>5 DEF DeployInvariant, DeployTypeOK, Owned, Foreseen,
                                        GapOnlyWhileReplacing

\* What happens on the node between deployments.
LEMMA NodeKeeps ==
  ASSUME DeployInvariant, UNCHANGED dep, stack # Nothing, stack' \in Stack,
         stack'.by = stack.by, stack'.image = stack.image, stack'.created = stack.created,
         stack.created => stack'.procs = {},
         stack'.procs = {} => stack'.work = Nothing,
         stack'.work \in {stack.work, Nothing, {d \in Deploy : dep[d].at \in {"pull", "remove"}}}
  PROVE DeployInvariant'
  <1>1. stack' # Nothing
    BY DeployAssumption
  <1>2. DeployTypeOK' /\ \A d \in Deploy : Holds(d)'
    BY DEF DeployInvariant, DeployTypeOK, Holds, True
  <1>3. Owned'
    BY <1>1 DEF Owned, DeployInvariant
  <1>4. Foreseen'
    BY DEF Foreseen, DeployInvariant
  <1>5. GapOnlyWhileReplacing'
    BY <1>1 DEF GapOnlyWhileReplacing
  <1> QED BY <1>2, <1>3, <1>4, <1>5 DEF DeployInvariant

LEMMA NodeStepsKeep ==
  ASSUME DeployInvariant,
         (\E child \in Procs : ChildExits(child)) \/ Occupy \/ Vacate \/ Terminate \/ Restart
  PROVE DeployInvariant'
  <1>1. UNCHANGED dep /\ stack # Nothing
    BY DEF ChildExits, Occupy, Vacate, Terminate, Restart
  <1>2. /\ stack \in Stack /\ stack.procs \in SUBSET Procs
        /\ stack.work \in (SUBSET Deploy) \cup {Nothing}
        /\ (stack.created => stack.procs = {}) /\ (stack.procs = {} => stack.work = Nothing)
    BY <1>1 DEF DeployInvariant, DeployTypeOK, Owned, Stack
  <1> DEFINE seen == {d \in Deploy : dep[d].at \in {"pull", "remove"}}
  <1>3. CASE \E child \in Procs : ChildExits(child)
    <2>1. PICK child \in Procs : ChildExits(child)
      BY <1>3
    <2>2. /\ stack.procs = Procs
          /\ stack' = [stack EXCEPT !.procs = stack.procs \ {child}]
      BY <2>1 DEF ChildExits
    <2>3. Procs \ {child} # {} /\ stack.procs # {}
      BY <2>2 DEF Procs
    <2> QED BY <1>1, <1>2, <2>2, <2>3, NodeKeeps DEF Stack
  <1>4. CASE Occupy
    <2>1. stack' = [stack EXCEPT !.work = seen] /\ stack.procs # {}
      BY <1>4 DEF Occupy
    <2>2. stack' \in Stack /\ stack'.work = seen /\ stack'.procs = stack.procs
          /\ stack'.by = stack.by /\ stack'.image = stack.image /\ stack'.created = stack.created
      BY <1>2, <2>1 DEF Stack
    <2> QED BY <1>1, <1>2, <2>1, <2>2, NodeKeeps
  <1>5. CASE Vacate
    BY <1>1, <1>2, <1>5, NodeKeeps DEF Vacate, Stack
  <1>6. CASE Terminate
    BY <1>1, <1>2, <1>6, NodeKeeps DEF Terminate, Stack
  <1>7. CASE Restart
    <2>1. stack' = [stack EXCEPT !.procs = Procs] /\ ~stack.created /\ Procs # {}
      BY <1>7 DEF Restart, Procs
    <2> QED BY <1>1, <1>2, <2>1, NodeKeeps DEF Stack
  <1> QED BY <1>3, <1>4, <1>5, <1>6, <1>7

LEMMA DeployStepsKeep == PushInvariant /\ DeployInvariant /\ [Next]_vars => DeployInvariant'
  <1> SUFFICES ASSUME PushInvariant, DeployInvariant, [Next]_vars PROVE DeployInvariant'
    OBVIOUS
  <1>1. CASE UNCHANGED running
    BY <1>1 DEF running, DeployInvariant, DeployTypeOK, Holds, True, Owned, Foreseen,
                GapOnlyWhileReplacing
  <1>2. ASSUME NEW c \in Checkout, NEW head \in Source, NEW work \in Source,
               Edit(c, head, work)
        PROVE UNCHANGED running
    BY <1>2 DEF Edit
  <1>3. ASSUME NEW p \in Push, PushStep(p)
        PROVE UNCHANGED running
    BY <1>3 DEF PushStep, Start, Compile, Hash, Build, Publish, Inspect, Open, Write, Check,
                Fail, Kill, Ends
  <1>4. ASSUME NEW d \in Deploy, DeployStep(d)
        PROVE DeployInvariant'
    BY <1>4, ValidateKeeps, PreflightKeeps, WaitingKeeps, RemoveKeeps, RunKeeps, GiveUpKeeps
       DEF DeployStep
  <1> QED BY <1>1, <1>2, <1>3, <1>4, NodeStepsKeep DEF Next, vars

LEMMA BothInvariant == Spec => [](PushInvariant /\ DeployInvariant)
  BY PushInit, DeployInit, PushStepsKeep, DeployStepsKeep, PTL DEF Spec

(* Every variable keeps its type.                                          *)
THEOREM TypeCorrect == Spec => []TypeOK
  <1>1. PushInvariant /\ DeployInvariant => TypeOK
    BY DEF PushInvariant, DeployInvariant, TypeOK
  <1> QED BY <1>1, BothInvariant, PTL

(* Whatever the number of deployments: the stack is the image of a record  *)
(* that its deployment validated.                                          *)
THEOREM StackIsRecorded == Spec => []RunsWhatWasRecorded
  <1>1. PushInvariant /\ DeployInvariant => RunsWhatWasRecorded
    <2> SUFFICES ASSUME DeployInvariant, stack # Nothing PROVE RunsWhatWasRecorded
      BY DEF RunsWhatWasRecorded
    <2>1. stack.by \in Deploy
      BY DEF DeployInvariant, DeployTypeOK, Stack
    <2> QED BY <2>1 DEF DeployInvariant, Owned, Holds, True, RunsWhatWasRecorded
  <1> QED BY <1>1, BothInvariant, PTL

(* No deployment that had docker's answer in its preflight destroys work   *)
(* that was under way then.                                                *)
THEOREM WorkIsSpared == Spec => OldWorkIsSpared
  <1>1. PushInvariant /\ DeployInvariant
        => \A d \in Deploy :
             (Remove(d) /\ stack # Nothing /\ stack.work # Nothing /\ ~dep[d].blind) =>
                d \in stack.work
    BY DEF DeployInvariant, Foreseen, Remove, Step
  <1> QED BY <1>1, BothInvariant, PTL DEF OldWorkIsSpared

(* A node that has had a stack lacks one only in the midst of docker rm    *)
(* and docker run.                                                         *)
THEOREM GapsAreReplacements == Spec => []GapOnlyWhileReplacing
  <1>1. PushInvariant /\ DeployInvariant => GapOnlyWhileReplacing
    BY DEF DeployInvariant
  <1> QED BY <1>1, BothInvariant, PTL
=============================================================================
