---------------------------- MODULE ImageDeploy ----------------------------
(***************************************************************************)
(* From a checkout to a running stack: harbor_push.sh builds and publishes *)
(* an image and writes its provenance record (image_provenance.py),        *)
(* harbor_deploy.sh replaces the stack of a node by the image of a record, *)
(* and docker with blitter-stack-entrypoint.sh keeps the stack up.         *)
(*                                                                         *)
(* Pushes run on one build host, deployments against one node (nodes share *)
(* nothing but the registry), each command of a script is a step, and any  *)
(* number of scripts run side by side.  An image is its contents, a digest *)
(* the image it names.  What a lease is worth is in LeaseGate: the stack   *)
(* is occupied or not.  Left out: stamping, an unfenced stack from before  *)
(* the gate (its preflight differs in the names of the fields), ports.     *)
(***************************************************************************)
EXTENDS Naturals

CONSTANTS Source,    \* contents of a checkout; a commit is the contents it names
          Lock,      \* Lock[s]: the semantic profile that is locked in s
          Checkout, Tag, File,
          Push, Deploy,  \* runs of the two scripts
          Nothing,   \* no file, no image, no stack
          Torn,      \* a file while it is being written
          MaxEdits   \* changes made to a checkout, for TLC

VARIABLES tree,      \* the checkouts: HEAD and the working tree
          bin,       \* blitter-daemon in the source directory of each checkout
          local,     \* tags in the image store of the build host
          registry,  \* tags in the registry
          files,     \* provenance records
          push, dep, \* the runs
          stack,     \* the container blitter-daemon on the node
          edits

publishing == <<tree, bin, local, registry, files, push, edits>>
running == <<dep, stack>>
vars == <<publishing, running>>

Image == [daemon : Source, rest : Source]
Locks == {Lock[s] : s \in Source}
Procs == {"daemon", "gate"}
Stack == [image : Image, by : Deploy, procs : SUBSET Procs, created : BOOLEAN,
          work : (SUBSET Deploy) \cup {Nothing}]

ASSUME DeployAssumption == /\ MaxEdits \in Nat
                           /\ Nothing \notin Source /\ Nothing \notin Image
                           /\ Nothing \notin Stack
                           /\ \A work \in SUBSET Deploy : work # Nothing

\* clean is an observer: the working tree was HEAD's and nothing else wrote
\* to what the push uses, the working tree, the binary and the tag.
Unstarted == [at |-> "idle", checkout |-> Nothing, tag |-> Nothing, out |-> Nothing,
              profile |-> Nothing, commit |-> Nothing, daemon |-> Nothing,
              digest |-> Nothing, clean |-> TRUE]
\* blind is an observer too: docker did not answer the preflight.
Undeployed == [at |-> "idle", lock |-> Nothing, record |-> Nothing, blind |-> FALSE]

Init == /\ tree \in [Checkout -> {[head |-> s, work |-> s] : s \in Source}]
        /\ bin = [c \in Checkout |-> Nothing]
        /\ local = [t \in Tag |-> Nothing]
        /\ registry = [t \in Tag |-> Nothing]
        /\ files = [f \in File |-> Nothing]
        /\ push = [p \in Push |-> Unstarted]
        /\ dep = [d \in Deploy |-> Undeployed]
        /\ stack = Nothing
        /\ edits = 0

-----------------------------------------------------------------------------
\* harbor_push.sh

Active(p) == push[p].at \notin {"idle", "done"}

Disturbed(touched) == [p \in Push |-> IF Active(p) /\ touched[p]
                                      THEN [push[p] EXCEPT !.clean = FALSE] ELSE push[p]]

\* A developer edits, commits or checks something else out.
Edit(c, head, work) ==
  /\ edits < MaxEdits
  /\ tree' = [tree EXCEPT ![c] = [head |-> head, work |-> work]]
  /\ push' = Disturbed([p \in Push |-> push[p].checkout = c])
  /\ edits' = edits + 1
  /\ UNCHANGED <<bin, local, registry, files, running>>

\* The profile lock and HEAD are read.
Start(p, c, t, f) ==
  LET touches == [q \in Push |-> push[q].checkout = c \/ push[q].tag = t]
      alone == \A q \in Push : Active(q) => ~touches[q]
  IN /\ push[p].at = "idle"
     /\ push' = [Disturbed(touches) EXCEPT ![p] =
                   [Unstarted EXCEPT !.at = "compile", !.checkout = c, !.tag = t, !.out = f,
                                     !.profile = Lock[tree[c].work], !.commit = tree[c].head,
                                     !.clean = alone /\ tree[c].work = tree[c].head]]
     /\ UNCHANGED <<tree, bin, local, registry, files, edits, running>>

To(p, next) == push' = [push EXCEPT ![p].at = next]

\* Mutant of Compile: a binary that is there is used again.
CompileUnlessThere(p) ==
  LET c == push[p].checkout
  IN /\ push[p].at = "compile"
     /\ bin' = IF bin[c] = Nothing THEN [bin EXCEPT ![c] = tree[c].work] ELSE bin
     /\ To(p, "hash")
     /\ UNCHANGED <<tree, local, registry, files, edits, running>>

\* cargo builds what is in the working tree; install puts it beside the Dockerfile.
Compile(p) ==
  LET c == push[p].checkout
  IN /\ push[p].at = "compile"
     /\ bin' = [bin EXCEPT ![c] = tree[c].work]
     /\ To(p, "hash")
     /\ UNCHANGED <<tree, local, registry, files, edits, running>>

Hash(p) ==
  LET sum == bin[push[p].checkout]
  IN /\ push[p].at = "hash" /\ sum # Nothing
     /\ push' = [push EXCEPT ![p].daemon = sum, ![p].at = "build"]
     /\ UNCHANGED <<tree, bin, local, registry, files, edits, running>>

\* podman build -t: the binary and the scripts beside it, as they are now.
Build(p) ==
  LET c == push[p].checkout
  IN /\ push[p].at = "build" /\ bin[c] # Nothing
     /\ local' = [local EXCEPT ![push[p].tag] = [daemon |-> bin[c], rest |-> tree[c].work]]
     /\ To(p, "publish")
     /\ UNCHANGED <<tree, bin, registry, files, edits, running>>

Publish(p) ==
  LET t == push[p].tag
  IN /\ push[p].at = "publish"
     /\ registry' = [registry EXCEPT ![t] = local[t]]
     /\ To(p, "inspect")
     /\ UNCHANGED <<tree, bin, local, files, edits, running>>

\* skopeo asks the registry what the tag stands for now.
Inspect(p) ==
  /\ push[p].at = "inspect"
  /\ push' = [push EXCEPT ![p].digest = registry[push[p].tag], ![p].at = "open"]
  /\ UNCHANGED <<tree, bin, local, registry, files, edits, running>>

BuildRecord(p) == [commit |-> push[p].commit, profile |-> push[p].profile,
                   daemon |-> push[p].daemon, tag |-> push[p].tag,
                   digest |-> push[p].digest, clean |-> push[p].clean]

\* write_bytes truncates the file, and then writes it.
Open(p) ==
  /\ push[p].at = "open"
  /\ files' = [files EXCEPT ![push[p].out] = Torn]
  /\ To(p, "write")
  /\ UNCHANGED <<tree, bin, local, registry, edits, running>>

Write(p) ==
  /\ push[p].at = "write"
  /\ files' = [files EXCEPT ![push[p].out] = BuildRecord(p)]
  /\ To(p, "check")
  /\ UNCHANGED <<tree, bin, local, registry, edits, running>>

\* load_canonical: whole, canonical bytes that name the locked profile.
Valid(file, lock) == file \notin {Nothing, Torn} /\ file.profile = lock

\* The trap of the script removes the binary, whatever happened.
Ends(p) == /\ To(p, "done")
           /\ bin' = [bin EXCEPT ![push[p].checkout] = Nothing]
           /\ UNCHANGED <<tree, local, registry, files, edits, running>>

Check(p) == /\ push[p].at = "check"
            /\ Valid(files[push[p].out], Lock[tree[push[p].checkout].work])
            /\ Ends(p)

\* Any command may fail, and set -e ends the script.
Fail(p) == Active(p) /\ Ends(p)

\* The script is killed: the binary stays.
Kill(p) == /\ Active(p)
           /\ To(p, "done")
           /\ UNCHANGED <<tree, bin, local, registry, files, edits, running>>

-----------------------------------------------------------------------------
\* The node

Started(d) == [image |-> dep[d].record.digest, by |-> d, procs |-> Procs,
               created |-> FALSE, work |-> Nothing]

\* A client acquires the free lease, and may compute under it.  For the
\* properties: the deployments that found the stack idle before that.
Occupy ==
  /\ stack # Nothing /\ "gate" \in stack.procs /\ stack.work = Nothing
  /\ stack' = [stack EXCEPT !.work = {d \in Deploy : dep[d].at \in {"pull", "remove"}}]
  /\ UNCHANGED <<publishing, dep>>

\* Released or expired, and nothing in flight.
Vacate ==
  /\ stack # Nothing /\ "gate" \in stack.procs /\ stack.work # Nothing
  /\ stack' = [stack EXCEPT !.work = Nothing]
  /\ UNCHANGED <<publishing, dep>>

ChildExits(child) ==
  /\ stack # Nothing /\ stack.procs = Procs
  /\ stack' = [stack EXCEPT !.procs = @ \ {child}]
  /\ UNCHANGED <<publishing, dep>>

\* wait -n returns: the other child is killed, the container fails.
Terminate ==
  /\ stack # Nothing /\ stack.procs \notin {{}, Procs}
  /\ stack' = [stack EXCEPT !.procs = {}, !.work = Nothing]
  /\ UNCHANGED <<publishing, dep>>

\* --restart unless-stopped, for a container that had been started.
Restart ==
  /\ stack # Nothing /\ stack.procs = {} /\ ~stack.created
  /\ stack' = [stack EXCEPT !.procs = Procs]
  /\ UNCHANGED <<publishing, dep>>

-----------------------------------------------------------------------------
\* harbor_deploy.sh

Step(d, from, next) == dep[d].at = from /\ dep' = [dep EXCEPT ![d].at = next]

\* A record that is refused ends the script before it has done anything.
Validate(d, c, f) ==
  LET lock == Lock[tree[c].work]
  IN /\ dep[d].at = "idle" /\ Valid(files[f], lock)
     /\ dep' = [dep EXCEPT ![d] = [at |-> "preflight", lock |-> lock, record |-> files[f],
                                      blind |-> FALSE]]
     /\ UNCHANGED <<publishing, stack>>

Looked(d, answered) ==
  /\ dep[d].at = "preflight"
  /\ dep' = [dep EXCEPT ![d].at = "pull", ![d].blind = ~answered /\ stack # Nothing]
  /\ UNCHANGED <<publishing, stack>>

\* Mutant of Preflight: a stack that does not answer counts as idle.
PreflightOpen(d, answered) ==
  /\ Looked(d, answered)
  /\ (answered /\ stack # Nothing /\ "gate" \in stack.procs) => stack.work = Nothing

\* Docker calls a container running while it waits to restart it; then, and
\* while a lease is held, the script is blocked.  A container that was only
\* created does not run.  When docker inspect itself does not answer, its
\* message is discarded and the script takes it that nothing runs.
Preflight(d, answered) ==
  /\ Looked(d, answered)
  /\ (answered /\ stack # Nothing /\ ~stack.created) =>
       "gate" \in stack.procs /\ stack.work = Nothing

\* Mutant of Pull: the old stack goes first.
PullAfterRemove(d) == Step(d, "pull", "remove") /\ stack' = Nothing /\ UNCHANGED publishing

\* docker pull of the digest: the image is on the node from here on.
Pull(d) == Step(d, "pull", "remove") /\ UNCHANGED <<publishing, stack>>

Remove(d) == /\ Step(d, "remove", "run")
             /\ stack' = Nothing
             /\ UNCHANGED publishing

\* Mutant of Run: the tag is run instead of the digest.
RunTag(d) == /\ Step(d, "run", "postcheck")
             /\ stack = Nothing
             /\ stack' = [Started(d) EXCEPT !.image = registry[dep[d].record.tag]]
             /\ UNCHANGED publishing

\* The name must be free.
Run(d) == /\ Step(d, "run", "postcheck")
          /\ stack = Nothing
          /\ stack' = Started(d)
          /\ UNCHANGED publishing

\* The container is created, but a device or the port is missing.
RunFails(d) == /\ Step(d, "run", "failed")
               /\ stack = Nothing
               /\ stack' = [Started(d) EXCEPT !.procs = {}, !.created = TRUE]
               /\ UNCHANGED publishing

\* The published endpoint is an idle gate, whoever started it.
Postcheck(d) == /\ Step(d, "postcheck", "deployed")
                /\ stack # Nothing
                /\ "gate" \in stack.procs /\ stack.work = Nothing
                /\ UNCHANGED <<publishing, stack>>

\* Blocked, a command fails, or the connection is lost.
GiveUp(d) == /\ dep[d].at \notin {"idle", "deployed", "failed", "lost"}
             /\ Step(d, dep[d].at, IF dep[d].at = "run" THEN "lost" ELSE "failed")
             /\ UNCHANGED <<publishing, stack>>

-----------------------------------------------------------------------------
PushStep(p) == \/ \E c \in Checkout, t \in Tag, f \in File : Start(p, c, t, f)
               \/ Compile(p) \/ Hash(p) \/ Build(p) \/ Publish(p) \/ Inspect(p)
               \/ Open(p) \/ Write(p) \/ Check(p) \/ Fail(p) \/ Kill(p)

DeployStep(d) == \/ \E c \in Checkout, f \in File : Validate(d, c, f)
                 \/ \E answered \in BOOLEAN : Preflight(d, answered)
                 \/ Pull(d) \/ Remove(d) \/ Run(d) \/ RunFails(d)
                 \/ Postcheck(d) \/ GiveUp(d)

Next == \/ \E c \in Checkout : \E head, work \in Source : Edit(c, head, work)
        \/ \E p \in Push : PushStep(p)
        \/ \E d \in Deploy : DeployStep(d)
        \/ \E child \in Procs : ChildExits(child)
        \/ Occupy \/ Vacate \/ Terminate \/ Restart

Spec == Init /\ [][Next]_vars
-----------------------------------------------------------------------------
Record == [commit : Source, profile : Locks, daemon : Source, tag : Tag, digest : Image,
           clean : BOOLEAN]

PushPC == {"idle", "compile", "hash", "build", "publish", "inspect", "open", "write",
           "check", "done"}
DeployPC == {"idle", "preflight", "pull", "remove", "run", "postcheck", "deployed",
             "failed", "lost"}

PushState == [at : PushPC, checkout : Checkout \cup {Nothing}, tag : Tag \cup {Nothing},
              out : File \cup {Nothing}, profile : Locks \cup {Nothing},
              commit : Source \cup {Nothing}, daemon : Source \cup {Nothing},
              digest : Image \cup {Nothing}, clean : BOOLEAN]
DeployState == [at : DeployPC, lock : Locks \cup {Nothing}, record : Record \cup {Nothing},
                blind : BOOLEAN]

PushTypeOK ==
  /\ tree \in [Checkout -> [head : Source, work : Source]]
  /\ bin \in [Checkout -> Source \cup {Nothing}]
  /\ local \in [Tag -> Image \cup {Nothing}]
  /\ registry \in [Tag -> Image \cup {Nothing}]
  /\ files \in [File -> Record \cup {Nothing, Torn}]
  /\ push \in [Push -> PushState]
  /\ edits \in 0..MaxEdits

DeployTypeOK ==
  /\ dep \in [Deploy -> DeployState]
  /\ stack \in Stack \cup {Nothing}

TypeOK == PushTypeOK /\ DeployTypeOK

\* The image of a build of commit s and nothing else.
BuiltFrom(s) == [daemon |-> s, rest |-> s]

True(record) == /\ record.digest = BuiltFrom(record.commit)
                /\ record.daemon = record.commit
                /\ record.profile = Lock[record.commit]

(* "bind the publication to an immutable registry digest"                  *)
(* (harbor_push.sh:2-3): the image that a record names was built from the  *)
(* commit, the daemon and the profile it names, whatever earlier, failed   *)
(* or killed pushes left behind - provided that the working tree was that  *)
(* of the commit and that no other push used the checkout or the tag at    *)
(* the same time.  Without the proviso it fails: nothing looks at git      *)
(* status, and the digest is asked for by tag.                             *)
RecordsAreTrue ==
  \A f \in File : (files[f] \notin {Nothing, Torn} /\ files[f].clean) => True(files[f])

(* What runs on the node, through every restart, retagging and rival       *)
(* deployment, is the image of a whole record that the script which        *)
(* started it had validated against its lock; so a true record makes the   *)
(* stack what the record says ("mutable tag deployed" is the falsifier of  *)
(* BLITTER-09, BLITTER_CLAIM_REGISTRY_V2.md:18).                           *)
RunsWhatWasRecorded ==
  stack # Nothing =>
    LET d == dep[stack.by]
    IN /\ d.record \in Record /\ stack.image = d.record.digest
       /\ d.record.profile = d.lock
       /\ d.record.clean => stack.image = BuiltFrom(d.record.commit)

(* "refuses to kill a running daemon unless live /status proves idle"      *)
(* (BLITTER_GAUNTLET_REMEDIATION_V1.md:28): a deployment destroys no work  *)
(* that was under way when its preflight looked, not even on a stack that  *)
(* does not answer - provided that docker inspect answered it; a docker    *)
(* that did not is taken for a node on which nothing runs, and the work is *)
(* destroyed (harbor_deploy.sh:97,145,170).  So is work that began after   *)
(* the preflight: nothing reserves the stack until docker rm -f.           *)
OldWorkIsSpared ==
  [][\A d \in Deploy :
       (Remove(d) /\ stack # Nothing /\ stack.work # Nothing /\ ~dep[d].blind) =>
          d \in stack.work]_vars

(* Once a deployment has started a stack, the node is without a container  *)
(* only while a script is between docker rm and docker run, or after one   *)
(* was lost just there; a failed validation, preflight, pull or postcheck  *)
(* leaves a container behind.                                              *)
GapOnlyWhileReplacing ==
  (stack = Nothing /\ \E d \in Deploy : dep[d].at \in {"postcheck", "deployed"}) =>
    \E d \in Deploy : dep[d].at \in {"run", "lost"}
=============================================================================
