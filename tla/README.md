# Blitter: a TLA+ verification development

This directory holds TLA+ models of the Blitter compute-slot fabric, the TLC
configurations that check them on small instances, and TLAPS proofs of the
results that hold for every value of the constants. Every definition is a
translation of the source; `PROJECT.json` maps each one to the lines it stands
for.

To repeat a check, run `tlc -config DaemonStatus.cfg MCDaemonStatus` for a model and
`tlapm FencedDispatchProofs.tla` for a proof.

## 1. The system

A *slot* is one GPU (or CPU) execution context on some node. Work reaches it in
layers; each layer below keeps state of its own.

| Component (source) | State | Operations | Talks to |
|---|---|---|---|
| lease gate (`experiments/webgpu_blitter/lease_gate.py`) | instance id, epoch counter, at most one lease (identity, deadline, revoked), the identity in flight | acquire, renew, release, status, compute (begin / upstream exchange / finish), expiry, restart | dispatch clients over HTTP; the daemon over HTTP |
| fenced dispatch client (`scripts/cluster/dispatch.py`, `webgpu_submit_fenced`) | the identity it was granted, where it is among its three calls | acquire, compute, release, each with its own timeout | the lease gate |
| GPU daemon (`src/bin/blitter-daemon.rs`) | atomic occupancy counters, the GPU mutex and its poison flag, one thread per connection | POST /compute, GET /status | the gate, the heartbeat, local callers |
| Laurent product kernel (`blitter.wgsl`, `exact_reference` in the daemon) | GPU buffers of one job | four shader passes, exact comparison | the daemon |
| heartbeat (`scripts/cluster/blitter_heartbeat.py`) | announcer: instance id, sequence number; listener: last sequence number per (node, instance) | read /status, announce, receive and annotate | UDP; the status endpoint |
| slot scheduler (`scripts/cluster/slot_scheduler.py`, `spawn_semantics.py`) | none of its own: judges the heartbeats and the work item it is given | slot-pool view, ranking, placement decision | heartbeats in, leases out (by its caller) |
| rank-2 batch runner (`scripts/cluster/rank2_run.py`) | the files of a run: plan, archive, binary, results, merged; remote work directories and containers | plan, submit (a thread per node), verify | nodes over ssh/scp |
| merge fabric (`merge_partition.py`, `fabric_merge_dispatch.py`, `merge.rs`) | `plan.json`; the prepared suffix state; the files under `/tmp/fm` of each host; `aggregate.json` | plan, prepare, dispatch (ship, merge, aggregate) | nodes over scp and ssh |
| U192 codec and normalization (`u192_codec.py`, `u192_normalization_matrix.py`) | none | encode, decode, compare, normalize | merge fabric, tailgain |
| security plugin and client (`security_plugin/main.go`, `security_plugin_client.py`) | cached handshake; key files | handshake, sign, verify | subprocess |
| image provenance and registry deploy (`image_provenance.py`, `harbor_push.sh`, `harbor_deploy.sh`, `blitter-stack-entrypoint.sh`) | the checkout, the binary beside the Dockerfile, tags on the build host and in the registry, provenance records; the container of a node and its two children | push (compile, build, publish, record), deploy (validate, preflight, pull, replace, postcheck), restart | docker, the registry, the stack's `/status` |
| claim gates (`scripts/verify_blitter_*.py`) | none | validate JSON documents | - |
| p2p prototype (`experiments/p2p_legacy`, archived) | gossip table, a copy of the lease protocol, routes | ingest, acquire, route | peers |

What is hard in this code, and what must hold for it:

* **Lease gate.** The exchange with the daemon runs outside the mutex, so lease
  calls, expiry and other compute handlers interleave with it. Authority must
  be exclusive, must never come back once lost, and a result must pass only if
  its lease has held without a gap.
* **Dispatch.** Each of three exchanges may be lost on the way out or back, or
  be served late. Success must mean an authorized result and a closed lease,
  and no way to fail may keep the slot for ever.
* **Daemon.** Counters are separate atomics, read without a lock; panics unwind
  at several places. One job at a time on the GPU, none after a panic under the
  mutex, every request accounted for, every thread released.
* **Heartbeat, scheduler.** Datagrams are lost, repeated, reordered and delayed;
  clocks differ; nodes vanish. Order and loss must be told correctly, remembered
  heartbeats must lose their force for good, and placement must settle.
* **Batch runner.** Processes are killed between and within file writes, remote
  containers outlive their ssh session, submits overlap. A merge must be over
  whole results; finished work must not be lost.
* **Merge fabric.** Copies fail unnoticed, files carry no label of the `N2` they
  belong to, a failed slice is skipped. The slices must be an exact cover within
  the caps; a clean run must find the maximum, and what goes wrong must not make
  the aggregate too large as long as the files that meet belong together.
* **Image and deploy.** Scripts of many commands with any number running side by
  side, killed anywhere, over tags and files that others write. A record must
  tell the truth about its image, the node must run what a record says, and
  replacing a stack must not destroy work nor leave the node bare.
* **U192, kernels.** Pure algorithms: order of words, carries, sentinels.

`PROJECT.json` lists the hazards line by line, each with the properties that
would catch it or the reason why none does.

## 2. Modules

`A -> B` reads "B EXTENDS A", `A => B` reads "A implements B".

    LeaseGate => FencedSlot            (refinement, checked and proved)
    LeaseGate -> FencedDispatch        (gate + callers + daemon execution)
    Daemon -> DaemonStatus             (compute threads + status reader)
    MergePartition -> MergeFabric      (plan + dispatch + files of the hosts)
    Heartbeat  Presence  Placement  Rank2Run  LaurentProduct  ImageDeploy

Proof modules, each EXTENDing the module it is about: `FencedDispatchProofs` (the
lease gate on its own, then the composition), `DaemonProofs`,
`LaurentProductProofs`, `HeartbeatProofs`, `PresenceProofs`, `Rank2RunProofs`,
`MergeFabricProofs` (the planner too), `ImageDeployProofs`.

Each run has an `MC...` module that only names small sets for its `.cfg` file.

### FencedSlot (abstract)
One slot, a holder, the work inside, the identities that are spent. `Grant`,
`Lapse`, `Enter`, `Accept`, `Leave`. No clock, tokens or threads. It is what
`BLITTER_LEASE_FENCING_V1.md` promises, cut down to its transitions.

### LeaseGate
`LeaseState` and the compute handler of `lease_gate.py`. A method that holds the
mutex throughout is one action (`Acquire`, `Renew`, `Release`, `Status`,
`Begin`, `Finish`); the handler is the sequence `Begin`, `Forward`, `Finish`,
`Write`, with everything else allowed in between, and `TraceRaises` for a debug
trace that dies after `begin_compute`. `lease.left` is the time to the deadline;
`Tick` consumes it. Refused calls change nothing, except that a compute or renew
request with an expired lease removes it (`DropExpired`). `Restart` is a new
process: new instance id, epoch 0, handlers gone. `ended` and `accepted` are
history variables, written where the code ends a lease or authorizes a result.

### FencedDispatch
EXTENDS LeaseGate, so the gate in it is the gate that is proved. Each caller has
three requests, each `none / sent / serving / ok / refused`; the caller may give
up on a request at any time, and the request is still served later or never.
`executing` is what the daemon really runs; a failed upstream exchange does not
stop it. `GateRestart` breaks off what is being served.

### Daemon, DaemonStatus
`handle_compute` with one action per access to a shared atomic, per mutex
operation and per reply. `BumpLeadsTo` names the places where `bump()` follows.
`ComputePanics` and `TracePanics` are the two ways to unwind; `Unlock` poisons
when the thread unwinds with the mutex. `DaemonStatus` adds a reader that loads
the two counters of `status_json` that say busy or idle, one after the other, as
often as it likes. Its observer `steady` records which threads have been in one
kind of occupancy since the read began.

### LaurentProduct
The inside of one job, `ComputePanics` and `Computed` of Daemon: the reference
on the CPU, the four passes of `blitter.wgsl`, the comparison. The lanes of the
sort run in any order between barriers (`Compare`, `Barrier`); the passes in
which no lane reads what another writes are one step each. Exponents and
coefficients wrap beyond `MaxExp` and `MaxCoef`. `Exact` and `InDomain` are the
reference, defined by sums over pairs and not by the code's loop. A compute
pass that fails shows as a failed readback (`Return`).

### Heartbeat
Sequence bookkeeping: announcer processes, a network that never forgets a
datagram (so delay, repetition and reordering are all "deliver any, any time",
and loss is "never deliver"), `annotate_received` and the listener's dictionary.
`idGiven` is `--instance-id`.

### Presence
The status read with its timeout, `heartbeat_payload`, delivery, and
`slot_pool_from_heartbeat` evaluated at every moment over *every* heartbeat ever
received. Time is counted in heartbeat intervals; each clock is ahead of real
time by a constant, near the others or beyond the skew limit. `MaxRTT`, the time a
read of `/status` takes at most, is an assumption: `--timeout-ms` bounds each of
its socket operations and not the whole.

### Placement
`rank_slot_pools` and `decide_placement` with the caller's loop around them. The
caller is not in the repository; the module's head lists what is assumed of it.

### Rank2Run
`cmd_submit`, `run_job` and `cmd_verify`. Files are `none / part / whole`. A work
directory that is removed takes its mounts with it: a container started in it
goes on writing where nobody looks (`Unmounted`).

What a thread asks of a node and what the node does are separate steps. `Start`
sends the command of the container; `Mount` is its arrival, at any time, whether
the thread still waits or its submit has timed out or been killed, and it mounts
what then lies at the path, which is the same in every submit. `LatePrepare` and
`LateClean` are the `rm -rf` commands that a thread left on its way (`left`).
`late` is an observer: this container came up after its submit had given up on
it. A killed process takes its local `ssh` and `scp` with it; a local `scp` that
survives its python is not modelled.

### MergePartition, MergeFabric
`allocate_slices` slice by slice: the sums over the later slices from the end
(`Sum`), the capacity check, one share at a time (`Allocate`), and
`validate_partition` at the end. MergeFabric EXTENDS it with `Prepare`,
`Dispatch` and, for each slice in turn, `Ship` (masks, weights, blocked bits, job
and suffix: each arrives, or leaves whatever lay there, or is cut short, on its
own), `Report` or `Fail` or `TimesOut`, and `Aggregate`. The four files of the
suffix are one; if only some of them are replaced, that is a cut one. What the kernel finds for one prefix is the constant `Score`; a
merge over files that do not belong together may answer any number (`Answers`).
Totals are two words of radix `Word` in place of six of 2^32, compared high word
first as `u192_key` does. `clean`, `matched` and `used` are observers: all went
well; every merge that reported ran over whole prefix files of one slice; which
values of `N2` were ever in use.

### ImageDeploy
Three parts over one state. A push is the sequence of commands of
`harbor_push.sh`, with `Edit` for the developer at the same checkout, `Fail` (the
trap removes the binary) and `Kill` (it does not). The record is `Torn` between
`write_bytes`'s truncation and its write. A deployment is the sequence of
`harbor_deploy.sh`; `GiveUp` is any failure, a blocked preflight or a lost
connection, `RunFails` a container that is created and not started. The node has
one container at most, with two children, restarted by docker when both have
gone. An image is the pair (daemon, rest) of sources it was built from; a digest
is the image. `Preflight` asks docker whether a container runs; a docker that does
not answer counts as "none", as in the script. `clean`, `blind` (docker did not
answer this deployment) and the set in `stack.work` are observers.

## 3. Runs

| Run | Question | Instance | Result |
|---|---|---|---|
| `gate` | Is authority exclusive, permanent once lost, fencing every commit; does the gate implement FencedSlot? | 2 handlers, 4 tokens, 3 epochs, 2 processes, TTL 1..2 (offers 0..3), debug tracing on; symmetric in handlers and tokens | pass, 3 472 states |
| `dispatch` | Do lost, late and repeated exchanges leave success sound, late requests harmless and the slot free in the end? | 2 callers, 2 tokens, 2 epochs, 2 gate processes | pass, 65 550 |
| `stale_execution` | Is a new owner alone on the backend? | as above, 1 gate process | violated (finding) |
| `daemon` | One job on the GPU, accounting, silence, ending; does a torn read miss steady work? | 2 requests, unlimited reads, panics in jobs and traces | pass, 125 849 |
| `daemon_torn_status` | Does a torn read miss a request that is inside throughout? | 2 requests | violated (finding) |
| `heartbeat_order` | Do the annotations tell the truth? | 2 announcer processes of 4 heartbeats, id given or made | pass, 270 012 |
| `presence` | Is eligibility bounded by age, and gone for good but for a clock beyond the limit; does a dead node go? | 3 heartbeats, 10 intervals, clocks 0, 1 or 3 ahead, early or no retirement | pass, 279 972 |
| `placement` | Does work settle, and leave a degraded pool? | 3 pools, scores 0, 1, 1, 2 changes around them | pass, 4 500 |
| `laurent` | Do the lanes sort in any order, and is a mismatch never raised for nothing? | 4 terms per factor (16 lanes), exponents 0..3, coefficients -4..3, 9 factors | pass, 365 430 |
| `rank2` | Are results kept, repaired, merged whole, with remote commands that arrive late? | 2 submits, 2 jobs on one node, 1 fault | pass, 2 952 790 |
| `merge` | Is a plan an exact cover, a clean aggregate exact, one over matching files a lower bound? | 2 slices on one host, caps 0..3, weights 1..2, 3 prefixes, 2 values of `N2`, 2 dispatches, 1 copy that is lost or cut, word 2, chunk 2 | pass, 531 508 |
| `deploy` | Do records tell the truth, does the node run a record, is work spared, when is the node bare? | 2 pushes, 2 deployments, one checkout, tag and file, 2 sources that differ in the profile, 1 edit; symmetric in pushes and deployments | pass, 1 559 320 |

**Why the bounds are enough.** In the gate every conflict is between two
identities: the one that holds and the one that comes; a third epoch lets an
identity be older than the previous one, a second process lets equal epochs meet
different instances. TTL 2 gives a lease that is renewed to a longer and to a
shorter life. Two processes of three epochs admit six grants and there are four
tokens (`token_urlsafe` never repeats one), so a behaviour has four grants at
most: enough for a process to use all its epochs and for the next one to grant
over them. In the daemon two requests give the mutex a holder and a waiter, and
the reader two threads, since a snapshot is wrong when one has passed and the
other has not; what holds of the mutex for any number is proved. Heartbeats need
three to have a gap that is then filled late, and a second process to reset the
sequence. Presence needs a horizon beyond the last heartbeat plus its round
trip, the lead of its clock and the age (2 + 1 + 3 + 1 < 10). The age limit is
below the skew limit, as in the code, and below the TTL, so that the age test
decides alone; clocks 3 apart are beyond the skew limit of 2 on either side.
Placement needs three pools, so that a better and an equal alternative exist
beside the current one. Sixteen lanes give the network four rounds, each with
both directions; the factors cancel, repeat keys, wrap on the way to a sum that
is in range, reach the sentinel, leave the domain, fill every lane and none.
Eight terms, 32 bits and 64 lanes are the same network, two rounds longer, and
covered by the proofs. A run needs two submits for an orphan or an overlap, and
two jobs on one node for a queue that is cut short; one fault is what makes an
orphan or a command that comes late, and with two the run passes as well (7 577
772 states). In the merge one copy that is not whole is enough for files of two
slices or two dispatches to meet (with two the run passes as well, 2 818 756
states); two slices on one host are what it takes to find the other's files; the
second dispatch finds those of another `N2`; three prefixes give shares of 0, 1,
2 and 3, a chunk limit that is met and one that is exceeded, and totals 0..3 use
both words. In the deployment a second push and a second deployment are the
rival of the first at every command; one edit separates the tree from HEAD or
moves both.

**Symmetry** is used only in `gate` and `deploy`, which check no liveness
property: handlers and tokens, pushes and deployments, are compared for equality
only.

**Type invariants.** Every module has its `TypeOK`. Where a proof establishes it
(`HeartbeatsAreStamped`, `TypeCorrect`) or needs it as a part of its invariant,
the run spends its time on the other properties.

**Deadlock** is checked except in `merge` and `deploy`, whose systems really may
stop: a plan is refused, the dispatches of the bound are over, every script has
ended and the node has no stack. Others that come to an end do so in an explicit
stuttering action (`AllEnded`, `AllDone`, the `Horizon` disjunct).

**Fairness.** `FairSpec` of Daemon: threads are scheduled and jobs end; a free
mutex is eventually taken, with no order among waiters. `FairDispatchSpec`: time
passes, callers come to the end of a wait (each exchange has a socket timeout in
the code), the gate serves what it received and its handlers run; nothing is
assumed of the daemon, which may hang for ever: the gate's 300 s timeout is
`Finish(h, FALSE)`. `FairSpec` of Presence: time passes, and the announcer sends
what it has read (its read ends within `MaxRTT`, an assumption). `FairSpec` of Placement is an
assumption on the absent caller: it keeps asking, heartbeats keep coming,
checkpoint boundaries keep occurring, and a decision that is possible again and
again (SF) is carried out in the end. The others are safety only.

## 4. Where the code and its documents differ

These are `findings` of `PROJECT.json`, each with its run:

1. `stale_execution`: an upstream timeout clears `in_flight` while the daemon
   computes on, and the next caller owns a gate whose backend is busy.
2. `daemon_torn_status`: between `leave_queue` and `begin_active` a request is in
   neither counter; and even without that gap, `active` is loaded before
   `queued`, so a request that moves between the loads is missed.

Seen while modelling, each reproducible by a small change of a configuration but
not kept as a run:

* The lease gate's `/status` lacks the fields that the heartbeat demands
  (`lease_gate.py:304`, `blitter_heartbeat.py:173`), although
  `scripts/cluster/README.md:209` announces with the URL on which
  `harbor_deploy.sh:4` expects the gate: every heartbeat of such a node says
  `status_ok=false`.
* A legal job with a product whose exponents are both 2^32-1 is refused as a
  GPU/CPU mismatch, for the sort takes that key for padding (drop the premise
  of `NoFalseMismatch`).
* With `idGiven` the sequence starts again under the old key, and the new
  process's heartbeats are flagged duplicate and reordered (drop `~idGiven` from
  `FlagsTellTheTruth`).
* With `MinGain = 0`, which `WorkSpec` accepts, `Settles` fails: the work
  oscillates between two equal pools, for its own occupancy makes the current
  one look full.
* In the daemon a trace that panics between `enter_queue` and `lock` leaves
  `queued` raised for good (drop `~debug` from `AllAccounted`); in the gate, with
  `Debug = TRUE`, a trace that raises between `begin_compute` and the `try` leaves
  `in_flight` set for good (`SlotFreed` fails).
* `active` may exceed one: the mutex is released before the guard is dropped.
* Two status reads with the same `status_seq` may differ in occupancy: the
  counter moves before the sequence number does.
* A heartbeat from a clock that is further ahead than the skew limit is refused
  while it is fresh and accepted when it is old (`slot_scheduler.py:204`; drop the
  premise `-Skew(hb) <= MaxSkew` of `NoRevival`): what the head of the file (lines
  4-6) says of old heartbeats does not hold of such clocks.
* The marker of the running job (`current_job_started_unix_ms`) may be empty while
  a job runs: a `finish_active` that comes late clears that of the next job.
* A container that `rank2_run.py` has asked for (`:409`) and that is still on its
  way when the ssh times out or the submit is killed (`:345-366`: an image pull, a
  nix shell) starts later, in the directory that the next submit has made at the
  same path (`:391`). Then two containers write one `result.json`, and the `scp` of
  a submit with `--rerun` (`:415-418`) may fetch a part and report success (drop
  `late` from `OrphansAreCutOff` or `RerunRepairs`). `verify` refuses such a file.
* A submit killed while it creates `source.tar.gz` or the binary leaves a part
  that every later submit reuses, and none of them can succeed.
* `fabric_merge_dispatch.py:172` prints a failed slice and aggregates the others
  into the same `aggregate.json`: what BLITTER-08 (`docs/specs`) calls a
  falsifier. `CleanRunIsExact` without `clean` fails.
* A prepared suffix state and a dispatch of another `N2` go together unnoticed;
  the aggregate may then be too large (drop `used` from `WitnessedByAPrefix`).
* The eight `scp` of a slice fail one by one (`fabric_merge_dispatch.py:151-159`)
  and `merge.rs:156` asserts the length of the weights only. Masks, weights and
  blocked bits of different slices, or a file cut short, then give a total that
  no prefix has and that may be too large, under a single `N2` (drop `matched`
  from `WitnessedByAPrefix`).
* `merge.rs` fails on the second chunk of a slice above 2^20 prefixes: the read
  buffer is still mapped when `queue.submit` is called with it (`merge.rs:288`); the
  kernel would not have read the start of the chunk either.
* `tailgain.rs:300` compares its words low word first; it is a tool of its own,
  outside the modelled path.
* `harbor_push.sh` takes the commit from HEAD and builds the working tree without
  asking git for changes, and asks the registry for the digest of a *tag*: the
  premise `clean` of `RecordsAreTrue` cannot be dropped.
* `harbor_deploy.sh:97` asks docker within an `if` and discards its error: a
  `docker inspect` that fails reads as "no running container" (`:145`), and `:170`
  removes the busy stack. The script says "Unknown status blocks" (`:91-92`) and
  `BLITTER_GAUNTLET_REMEDIATION_V1.md:28` that it "refuses to kill a running daemon
  unless live /status proves idle" (drop `blind` from `OldWorkIsSpared`).
* Work that begins between the preflight and `docker rm -f` is destroyed, for
  nothing reserves the stack in between; `OldWorkIsSpared` states what is left.
* A container that is between two restarts counts as running and does not answer,
  so a stack that crashes in a loop blocks the deployment that would replace it.
* A connection lost between `docker rm` and `docker run` leaves the node bare.

## 5. Proofs

All proofs are checked by `tlapm` to the last leaf; there are no assumptions
other than the named `ASSUME`s of the modules, which state the types of the
constants (`TTLAssumption`, `TokenAssumption`, ...) and are evaluated by TLC in
the runs above.

### FencedDispatchProofs: the lease gate
The inductive invariant of the gate is `GateInvariant`, the conjunction of

* `TypeOK`;
* `Numbered`: identities number processes and grants in order. No ended identity
  is ahead of the counters, the lease is the latest grant, a revoked lease has no
  time left. None of the safety invariants is inductive without it: from a state
  in which an ended identity carries a future epoch, the next `Acquire` grants
  it again;
* `InFlightKeepsLease`, `OneAtTheDaemon`, `NoResurrection`, `EpochFence`.

Each action has a lemma (`AcquireInvariant`, ...) that it preserves the
conjunction; `NextInvariant` puts them together. The safety theorems follow
by implication, `CommitIsFenced` from the invariant and a case split on
the one action that moves a handler to "writing" (`Finish`), and
`GateKeepsPromise` from `SlotStep`: every step of the gate is, under the
refinement mapping `holder <- identity of the active lease`, a step of
`FencedSlot` or a stutter. Expiry is the interesting case: one `Tick` is a
`Lapse`, although no method of the gate runs.

### FencedDispatchProofs: the composition
`GateStep` says that a step of the composition is a step of LeaseGate or leaves
it alone, so every theorem about the gate carries over (`GateInside`). What is
added is `Told(c)`, one conjunct for each thing a caller may know: an identity
it was given was issued; a compute request that was authorized has its identity
in `accepted`; a release that succeeded has it in `ended`. `SuccessIsSound` then is the
code's condition for success put beside these. `Told` survives every other
action because the histories only grow (`HistoryGrows`).

### DaemonProofs
`OneJobOnTheGPU` and `SilentThreadsPoisoned` rest on `SilenceInv`. `GPUExclusive`
says nothing of a thread that unwinds, and so is not inductive: such a thread
holds the mutex outside the critical section and must poison it before it lets
go. `GateInv` keeps every place inside the mutex tied to its owner and every
trusting place empty once the gate is poisoned; `SilenceInv` adds that, without
traces, a thread leaving unanswered is that owner. At most one job on the GPU
then follows from a set whose members all equal the owner (`AtMostOne`).

`CountersAddUp`: `CountInv` says of each counter that it is the number of threads
between the place that raises it and the one that lowers it (`QueuedOK`,
`ActiveOK`, `TotalOK`, `SettledOK`), which `AllAccounted` says only of a daemon at
rest and so is not inductive. `CountMoves` gives what one thread's move does to
such a number: plus one, minus one, or nothing. `OwnerOK` adds that whoever holds the mutex is at one of the
places inside, so that it is free when all are at rest. `SteadyWorkReported` needs
`ReaderInv`: a value that has been loaded is not zero if some thread has been in
its kind of occupancy ever since the read began.

### LaurentProductProofs
For every `Width` whose square is a power of two (`WidthAssumption`; 8 in the code),
every range of numbers and every set of factors.

`SortInvariant` is about the sort. `Stage` says where the loops over `k` and `j`
are. `Permuted`, from which `SortMoves` follows, keeps a bijection between the
lanes and the products that were loaded; an exchange composes it with a
transposition. `Sorting` is why the network sorts. `SortOrders` speaks of the
end only, and what the stages in between achieve is hard to say of keys and easy
to say of zeros and ones; so a threshold `t` is fixed, and each lane is one if
its key is above `t`:

* `Bitonic(z, m)`: no block of `m` lanes turns more than twice;
  `Directed(z, kk, m)`: within a block of `kk` lanes the blocks of `m` are in order,
  upwards or downwards as `k` tells the lanes. `Network` is both, for all `t`.
* An exchange of a pair takes the conjunction of two such bits to one lane and the
  disjunction to the other (`SettledCleans`). `CleanedBitonic` and
  `CleanedDirected` go from stage `(k, j)` to `(k, j \div 2)`, `MergedBitonic` from the
  last stage of a round to the next round, `DirectedAscends` from the last stage of
  all to the order of the keys. The rest is arithmetic of blocks and bits.
* Between two barriers some pairs have exchanged and others have not. `Settled` is
  what the lanes will hold once those in `todo` have; a `Compare` does not change it
  (`CompareSort`), so the order of the lanes does not matter.
* That `N` is a power of two keeps `k` and `j` divisors of it (`Stage`): every lane has
  its partner among the lanes, and the last round is one block that ascends.

`JobInvariant` adds what each pass leaves for the next one. In the domain of the
reference no product wraps (`ExactProduct`) and the lanes with a product are the
pairs of terms (`LanesArePairs`). After the sort a run of equal keys is all the
lanes of that key (`RunIsWhole`), there is one start for each key, and the sum of
a run is the sum of the reference: it may wrap on the way and does not at the end
(`RunTotal`). So the terms to compact correspond one to one to `Exact` (`Folded`), and
what has been compacted to the lanes that came by (`Placed`), from which `Agrees`,
and `OutFits`, follow.

A sum over a set is a recursive function of the library's. Its equations
(`SumStep`, `SumRemove`, `SumReindexed`) are proved here from first principles: the
induction theorems of the library take an operator as a parameter, so `SetOfNaturals`
states induction about a set, and `SumExists` builds the function size by size.

### HeartbeatProofs
The three properties speak of the whole stream of unflagged heartbeats, while the
listener keeps one number per instance. `TypeOK` says that this number is the end
of the stream; `Streamed(i)` that the stream ascends, holds only what was heard,
and comes from one process unless an operator gave the id. `GapsAccountForLoss`
and `FlagsTellTheTruth` are inductive beside these; the delivery of a flagged
heartbeat (`FlaggedKeeps`) and of an unflagged one (`OrderedKeeps`) are the two
cases that matter.

### PresenceProofs
`PresenceInvariant` is `TypeOK` and `Stamped`: each heartbeat lies between its
reading and its reading plus the status timeout. `EligibilityIsFresh` is
arithmetic from it. `NeverRevived` assumes nothing of the clocks. Its lemma
`EligibilityEnds` goes backwards: what counts after a step counted before, as the
only bound that time can *gain* is the one on a stamp from the future, and the
property speaks of heartbeats that met it already.

### Rank2RunProofs
`MergesAreWhole` needs only `ReadInv`: while nobody submits, what verify has
read is whole and stays so. The other three need `SoloInv`, which is about
submits that follow one another. `Alone` and `OneMount` say who can touch a job
and its directory, where only *prompt* containers count, those that came up
while their submit waited for them: a late one may mount any directory at any
time. `Place` follows the job from a directory that no prompt container mounts
(at "install") to the one that does ("wait") and to a copy that nobody else
opened ("copying"); `Good` follows the output from none to whole, of jobs
without a late container (`Late(j)`), and `Settled` and `Repaired` say which
results a running submit may find whole, and which it must have made so.
`OrphansAreCutOff` alone is not inductive: that a container which comes up in
time finds no other prompt one is what `Prepare` did two steps before its
`Start`. `ThreadSolo` is the lemma that carries the weight: what a thread does
at one job is told by that job alone, because two threads of one submit are at
jobs of different nodes (`Apart`).

### MergeFabricProofs
`PlansAreExact`: the invariant keeps the sums over the later slices (`SumsOK`),
the jobs as a contiguous cover of `0..cursor - 1` (`CoverOK`), and, the point of the
algorithm, that what remains fits into the slices that are left (`CapacityOK`).
`ShareBounds` shows that the lower bound of a share never exceeds its upper one,
whatever the rounding of the weighted target. That the sums are what they should
be is needed only as a recurrence, `later[k-1] = later[k] + item[k]`.

For the fabric, `FileOK` ties each file on a host, unless it is cut short, to a
slice of the plan (`InRange`) and to an `N2` that was in use. Of prefix files
that are `Matched` and pass the assertion of `merge.rs`, `MatchedFiles` derives
that the merge looks at prefixes of the plan only; nothing is claimed of others.
`RunOK` makes the running best the total of a prefix while one `N2` is in use,
and `CleanOK` makes it the largest total of everything before the next job while
all goes well. Two neighbouring ranges are joined by `LargestOfBoth`;
`WordOrder` shows that comparing high words first is comparing numbers. That a
finite range of totals has a largest (`MaxIs`) is an induction by least
counterexample, from the well-foundedness of `<` on the naturals.

### ImageDeployProofs
A push *knows* its way: `Faithful(p)` says what the working tree, the binary, the
tag and its own variables hold at each place as long as it is undisturbed, and
`Apart(p, q)` that two pushes which touch the same checkout or tag are not both
undisturbed. Each command then extends what is known by one fact, and nobody
else's command takes one away (`OthersKeep`). On the node, `Holds(d)` keeps the
validated record with its deployment, `Owned` the stack with the deployment that
started it and `Foreseen` the work with the preflights that could not see it, of
the deployments that docker answered.

### Not proved
Every invariant and every action property of a passing run is stated by a theorem.
Liveness under fairness and ENABLED are out of the prover's reach; model-checked
only are therefore `SlotFreed`, `ReleaseTakesEffect`, `EveryRequestEnds`,
`DeadNodeDisappears`, `Settles` and `Recovers`. The last two are all that is checked of
Placement, so no theorem is about that module yet. The operators of the models
are proved about as far as these theorems need them; nothing is proved of a
model against its source, which is what the `map` is for.

## 6. Not modelled, and the plan

| Step | Module | What | Status |
|---|---|---|---|
| 1 | FencedSlot, LeaseGate | the core | done; proved in FencedDispatchProofs |
| 2 | FencedDispatch, FencedDispatchProofs | composition with callers and daemon | done |
| 3 | Daemon, DaemonStatus, DaemonProofs | GPU daemon | done; all its safety properties proved |
| 4 | Heartbeat, Presence, Placement, HeartbeatProofs, PresenceProofs | presence and placement | done; the spawn envelope is abstracted to compatible / unfit |
| 5 | Rank2Run, Rank2RunProofs | batch runner | done; plan and weights left out |
| 6 | MergePartition, MergeFabric, MergeFabricProofs | exact cover, failed workers, mixed files | done; the kernel's search is a constant |
| 7 | LaurentProduct, LaurentProductProofs | shader passes against the reference | done; all its properties proved |
| 8 | ImageDeploy, ImageDeployProofs | push, record, deploy, container | done; stamp and unfenced legacy stack left out |

Left out for good, with the reason:

* **U192 codec and normalization**: stateless conversions between limbs, bytes and
  numbers; a model would be the identity written twice. The one order of words on
  which a result depends, `u192_key`, is in MergeFabric and proved.
* **Security plugin and client**: cryptography, key files and a subprocess whose
  answers the slot protocol does not depend on.
* **Claim gates**: stateless validators of JSON documents.
* **p2p prototype** (archived): the UDP handler is empty (`pass`) and nothing calls
  `handle_request`, so no message is ever ingested and only local calls run. A
  model could only be of a system that does not exist. What a reader would meet when
  connecting the parts: `acquire` of `lease.py:50` takes no lock, although other
  methods of the class do, and `gossip.py:95` compares sequence numbers without the
  instance, so a restarted node stays unseen until its numbers have caught up.
* **NixOS fleet and MCP gateway** (archived): declarative configuration, no
  program logic of this repository.
* Node identity collection, HTTP parsing and logging; the launchers of
  `dispatch.py` that wrap ssh and slurm; `tailgain`, a tool of its own.
