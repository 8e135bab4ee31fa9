# Verification of the Contention Governor

TLA+ modules, TLC configurations and TLAPS proofs for the program in `src/`
(files are named without their directories where there is no doubt). The
governor takes evidence that one workload degrades another, keeps it as
*conflicts*, decides on a bounded *intervention*, fences it by the generations of
everything it was based on, hands it to an *enforcement adapter* and verifies it
by later evidence.

Contents: [inventory](#inventory), [modules](#modules-and-how-they-correspond-to-the-code),
[abstractions](#abstractions), [runs](#what-the-runs-check), [fairness](#fairness-and-deadlock),
[proofs](#what-is-proved), [disagreements](#where-code-and-documents-disagree),
[plan](#plan-and-what-is-not-modelled).

Model-check with `tlc -config lifecycle.cfg MCGovernor` (the module of every
configuration is in `PROJECT.json`), prove with `tlapm GovernorSafety.tla` and so
on for each module whose name ends in `Proofs`, `Safety`, `Accounts` or `Outcomes`.

## Inventory

| component | state | operations | what makes it correct |
|---|---|---|---|
| Governor state machine (`governor.cpp`) | policy with its budget counters, authority context, evidence, conflicts, interventions, fairness, clock | `set_policy`, `set_authority`, `record_worker_boot`, `record_workload_generation`, `advance_epoch`, `ingest_evidence`, `authorize`, `dispatch`, `authorize_and_dispatch`, `on_acknowledge`, `on_action_failed`, `submit_post_action_evidence`, `open`, `save`, `load`, queries | an intervention reaches an adapter at most once and only under the generations it was authorized under; budgets, cooldown and fairness limits hold for every sequence of calls; a restart carries no authority over; only verification resolves a conflict |
| Decision engine (`governor_engine.cpp`) | none, reads the engine state | `make_fence`, `revalidate`, `check_feasibility`, `evaluate_conflict` | hard constraints beat any rank; the decision is deterministic; correlation alone does not authorize disruptive control |
| Policy and budget (`policy.cpp`, `policy.hpp`) | limits, toggles, counters and window | `validate_policy`, `class_eligible`, `workload_policy_for` | see the budget properties |
| Evidence intake (`evidence.cpp`) | none | `structurally_valid`, `validate_evidence`, `compute_degradation` | nothing malformed reaches a conflict |
| Adapters (`adapters.hpp`, TCP adapter in `coordinator.cpp`) | external | `throttle`, ... | every answer, a lost one too, ends the dispatched state |
| Clock (`clock.cpp`) | a steady clock | `now_ms` | - |
| Persistence (`persistence.cpp`) | the state file and the temporary file beside it | `save_state`, `load_state`, `save_to_bytes`, `load_from_bytes` | a crash, a failed call or a power failure leaves the old or the new state; what was saved can be loaded |
| Replay (`replay.cpp`) | none | `replay` | an authorization that followed the evaluation is found again |
| Framed transport (`net.cpp`) | socket buffers, the receive buffer, the write lock | `send`, `receive`, `decode_frames` | frames come out whole, in order and once, however the bytes are cut; nothing is taken for a frame behind an illegal one |
| Coordinator and workers (`dist/`) | connections, the coordinator's governor and state file, a boot id per worker process | hello, report, action, acknowledgement, post-action report; `--mode basic`, `persist`, `resume` | nothing counts as done that was not, and nothing as failed that was; a run ends whatever its workers do; a resumed run leaves what it loaded alone |
| Digests (`digest.cpp`) | none | FNV-1a, CRC-32C | pure arithmetic |
| CLI, benchmark, examples, CUDA proof | none of their own | - | - |

**How they interact.** The coordinator owns one governor; workers submit reports
that become `ingest_evidence` calls. `authorize` asks the decision engine about
a conflict and records an intervention. `dispatch` asks `revalidate` whether the
intervention's fence still stands and calls the adapter, which in the
distributed build sends the action to a worker over a framed connection. The
worker's post-action report becomes `submit_post_action_evidence`. `save`,
`load` and `open` move the whole engine state to and from a file.

**What is hard here.**

* *Concurrency*: one mutex guards every operation, but `dispatch` gives it up
  around the adapter call (`governor.cpp:372`) and writes the answer afterwards
  over whatever happened meanwhile.
* *Staleness*: authorization and dispatch are separate calls; evidence, policy,
  context, worker and coordinator may change in between.
* *Restarts*: `advance_epoch` has to withdraw everything that carries authority
  (evidence, interventions, runs of consecutive actions) and to keep everything
  that limits it (burden, cooldown, budget).
* *Order*: a conflict mixes its reports: the first CURRENT one passes the gate,
  the newest one names the targets, the worst one sets the degradation.
* *Boundaries*: budget windows, cooldown and fairness limits, unsigned time; the
  receive buffer at its limit; decoder limits the encoder does not know.
* *Partial failure*: a save is a sequence of system calls whose results are not
  all looked at; a worker may act and die before it acknowledges; the adapter
  takes the next frame, whatever it is, for the acknowledgement.

`PROJECT.json` lists these hazards one by one at their lines, with the
properties that cover them.

## Modules and how they correspond to the code

```
Policy <- Engine <- Governor <- MCGovernor <- MCClaims (with DocumentedClaims)
            |         |  (MCGovernor also takes Replay and GovernorLeases)
            |         |
            |         +- Replay
            |         +- GovernorLeases --INSTANCE--> ActionLeases
            |         +- DurableGovernor (with Persistence)
            |         |        <- Coordinator <- MCCoordinator
            |         |                 <- CoordinatorProofs <- CoordinatorSafety
            |         |                    (with GovernorAccounts)
            |         +- GovernorProofs <- GovernorSafety <- GovernorAccounts
            |                                             <- GovernorOutcomes
            |                           (with Replay and GovernorLeases)
            +- Ranking <- MCRanking
            |          <- RankingProofs
            +- ActionLeases
Framing <- MCFraming
        <- FramingProofs
```

* **Policy** - enumerations, reports and their validation, policies and their
  validation, `class_eligible`. Only operators.
* **Engine** - the decision pipeline as operators on the parts of the engine
  state they read: `MakeFence`, `Revalidate`, `Feasible`, `Evaluable` (the
  evidence gate), `Candidates`, `Better` (the ranking) and `Decisions`, a set
  with the one selected candidate or empty when `evaluate_conflict` declines.
* **Governor** - class `Governor` as a state machine. Each operation holds the
  mutex from its first read to its last write and is one action; `dispatch` is
  `DispatchBegin` or `DispatchRefused` and, any number of steps of other
  threads later, `DispatchEnd`. `ingest_evidence` is `IngestNew` or
  `IngestKnown`; `submit_post_action_evidence` is `Verify`, `ObserveOnly` or
  `ObserveUnmatched`. A call that returns an error changes nothing and is a
  stutter. `calls` is the set of threads between the two sections of
  `dispatch`; `handed` is the only history variable: how often an intervention
  was handed to an adapter.
* **Ranking** - the candidate loop of `evaluate_conflict` over an arbitrary
  order of the candidates (the code's order comes from two nested loops).
* **ActionLeases** - what the governor promises, without conflicts, budgets or
  evidence: an intervention is a lease that is granted under the generations in
  force, redeemed at most once and only under those, and spent for ever once the
  action has returned or it was withdrawn.
* **GovernorLeases** - the refinement mapping: a lease is *held* while the
  intervention is AUTHORIZED, *redeemed* while its `dispatch` is at the adapter
  and *spent* in every other state. `ImplementsLeases` is `ActionLeases` under
  that mapping.
* **Replay** - `replay` as an operator on the governor's state.
* **Persistence** - `save_state` one system call at a time (open and truncate
  the temporary file, write it, on Windows remove the old file, rename), each of
  which may fail, and what a crash and a power failure leave of the two files.
* **DurableGovernor** - `Governor` with its file: `Memory` is what `save` writes,
  `Decodable` the limits the decoder has, `Resume` is `load` followed by
  `advance_epoch`.
* **Coordinator** - `main` of the coordinator as one thread with a program
  counter `pc`, `main` of the worker processes, the connections between them and
  the environment: processes that die and are started again, a coordinator that
  is killed and resumed, a power failure. Its calls into the governor are the
  actions of `Governor`; saving is that of `Persistence`. Each frame a process
  waits for has an action for its arrival and one for the end of the connection.
* **Framing** - one direction of a `Connection`: `SendBegin` and `SendSome` are
  `send` with its write lock and partial writes; `ReceiveBegin`, `Deliver`,
  `Reject`, `ReadSome` and `ReadEnd` are the loop of `receive`, `DecodeFrames` is
  `decode_frames` and `DecodeAt` one round of its loop.
* **MCGovernor, MCRanking, MCClaims, MCCoordinator, MCFraming** - reports,
  policies, contexts, evaluations, worker configurations and frames of the small
  instances.
* **DocumentedClaims** - statements of the repository's documents, comments and
  tests that the code does not keep.
* **GovernorProofs, GovernorSafety, GovernorAccounts, GovernorOutcomes,
  CoordinatorProofs, CoordinatorSafety, FramingProofs, RankingProofs** - the
  theorems. The first three build on each other: types, then what a step may do
  to conflicts and interventions, then the accounts; GovernorOutcomes has
  resolutions, restarts, replay and the leases. CoordinatorProofs has the types
  of the distributed system, its connections and files, CoordinatorSafety what it
  promises across crashes.

`PROJECT.json` maps every definition to the source lines it stands for. Next to
some definitions stands a faulty variant of them (`BudgetExceeded`,
`DispatchUnmarked`, `BetterButTies`, ...): a dropped check, an off-by-one, a
missing reset. With the variant in place of the definition the property it is
listed with in `PROJECT.json` fails, which shows that the property depends on
that code.

## Abstractions

* Ids are natural numbers; conflicts and interventions are sequences indexed by
  id, because their ids are handed out by a counter. Evidence is a function on
  the ids in use, because reports bring their own ids or ask for one with 0.
* Amounts are percentages, as integers: degradation, floors, thresholds.
* The seven generations that only `set_authority` writes and `revalidate` only
  compares are one `stamp`. A generation or boot of 0 is one never recorded.
* The per-workload and per-policy toggles are sets of mechanisms. A list of
  neighbors is a set.
* Fields nothing reads are dropped (severity, improvement, p99 and the like),
  and so is wording: reasons, rejected candidates and the ranking trace.
* Time is milliseconds; differences are taken modulo `TimeModulus` (2^64 in the
  code), as unsigned subtraction does.
* An adapter call may come back with any outcome for a class that has an
  adapter and with UNAVAILABLE for the others.
* In `Governor` a coordinator restart is `advance_epoch` on the state that was
  loaded; what the file loses or breaks on the way is in `Persistence` and
  `Coordinator`.
* Encoding and decoding keep every field; what is left of the format are the
  limits only the decoder has, and that a torn file fails its length or CRC
  check. A power failure may tear any file, since nothing is synced, but
  directory changes are taken to reach the disk in order.
* `Coordinator` takes frames to arrive whole and in order, which is what
  `Framing` shows of the transport. What a process sent before it died still
  arrives. A worker's start, its hello and its report are one step, with a death
  in between as an alternative; that a worker which sent both died before the
  action is sent is the same as dying then. Connections beyond the two that are
  accepted are left out. The fence of an action, which is not on the wire, is
  kept beside it, with its target and time, to state properties. `performed`, what
  workers did, is a history over all runs; nothing reads it.
* `Coordinator` gives every worker process a boot id of its own. That is an assumption
  on whoever starts the workers: the id is the parameter `--boot`, which defaults
  to 1 (`worker.cpp:15`), and two processes of a worker started with the same one
  could not be told apart by any fence. `FencedBootPerforms` and the theorems from
  `Fenced` rest on it. They do not say that a worker refuses an action of an old
  epoch: it compares nothing (`worker.cpp:76`) and performs it.
* `accept` timing out is a step that may happen whenever no connection waits.
* `Framing` knows of a byte which byte of which frame it is, and of a frame its
  length and what is wrong with it: magic or version, length, checksum. A check
  over bytes that are not those of one frame fails.
* In `Framing` a connection ends only by being closed, after which the bytes written
  before still arrive. A `send` or `recv` that fails while the connection is open
  (`net.cpp:104`, `130-132`, `197-199`), such as a reset that loses bytes already
  written, is out of scope, and `WrittenIsDelivered` does not hold of one.

## What the runs check

Bounds are constants and each one is a guard of the action it limits: `MaxTime`
(clock), `MaxEpoch` (restarts), `MaxBoot`, `MaxGeneration`, `MaxEvidence` (ids the
governor assigns; reports with ids of their own are not limited by it),
`MaxEvidencePerConflict`, `MaxConflicts`, `MaxInterventions`, and `MaxFollowed`
(how many of the interventions are dispatched, answered or failed: 0 in the
budget run, whose properties do not depend on what becomes of them).

| run | question | instance and why it is enough |
|---|---|---|
| `lifecycle` | `TypeOK`, `HandedOnce`, `OldEpochRetired`, `DispatchSettles`: can two threads, late answers, failures, verifications and a restart hand an intervention out twice, keep one of an old epoch alive or leave one dispatched? | two interventions on one conflict, one restart, three reports on it, under a caller's id or under one of two ids that the governor assigns: every pair of operations on an intervention occurs in both orders, a second intervention competes for verification |
| `budget` | `BudgetCapped`, `BudgetExact`, `BurdenExact`, `CooldownSpacing`, `ConsecutiveCapped`, `ReplayConfirms`: the accounts, and whether replay finds a decision again after they were charged | four authorizations of a counted, an evaluated and an uncounted class with limits of 2 and 1, a cooldown of 3 ms, a window of 6 ms and steps of 3 and 7 ms from 0 to 15: the first actions may be at time 0, which `authorize` reads as none, windows roll over twice, steps end exactly at, before and past the boundaries; one restart and one resolution forgive the run of consecutive actions |
| `restart` | `RestartBarrier`, `ImplementsLeases`: does a change of policy, context, boot, generation or epoch between report, authorization and dispatch keep the action back, and is every step one of the leases? | one intervention, a boot and a context with two values each, a policy replaced by an older one and back, two epochs, reports that are CURRENT or awaiting revalidation |
| `verification` | `EvidenceAnchored`, `ConflictUnique`, `ResolutionBacked`, `SecondaryNotHidden`: conflicts reported again and again | two conflicts whose victims are each other's neighbors, two interventions of which one is dispatched, three reports per conflict, observations cured, improved and worse: every verification outcome and lifecycle end occurs |
| `coordinator` | `CoordinatorTypeOK`, `AcknowledgedWasPerformed`, `PerformedNotFailed`, `FencedBootPerforms`, `RecoveredStayClosed`, `CooldownFromRecord`, `SavedLoads`, `ReplacementAtomic`, `RunConcludes`: the distributed system with its failures | three runs of the coordinator in any of the three modes (one that saves and two that resume: the second resumes from a file that says nothing of the first, which is the shortest history in which an action is forgotten), four starts of worker processes in three slots, so that worker 2 can be replaced while its old process still runs, one power failure, both platforms, both roles as the target, steps of exactly the cooldown; `MaxCollectionLen` is 2, the length the longest list of a saved state reaches |
| `framing` | `FramingTypeOK`, `DeliveredInOrder`, `ReceiveAgreesWithDecode`, `OverflowNeedsLargeFrame`, `MalformedSticks`, `WrittenIsDelivered`: the byte stream | three frames from two threads: empty, of the largest size and with each defect; header of 2, checksum of 1 and payload of at most 2 bytes; reads of 3 bytes, so that a read ends inside every part of a frame and one read spans two frames; socket buffers of 4, less than the largest frame |
| `ranking` | `OrderIrrelevant`: does any order of the candidates lead to the same decision? | two interferers that tie in effect, value and cost, twelve policies with four sets of mechanisms and three workload policies, with and without a burden at the limit, and the six throttling classes on one target: every order of the candidates of each |
| `claim_*` | one documented claim each, with its counterexample | see [below](#where-code-and-documents-disagree) |

Type invariants aside, no property repeats a guard: each relates two operations
or two parts of the state. `BudgetExact`, `BurdenExact` and `CooldownSpacing`
compare the counters with the interventions on record; `CooldownSpacing` also
covers the case where an authorization that is not disruptive came first.
`AcknowledgedWasPerformed` and `PerformedNotFailed` compare the record of one
process with the acts of another, and `ReceiveAgreesWithDecode` two ways of taking
the same bytes apart.

## Fairness and deadlock

`DispatchSettles` is checked under `FairSpec`: weak fairness of `DispatchEnd` for
every call in flight, which says that an adapter call returns. Apart from that
call `dispatch` waits only for the mutex, which no operation keeps (`save` holds it
longest, while it writes a file), so the fairness is an assumption on the adapter alone:
in-process adapters return; the TCP adapter returns when a frame arrives or the
connection ends. Its `receive` has no timeout (`coordinator.cpp:42`), so this
rests on the worker: `Coordinator` does not assume it but has the worker, which
in `worker.cpp` answers what it reads or ends.

`RunConcludes` is checked under weak fairness of `ProcessStep`: as long as the
coordinator or a worker can take a step, one of them does. That is the least a
running machine gives; no fairness between processes is needed, because
each waits for a frame or the end of a connection and histories are finite
between two failures. That `accept` gives up after 30 seconds is part of
`ProcessStep`: a coordinator nobody connects to does end. Deaths, starts,
crashes and the clock are not fair.

`WrittenIsDelivered` is checked under weak fairness of `Sending` and of `Receiving`:
a `send` that has begun goes on when the socket has room, and the receiving
side calls `receive` again. The loops of both processes do.

Deadlock is not checked: at its bounds an instance of the governor may have no
operation left, the candidate loop of `Ranking` ends, the coordinator has no
runs left, and a closed connection is done. Everyone waiting on everyone in the
coordinator would violate `RunConcludes`.

## What is proved

All theorems hold for every set of workloads, reports, policies, contexts,
requests, processes and frames and for every bound. Assumptions, which TLC
evaluates in the runs: `WorkloadsAssumption` (workload ids are positive numbers),
`InputsAssumption` (inputs are well typed), `PoliciesAssumption` (a caller installs
a policy whose counters are within its limits; the governor starts from a valid
one), `RankingAssumption` (the evaluations of `Ranking` are well typed),
`CoordinatorAssumption` (slots are given to workers; the coordinator starts from the
default policy and an empty context and asks for a throttle, and workers report
on workloads in the compute domain, as `main` and `worker.cpp` have it),
`FramingAssumption` (sizes are natural numbers; a header, a read and the socket
hold at least a byte). Some theorems state further ones:

* `Policies = {}` - a policy brings its own counters, window and cooldown, so the
  accounts are compared with the interventions on record under one policy.
* `ClockAssumption` - the clock stays below `TimeModulus`, which is 2^64 ms.
* `BudgetAssumption` - the initial policy has counted nothing, in a window that
  is not of the future.
* `MaxCollectionLen >= 2` - it is 2^20 (`persistence.cpp`).
* `Authorities = {}`, or `EpochAssumption` (no context that is set moves the epoch) -
  `set_authority` may install any epoch, and the claims are about systems where
  `advance_epoch` is what changes it.

The theorems and how they are proved:

* **`TypeCorrect`** - `TypeOK` is inductive. One lemma per operation; those on
  helpers (`StoreType`, `FenceType`, `ConsumeType`, ...) give the type of what
  each helper returns.
* **`BudgetNeverExceeded`** - from `TypeOK`: `ConsumeCapped` shows that charging a
  class that was not exhausted keeps every counter within its limit, rolled over
  or not.
* **`EvidenceAlwaysAnchored`, `ConflictsStayUnique`** - both rest on
  `ConflictHistory`: a step leaves each conflict its victim, domain and listed
  reports, adds at most the report it has just stored, and appends at most one
  conflict, for a victim and domain that have none.
* **`HandedOutOnce`** - inductive only with the part that a call in flight was
  handed out once and that states before `DISPATCHED` were handed out never;
  these are conjuncts of `HandedOnce` itself.
* **`OldEpochAlwaysRetired`** - under `Authorities = {}`: `set_authority` may set
  any epoch, so the claim is about systems where only `advance_epoch` does.
  Rests on `InterventionHistory`, which says what a step may do to the
  interventions on record.
* **`ConsecutiveNeverExceeded`** - an action property, from `TypeOK` and the guards
  of `Authorize` by way of what every other action leaves alone.
* **`OrderNeverMatters`** - `Better` is irreflexive, transitive and total on
  candidates (its last two keys, class index and target, tell any two apart),
  so the set of best candidates among those visited is empty or one candidate.
* **`BurdenAlwaysExact`, `BudgetAlwaysExact`, `CooldownAlwaysKept`** (GovernorAccounts)
  - all rest on `AccountsChange`: a step appends one authorized intervention and
  charges policy and target for it, or leaves class, target and time of every
  intervention and all accounts but the run of consecutive actions alone.
  The cardinalities grow by `OneMore`. The cooldown needs `LastRemembered`: no
  action on record is younger than the last one its target remembers. The budget
  needs `WindowKept` besides: no action on record came after the end of the
  window, so that when it is found passed the old actions, all of them before
  now, drop out of the count at the moment the counters are cleared.
* **`ResolutionAlwaysBacked`** (GovernorOutcomes) - inductive as it stands:
  `ResultsKept` and `ResolvedBefore` say that nothing but a verification writes a
  result or resolves a conflict; `VerifyBacks` that the one it does write belongs
  to the conflict whose state it writes.
* **`SecondaryNeverHidden`, `RestartAlwaysBars`** (GovernorOutcomes) - action
  properties, the second with `EpochFloor`: no context that may be set lies
  ahead of the epoch in force.
* **`ReplayAlwaysConfirms`** (GovernorOutcomes) - `DecisionStands`: the evaluation
  reads nothing an authorization writes but the run of consecutive actions of
  the target, which only counts when it reaches the limit.
* **`GovernorImplementsLeases`** (GovernorOutcomes) - every initial state maps to
  one of `ActionLeases` and every step to a step or a stutter. Besides `TypeOK` it
  needs the invariant of `HandedOutOnce`: a call in flight was handed out, and what
  is AUTHORIZED was not, so that no intervention is both. `LeaseStep` turns a change of one
  intervention's phase into the step of its lease.
* **`ReplacementAlwaysAtomic`** (CoordinatorProofs) - with `FileInv`: once a save has
  written, what it is saving is in the temporary file.
* **`CoordinatorTypeCorrect`, `RecoveredAlwaysClosed`** (CoordinatorProofs) - from
  the invariant `CInv`, which also carries the theorems below. `Links` says where
  connections may be and what is on them at each `pc`: the hello and the report on
  one that waits, nothing on its way to a worker before the action is sent; without
  it a frame could be taken for one it is not. `Phase` says how far the
  intervention of the run is at each `pc`, and that the interventions before it are
  those that were loaded; `Files`, that whatever a file holds or a save is
  writing is a well-typed state. `RecoveredStayClosed` needs all three: it is
  `Phase` that keeps `dispatch` and `submit_post_action_evidence` away from
  what was loaded.
* **`FencedBootAlwaysPerforms`, `PerformedNeverFailed`,
  `AcknowledgedAlwaysPerformed`** (CoordinatorSafety) - from `Fenced`. None of the three
  is inductive, because workers compare nothing and an action may be read long
  after its run has ended. So an action, sent or performed, is either that of this
  run (`OfCurrent`) or nobody's (`Unclaimed`): no intervention of this run has its
  fence now or will have it later. For the second part to survive a restart every
  state on disk has to find the action to be none of its own, too (`KnownTo`).
  That a new process gets a boot id no state and no action mentions
  (`BootsCounted`, `HellosFresh`) is what makes the fences of two processes of a
  worker differ; `ConnsFenced` ties the boot id on record to the connection. An
  acknowledgement is on its way only after the action of this run was performed
  (`AcksBacked`).
* **`CooldownKeptFromRecord`** (CoordinatorSafety) - compares what the governor
  decides with what workers suffered: `performed` is a history of all runs that
  nothing clears. `Told`: whatever state, in memory, on disk or being saved,
  mentions the attempt and the fence of an action, sent or performed, has its
  target and its time. An action cannot be mistaken for a later one, because no
  intervention to come has its fence (`Fenced`). `Loaded`: a resumed run has the
  interventions of the state file, which it does not write. `Cool`: while the
  power stays on, every such state remembers the last action on each workload and
  has kept its distances; within a run the step is that of `CooldownAlwaysKept`, by
  `AccountsStep`, and between runs `Restarted` forgives the run of consecutive
  actions and keeps the times. So an action the file tells of is among the
  interventions of every run that resumes from it, and they keep their distance.
  The condition "that the file tells of" is needed: see `claim_cooldown`.
* **`SavedAlwaysLoads`** (CoordinatorSafety) - `SmallRun`: only `--mode persist` saves,
  and it starts empty, admits two workers with one neighbor each and
  authorizes once, so that no list of a saved state is longer than two. For the
  governor by itself the claim is false: `evidenceIds` grows with every report.
* **`AlwaysDeliveredInOrder`** (FramingProofs) - inductive with `FramingInv`: the bytes
  sent and not yet delivered, read or not, are consecutive; they begin with the
  frame after the ones delivered and end where the sender that holds the lock goes
  on. **`FramingTypeCorrect`** (the buffer is bounded), **`OverflowOnlyOfLargeFrame`**
  and **`MalformedAlwaysSticks`** use it.
* **`ReceiveAlwaysAgrees`** (FramingProofs) - `AllAccounted`: there are places that
  cut all bytes ever read into the frames delivered and the buffer; `Ended` and
  `Rejected` say what the buffer is when `receive` has given its last answer.
  `DecodeFollows` is the induction over the bytes: `decode_frames` finds exactly
  those frames. The theorems on induction cannot be used, because they take an
  operator; `LastPlace` takes their part: a set of places has a last one
  (strict inclusion of finite sets is well-founded), and the last place at which
  the claim fails cannot be. `DecodingExists` shows in the same way that the
  recursion of `DecodeFrames` defines a function at all.

Only model-checked: the liveness properties `DispatchSettles`, `RunConcludes` and
`WrittenIsDelivered`, which are out of the prover's reach. Every invariant, every
action property and the refinement that the passing runs check are theorems.

## Where code and documents disagree

Shown by a run:

| run | document | code |
|---|---|---|
| `claim_terminal` | "Terminals stay terminal." (`enums.hpp:126`) | `on_action_failed` accepts every state (`governor.cpp:445`) |
| `claim_correlation` | "Correlation alone must not authorize destructive action." (`README.md:82`) | the first CURRENT report passes the gate, the newest names the target (`governor_engine.cpp:442`) |
| `claim_predispatch` | before dispatch "evidence is still current" (`README.md:182`) | only generations are compared (`governor.cpp:358`) |
| `claim_window` | "Action budgets place exact [...] caps on [...] throttles [...] per window" (`README.md:212`) | an exhausted class is refused before the window could roll over (`governor.cpp:298`) |
| `claim_cooldown` | "Disruptive actions respect a cooldown." (`README.md:212`, also `policy.hpp:105`) | only `--mode persist` saves (`coordinator.cpp:126`): two runs resumed from one file disrupt the same workload 0 ms apart |

Noticed while modelling, kept as the code does it, without a run of their own:

* The degradation of a conflict is the worst of all its reports, stale ones
  too; a CURRENT report of a mild loss then authorizes control
  (`governor.cpp:188`, against `evidence.hpp:6-7`).
* A fence is checked at authorization and dispatch, not at completion
  (`engine.hpp:28-29` promises all three). An answer that arrives after
  `advance_epoch` takes an intervention from OUTCOME_UNKNOWN to ACKNOWLEDGED.
* Any valid post-action report may resolve a conflict, a STALE one included,
  and it does at the actionability threshold; the release threshold and the
  hysteresis count of the policy are not used.
* An AUTHORIZED intervention that was never dispatched can be verified and
  become EFFECTIVE.
* A class that the caller names is checked by `check_feasibility` but not by
  `class_eligible`. The cost ceiling, the protected flag and the minimum service
  floor are not looked at anywhere.
* `maxAnyPerWindow` has a counter, `used.all`, and is never compared with it
  (`governor.cpp:253`), while `README.md:212` promises caps on "total actions per
  window" and `property_tests.cpp:72` checks one.
* `resume` in `coordinator.cpp:89` does not save the epoch it advances, nor the
  action it then takes: every run resumed from that file is in the same epoch, and
  may repeat the action within the cooldown (`claim_cooldown`). A run that is
  killed between the action and the end of its save forgets it in the same way.
* `set_adapters` writes a member that nothing reads; `save` writes the file
  while it holds the mutex.
* An id the governor assigns may be one that a report already used.
* `net.hpp` promises a `receive` that fails on "close-with-partial-frame or malformed
  input"; it also gives up on a legal frame of nearly the largest size when the
  read that completes it brings more than fits (`net.cpp:200`). Called again it
  delivers that frame.
* On Windows the old state file is removed before the new one takes its name,
  and the result of the rename is not looked at, so `save` may report success
  with no state file left (`persistence.cpp:534-545`); `persistence.hpp` calls saves
  atomic. The complete new state is then in the temporary file. `ReplacementAtomic`
  is about the files and does not look at the status that `save` returns.
* `load` and `open` replace the state without the mutex (`governor.cpp:600`). The
  repository calls them only before other threads exist.
* The times in the state file are those of a steady clock that starts again
  with the machine: after a reboot a cooldown may be over at once.
* The loop in `authorize` that looks for a target when the evaluation selected
  none cannot be reached, because a missing selection returns earlier.

## Plan and what is not modelled

Modelled in part:

* *Coordinator*: `--die-after-ack` is a worker that dies after an acknowledgement,
  which workers may do anyway. Frames that do not decode are left out, because no
  worker sends one, and so are worker parameters other than role, victim and
  neighbor.
* *Framed transport*: listening, connecting and accepting are single system
  calls; `Coordinator` has what it sees of them.
* *Enumerations and identifiers*: those the control depends on. Ids stay within
  named bounds; that they saturate at 2^64-1 is not reached.

Not modelled: digests (FNV-1a and CRC-32C are arithmetic over bytes without
control; `Persistence` and `Framing` take the CRC for a check that notices every
change), the command line, benchmark, examples and CUDA proof (they drive the
library and keep no state of their own), and the explanations in decisions
(rejected candidates, reasons, ranking trace), which nothing reads.

Worth doing next: the liveness properties rest on safety facts that could be
theorems, such as that a `dispatch` in flight can always end.
