# Verification of MutualBackup

TLA+ specifications of the parts of MutualBackup where several daemons, tasks
and restarts meet, the TLC configurations that check them on small instances,
and TLAPS proofs of what matters most for every size.

## The system and its parts

A *guild* is a set of daemons that keep erasure-coded copies of each other's
backups. The parts, and where they live:

| part | code | module |
|---|---|---|
| guild state: members, quorum policy, membership epoch, writer and recovery keys, coding groups | `mb-core/src/guild.rs` | `GuildState`, `GuildHistory` |
| guild event log: proposals, signature locks, certificates, dissemination, seed recovery | `mb-node/src/node.rs`, `network/p2p.rs` | `GuildLog` |
| watcher, dirty records, capture, effect of a checkpoint on local records | `mb-node/src/watcher.rs`, `snapshot.rs`, `node.rs`, `mb-store/src/anchor.rs` | `RootProtection` |
| automatic backup scheduling | `mb-node/src/automation.rs`, `node.rs`, `control.rs` | `AutomaticBackup`, `AutomaticBackupHistory` |
| coding attempts: launch, delegation, verdict, failure, retry, renewal, activation, cleanup | `node.rs`, `p2p.rs` | `CodingAttempt` |
| storage volumes: reservation, upload, activation, repair, migration, retirement | `mb-node/src/volume.rs`, `node.rs`, `mb-store/src/database.rs` | `ParityVolumes` |
| checkpoints: signing, transitions, custody, catch-up | `node.rs`, `node/checkpoint_*.rs`, `p2p.rs` | their local effect is in `RootProtection` |
| garbage collection in two generations | `node.rs` | not modelled |
| peer transport and its request queue | `network/p2p.rs` | not modelled |
| packing operation, audits, fetching the shards a repair starts from | `node/packing_operation.rs`, `node.rs`, `p2p.rs` | installing a repaired shard is in `ParityVolumes` |
| port mapping, Tor, DHT publication | `network/*.rs` | not modelled: mostly I/O |
| coding arithmetic, content addressing, catalogs, keys, Git repositories, migration of old records, command line | `mb-core`, `mb-git`, `mb-store`, `cmd` | not modelled: data algorithms, cryptography, sequential tools, parsing |

How they interact: the owner's watcher marks a root dirty; a capture turns it
into a revision; the guild's coordinator runs the backup, which registers the
owner's writer key and adds coding groups through the guild event log; a
checkpoint certified by the guild then commits the revision, and clears the
dirty mark of the owner. `PROJECT.json` lists every part with its status, the
source lines each definition models, and the hazards this work starts from.

## The modules

**GuildState** has no behaviour. It defines the guild state, the event kinds,
which of them are admissible (`Admissible`, `ValidProposal`), their effect
(`ApplyVerified`), when a set of signers authorizes one (`Required`,
`Authorized`) and what a state must satisfy (`Valid`). A state carries its
history of event kinds, which stands for the head hash: every event names its
parent's hash, and hashes are taken to be free of collisions. Writer and
recovery keys obey the same rules and share one table.

**GuildHistory** is the abstract specification: one guild, one history, one
event at a time, with one `Commit...` action per event kind.

**GuildLog** is the distributed one. Each member has its durable records
(`state`, `log`, `lock`, `partial`, job records) and the commit calls that are
running (`tasks`, lost in a crash). Its actions are the handlers: a loop or an
operator starts a call (`Drive`), the call collects signatures
(`AnswerSignRequest`, `Collect`), is finished (`Finish`) and pushed
(`InstallPushed`) or pulled (`PullTail`). A call can be cut off between any two
steps (`Abandon`), a daemon can crash (`Crash`), and a member can lose its disk
and come back from its seed without its locks (`RecoverFromSeed`). Messages are
sets that only grow, so that they are late, repeated, reordered or never
delivered.

| loop or handler in the code | action |
|---|---|
| `reconcile_recovery_key_epoch_once` | `RegisterRecoveryKey` |
| backup worker: claim, writer key, end | `ClaimBackup`, `RegisterWriterKey`, `EndBackup` |
| coding worker: activation | `ActivateCodingGroup`, `EndActivation` |
| retire and forget of groups | `ReconcileGroupLifecycle` |
| `prepare_guild_administration` | `Administer` |
| `sign_guild_event_proposal_inner` | `MaySign`, `Sign` |
| `collect_guild_event_signature` | `Collect` |
| `install_guild_event_inner` | `Install`, `AlreadyInstalled` |
| `sync_guild_event_page` | `PullTail` |
| `adopt_recovered_dynamic_guild` | `RecoverFromSeed` |

**RootProtection** follows a change of a protected root to its backup. The
content of a root is a version number; a scan that overlaps changes yields any
version it may have met. Everything that touches the records holds the node
lock (`LockFree`), for the whole of a capture.

| code | action |
|---|---|
| `run_root_watcher_inner`, `watch_once` | `Start`, `Attach`, `Open`, `SkipRoot`, `Ready`, `Receive`, `MarkDirty`, `LoseRoot`, `Stop` |
| the callback of the `notify` library | `Notify`, `NotifyError` (`TrySend` is its channel) |
| `register` a root; `mark_root_dirty_at` | `RegisterRoot`; `Mark` |
| `prepare_revision`: intent, anchor, finalize, failure | `BeginCapture`, `PublishAnchor`, `FinishCapture`, `FailCapture` |
| `store_checkpoint`, then `clear_root_dirty_if_committed` | `StoreCheckpoint`, `ClearDirty` |
| scheduled reconciliation | `Reconcile` |

**AutomaticBackup** decides when a dirty root is backed up without being asked.
The code only compares clock readings with periods and with each other, so a
reading is kept as its age, and ages beyond every period keep only their order:
time has no end and the state space is finite. **AutomaticBackupHistory** adds
a record of what was started and marked, and states the policy's limits on that
record instead of on the counters the code keeps.

| code | action |
|---|---|
| `poll_automatic_backup` | `Poll`, one disjunct per early return (`PollInFlight`, `PollClean`, `PollWaits`, `PollWithoutGuild`, `PollCountLimit`, `PollScan`) |
| `submit_local_backup` | `Prepare`, `PrepareFails`, `Enqueue`, `SendFails` |
| `automatic_backup_submitted`, `query_local_backup_job`, `automatic_backup_finished` | `Submitted`, `Query`, `Finish` |
| the coordinator's job | `Certify`, `CompleteJob`, `FailJob` |
| `clear_root_dirty_if_committed` | `AcceptCheckpoint` |
| `mark_root_dirty_at` from the watcher, Git operations, restart | `Change`, `Remark`, `StartupMark` |
| a stop between two records of one handler | `CrashInMark`, `CrashInReconcile`, `CrashInAccept` |

**ParityVolumes** is one shard of one coding group on the volumes of one
holder. The control database and each volume's database commit separately, so
an operation is a sequence of durable writes; under the node's lock it is one
action whose outcomes are the states after each write (`Cuts`). Evacuation
resumes from a durable intent and has one action per write.

| code | action |
|---|---|
| `reserve_attempt`, `finish_attempt_upload` | `UploadParity` |
| `activate_attempt_object`, `finalize_attempt` | `ActivateCoding`, `FinalizeAttempt` |
| `install_guild_event_inner`: Add, Forget | `InstallAdd`, `InstallAddAgain`, `InstallForget` |
| `discard_attempt`, `remove_unreachable_matching_attempt`, `settle_attempt_retirements` | `DiscardCoding`, and as parts of it `Discarded`, `Removed`, `Settle` |
| `install_repaired_variable_shard`, `remove_local_variable_emergency_shards` | `Repair`, `RemoveEmergency` |
| `migrate_variable_object`, `resume_variable_migration` | `MigrationBegin`, `MigrationCopy`, `MigrationPublish`, `MigrationWithdraw`, `MigrationFinish` |
| drain, reactivate, retire, configure, scrub, open | `MarkDraining`, `Reactivate`, `RetireVolume`, `Configure`, `Scrub`, `Restart` |

**CodingAttempt** follows one source lane of a checkpoint from the planner to
its coverage. The delegator's jobs are durable records (`db`), each
`put_records` one transaction. The worker (`w`) handles one job at a time and
lets the node go whenever it waits for the network, so results, failure
reports, the planner, guild events, expiry and crashes fall between its steps.
`hold` is what the holders store for an attempt and what cleanup they are owed.

| code | action |
|---|---|
| `queue_variable_coding_lanes`, `enqueue_coding_launch_with_information` | `EnqueueNew`, `EnqueueCoalesced` |
| `process_coding_retry_job`, `execute_coding_retry` | `ClaimRetry`, `RetryStart`, `RetryDrop`, `RetryPick`, `RetryRenew`, `RetryReplan`, `RetryPrepare`, `RetryUpload`, `RetryDelegate`, `RetryFinish` |
| `dispatch_claimed_coding_launch` | `ClaimLaunch`, `LaunchAbandon`, `LaunchRenew`, `LaunchUpload`, `LaunchDelegate`, `LaunchFinish` |
| `process_coding_activation_job` | `ClaimActivation`, `ActMark`, `ActActivate`, `ActSign`, `ActCommit`, `ActFinish`, `ActComplete` |
| `process_delegated_coding_job`, on the coder | `CoderStart`, `CoderUpload`, `CoderVerdict`, `CoderFail`, `CoderInterrupt`, `CoderCleanup`, `CoderReport`, `CoderSubmit`, `CoderStale` |
| `abort_delegated_coding_with_policy`; `process_coding_holder_cleanup_job` | `Abort`; `HolderCleanup` |
| guild events, the clock, restart | `RetireGroup`, `ForgetGroup`, `ChangeMembership`; `Expire`; `Crash` |

The `MC...` modules give values to constants. Where one run asks the same
questions of several small instances, its behaviour belongs to one of them from
the first state on: `MCGuildLogOperator` and `MCParityVolumesInstances` have a
variable `instance` for that, `CodingAttempt` a `budget` of faults, attempts
and epochs, `ParityVolumes` a `setting` (whether shards are emergency ones,
whether rows rot, whether operations are cut), all chosen in the initial state.
`MCAutomaticBackup` adds a specification for a daemon that already has a guild.
The definitions that are named for a fault and stand just before the one they
resemble (`ClearAlways` before `ClearDirty`, `RequiredHalf` before `Required`,
...) are mutants: each replaces its neighbour in one run to show that the
property of that run can fail.

## The runs

| run | instance | what it shows |
|---|---|---|
| `guild_history` | 3 nodes, 2 founders, 1 group, majority and thresholds 1 and 2, 5 events | `Governable`, `RetentionWindow`, `EpochFencesAuthority`, `KeysNeverRevive`, `RemovedForGood` |
| `guild_log_background` | 3 members, all background loops, 4 events, 2 key values, 1 interruption | `LogInvariant` (which implies `Agreement`), `NoSplitVote` |
| `guild_log_progress` | 2 members, 6 events, 1 interruption, fair loops | `VotesDecide`, `ImplementsGuildHistory` |
| `guild_log_operator` | 3 members and an operator, four instances: removals, policy changes and revocations (4 events); rotations and policy changes under a majority (2 events); removals with 1 lost disk (3 events); removals with 2 lost disks (2 events) | `Agreement`, `OneCertificate` |
| `root_protection` | 1 root, 4 versions, 2 disturbances; 2 roots, 2 versions each; channel of 2, fair loops | `ProtectionInvariant`, `NothingForgotten`, `Settles` |
| `root_overflow` | 2 roots, channel of 1 | ends in a violation, see below |
| `auto_backup` | 1 root, a day of 5 ticks, 2 coordinators in turn, 1 disturbance | `InFlightKnown`, `DailyLimits`, `AttemptsSpaced`, `ReconcileMarks` |
| `auto_backup_live` | 2 roots, one of them noisy, fair loops | `QuietRootServedUnlessOvertaken`, `InFlightEnds` |
| `parity_volumes` | nine instances: 2 volumes with repair and evacuation cut anywhere; 2 with repair, evacuation and rot; 2 with rot and cuts; 3 with an evacuation; 3 with a repair; 2 with two attempts of one group and a repair; 2 with two attempts and an evacuation; 1 with two attempts, cut anywhere; 2 with emergency repairs | `RetiredIsEmpty`, `RowsTraced`, `ReceiptLeadsToCopy`, `SettledIsGone`, `EmergencyCleared`, `LastCopyKept`, `ReceiptKept` |
| `parity_live` | 2 volumes, evacuation, cut anywhere, fair loops | `CleanupSettles`, `DrainCompletes` |
| `coding_attempt` | 2 or 3 attempts on 1 or 2 placements, six budgets: 2 of failure, lost answer, crash; 3 of failure, unreachable peer; 4 of blamed coder, expiry, lost signature race; 3 of expiry, crash; 3 of retirement, crash; 2 of membership change, failure, unreachable peer | `LaneOwned`, `InputKept`, `EvidenceHasData`, `BytesOwned` |
| `coding_live` | 3 attempts and any 1 fault but those of the guild; 4 attempts and 2 of failure, lost answer, crash, lost signature race; fair worker | `LaneCovered`, `BytesReleased` |

The type invariants are checked in `guild_history`, `root_protection`,
`auto_backup`, `parity_volumes` and `coding_attempt`.

*What the properties exclude.* Some hold only of part of the behaviours, and
say so in their definitions; TLC finds a counterexample without the condition,
and the hazard at the line named here in `PROJECT.json` describes it.

- `AttemptsSpaced` is about one dirty period of a root. Its last attempt is
  dropped with its schedule when it becomes clean (`node.rs:3301`), so after a
  successful backup the next change waits for the quiet period alone.
- `QuietRootServedUnlessOvertaken`: a root that is marked without a change
  during each of its backups keeps the oldest dirty time and is chosen every
  time (`node.rs:3349`). The daily limit must also exceed the number of roots
  that fail: with a limit of one, a root that fails every day uses it up first.
- `RowsTraced`, `SettledIsGone`, `ReceiptLeadsToCopy` and `ReceiptKept` are
  about one attempt (`OneAttempt`), `CleanupSettles` is checked with one.
  Receipts do not name an attempt: a repeated cleanup takes the equal receipt
  of a successor on the same volume for its own, and fails while the successor
  is active on another volume (`volume.rs:2136`). A node that resumes an
  evacuation of the first attempt while its source is detached publishes the
  copy of the first (`resume_variable_migration`). `LastCopyKept` holds for any
  number of attempts.
- `EmergencyCleared` is about operations that were not cut (`~Cuts`). One cut before its
  receipt, on a volume then detached, is not seen by its removal
  (`volume.rs:1862`).
- No property says that a repair ends: one that retired the receipt of a
  detached volume cannot finish when it reserves space on that volume after its
  return (`volume.rs:2280`).
- `LaneOwned` and `InputKept` are about budgets without retirement and
  membership changes and without expiry and crashes together (`Undisturbed`).
  A crash between naming a renewed launch's successor and removing the launch
  lets the successor's retry yield to a launch that is about to go
  (`node.rs:7431`); after a retirement the finished child of an old retry on a
  remote coder is taken for a live owner, and a retry that crosses an epoch is
  closed and the next backup queues the lane again (`node.rs:8627`).
- `EvidenceHasData`: of two verified results for one placement it holds until
  one of them is bound. The binding of the last one hides that an earlier one
  was already given up (`node.rs:9017`).

*Bounds.* Three members are the smallest guild in which a majority is not
everybody and two quorums can differ; five events allow a key to be rotated,
revoked and rotated again, or a group to be added, retired, forgotten and added
once more. Six events let both founders register, a backup register a writer
key and a group go through its life. The majority instance needs two events: the
first makes the policy a majority, the second is certified by either of two
signer sets. One root with two disturbances covers a crash in a capture that
was itself resumed after a crash. `Capacity` stands for `WATCH_EVENT_CAPACITY` = 256: what matters is
whether it is full when a hint comes, which with two roots that change once
each never happens in a channel of two and does in a channel of one. `SYMMETRY`
is used for key bytes only, in a run without liveness. `CHECK_DEADLOCK FALSE` is set because every bound (events,
versions, interruptions) ends the behaviour.

Two volumes are the least for a copy to move or to be detached while another
takes over, and a third lets a move be undone towards another place; the
instance with three leaves out the cuts to stay finite in minutes.
Three attempts of a lane are an attempt, its successor and the successor's
successor: the hand-overs relate at most three. Each budget holds the
kinds of fault that one question needs, since all kinds at once do not finish;
combinations across budgets are therefore not covered beyond what the table says.
With two pairs of coordinators a lane may run out of fresh ones when coders are
blamed and peers unreachable; that is a shortage of members and not in the
liveness runs. The liveness runs have enough attempts for the faults
they allow, so that a lane is never left for want of an attempt number.

*Fairness.* In `GuildLog` (`FairBackground`, of `BackgroundSpec`, which has no operator), each loop of each daemon keeps running and connected
peers answer requests to sign; which step a loop takes is not assumed, nor that
an operator, an owner or a pushed certificate ever acts. The loops are tokio
tasks that tick for as long as the daemon lives. In `RootProtection`, events
are delivered, the watcher's loop runs, dirty roots are captured and submitted
revisions are committed; this is a daemon with automatic backup enabled, its
limits not exhausted for good, in a guild that makes progress.
In `AutomaticBackup` the loop, the clock, the coordinator and the spreading of
checkpoints go on. In `ParityVolumes` (`FairHolder`, without rot) plans expire, events reach every member
and the daemon's cleanup, repair and drain loops run; uploads and new plans are
not assumed, and in the end the operator leaves the volumes attached and one of
them online. In `CodingAttempt` a worker in the middle of a job goes on
(requests time out), and each job of a queue is claimed again and again while
it can be: `run_delegated_coding_jobs` serves its queues in every round, and
retries and launches have cursors. Claims need strong fairness because a job is
not claimable while another is being handled. Activations have no cursor and
only the queue is fair.

*The violation.* It states what the repository says of the program; the
quotations are in `PROJECT.json`.

`root_overflow`: the watcher's channel is shared by all roots, and a hint that
finds it full is dropped (`watcher.rs:101`). The comment there says that one
pending notification per root is sufficient, and `plan.md:465` asks that an
overflow trigger a reconciliation. Hints are not coalesced per root, so hints
for one root can displace the only hint for another, and no reconciliation
follows: the root is clean and differs from its backup. Where automatic backup
is enabled the next scheduled reconciliation repairs it.

## What is proved

| theorem | statement |
|---|---|
| `GuildHistoryProofs!TypeCorrect` | `Spec => []TypeOK` |
| `GuildHistoryProofs!AlwaysGovernable` | `Spec => []Governable` |
| `GuildHistoryProofs!EpochFences` | `Spec => EpochFencesAuthority` |
| `GuildHistoryProofs!RemovalIsFinal` | `Spec => RemovedForGood` |
| `GuildHistoryProofs!KeysStayDead` | `Spec => KeysNeverRevive` |
| `GuildHistoryProofs!RetentionHonoured` | `Spec => []RetentionWindow` |
| `GuildLogProofs!LogInvariantHolds` | `MaxLosses = 0 => (Spec => []LogInvariant)` |
| `GuildLogProofs!AgreementHolds` | `MaxLosses = 0 => (Spec => []Agreement)` |
| `GuildLogProofs!LogImplementsHistory` | `MaxLosses = 0 => (Spec => ImplementsGuildHistory)` |
| `GuildLogVoteProofs!CertificatesAreUnique` | `MaxLosses = 0 => (Spec => []OneCertificate)` |
| `GuildLogVoteProofs!LoopsNeverSplitTheVote` | `BackgroundSpec => []NoSplitVote` |
| `RootProtectionProofs!TypeCorrect` | `Spec => []TypeOK` |
| `RootProtectionProofs!ProtectionInvariantHolds` | with one root, `Spec => []ProtectionInvariant` |
| `RootProtectionProofs!OneRootNothingForgotten` | with one root, `Spec => []NothingForgotten` |
| `AutomaticBackupProofs!TypeCorrect` | `Spec => []TypeOK` |
| `AutomaticBackupProofs!InFlightAccepted` | `Spec => []InFlightKnown` |
| `AutomaticBackupProofs!ReconciliationReachesAll` | `SpecHistory => []ReconcileMarks` |
| `AutomaticBackupProofs!LimitsKept` | `SpecHistory => []DailyLimits` |
| `AutomaticBackupProofs!IntervalKept` | `SpecHistory => []AttemptsSpaced` |
| `ParityVolumesProofs!TypeCorrect` | `Spec => []TypeOK` |
| `ParityVolumesProofs!RetiredHoldsNothing` | `Spec => []RetiredIsEmpty` |
| `ParityVolumesProofs!LastCopySurvives` | `Spec => LastCopyKept` |
| `ParityVolumesProofs!ReceiptLeads` | `Spec => []ReceiptLeadsToCopy` |
| `ParityVolumesProofs!ReceiptStays` | `Spec => ReceiptKept` |
| `ParityVolumesProofs!EmergencyRemoved` | `Spec => []EmergencyCleared` |
| `CodingAttemptProofs!TypeCorrect` | `Spec => []TypeOK` |
| `CodingAttemptProofs!NoOrphanedBytes` | `Spec => []BytesOwned` |

They hold for every value of the constants that satisfies the named
assumptions (`ConstantsAssumption`, `MaxSequenceAssumption`, `LogAssumption`,
`ProtectionAssumption`, `AutomationAssumption`, `VolumesAssumption`,
`CodingAssumption`): finite sets of ordered node ids and roots, a non-empty
genesis, natural bounds, positive periods and limits, a channel with room for
something, coordinators in pairs of two, a strict rank of attempts.

*Histories.* The inductive invariant is `TypeOK /\ Valid(state)`: a policy that
can be met is only known because `apply` re-validates the state it produces.

*Agreement.* Agreement alone is not inductive: a certificate still in flight
could disagree. `LogInvariant` adds that a member locks one event per sequence
number (`VoteOnce`), that every signature in a call, a partial set or a
certificate is such a lock (`SignaturesAreVotes`), that every log replays to
its member's state with certificates of the state before (`Replayed`), and that
all these states are valid (`StatesValid`). Valid states ask for more than half
of their members, so two certificates of one state share a signer
(`CertificatesIntersect`), who locked once; equal events lead to equal states,
and the histories agree from the genesis on. The argument needs durable locks,
which is why the theorem excludes lost disks.

*One history.* Every vote is for an event within the bounds of `GuildHistory`
(`VotesBounded`), and by `Replayed` histories of the same length are the same. An installation either lengthens the longest history by one valid event,
which is a commit of `GuildHistory`, or brings a shorter one closer to it.

*Votes of the loops.* What a loop proposes makes its member the one that leads
in the state the event extends: the first member without a recovery key, or the
coordinator once there is none. `Voting` says that the leader of its parent
state has voted for every event that anybody voted for; the leader locks once.

*Certificates.* An operator can split a vote, but an event has one proposer
(`CallsOwned`) that keeps the certificate it sent in its log
(`CertificatesKept`). A member removed in the meantime can no longer sign, and
the coordinator stays the same as long as members only leave.

*Protection.* `NothingForgotten` alone is not inductive: the backup of an old
capture may clear a newer mark. `ProtectionInvariant` relates the stamp of
each intent, head and running capture to the dirty record's sequence: if the
stamp is fresh, what was read is up to date, or the watcher is about to mark the
root. With one root, a full channel already holds the root's hint
(`HintKept`); with several roots this step fails, as the `root_overflow` run
shows.

*Automatic backup.* `Tracked` ties the revision in flight to the place of the
loop: it chooses a root only when nothing is in flight, and records an answer
only for a job the coordinator has. For reconciliations, a root not marked since
the stored time is always one the restarted watcher is about to mark. For the
limits and the interval, `Recall` relates the record of what was started to the
counters and schedules the code decides by: the starts of the last day are some
of one earlier window, all at least as old as the current one, and then those
the counters cover (`Budgeted`), so that a window a day old has no predecessor
left; and a root that stayed dirty kept its schedule, whose last attempt is not
older than any of its starts (`Paced`).

*Volumes.* Every write of every operation is followed, since a crash may come
after any of them. What a write adds it adds to open volumes (`Writes`), and
`Holding` says that a retired volume is closed, with no record leading to it. A
write either adds rows and loses no READY one (`Adds`), or drops rows of one
attempt or one body of evidence (`Drops`). `RowInv` carries what these need: READY
rows are named by an attempt that was planned, a transfer is between two
different volumes, a retained group has its transcript, and the receipt leads
to a READY row until an attempt fails or is retired. For the emergency shard,
`EmergencyInv` says that a record leads to every row; the removal completes only
if no record leads to a volume it cannot look into.

*Coding attempts.* `BytesOwned` needs to know what the worker is doing: `IInv`
says that bytes at a holder belong to an attempt that is settled by a record
(`Settled`) or named by a launch or a retry (`Named`), that the worker's job is
the one it claimed (`Claimed`), and what is left of an attempt it aborts
(`Aborts`, `Aborted`). Steps of the planner, the coders, the holders, the guild
and the clock are `Calm`: they take no account of bytes away from the worker.

*Only model-checked.*

- All liveness (`VotesDecide`, `Settles`, `InFlightEnds`,
  `QuietRootServedUnlessOvertaken`, `CleanupSettles`, `DrainCompletes`,
  `LaneCovered`, `BytesReleased`): fairness and ENABLED are out of the prover's
  reach.
- `RowsTraced` and `SettledIsGone`: their inductive invariant must say for every
  write which record of which attempt names each row; only the parts above are
  worked out.
- `LaneOwned`, `InputKept` and `EvidenceHasData`: they depend on the whole chain
  of successors of a lane, and hold in part of the budgets only.
- `Agreement` and `OneCertificate` with lost disks, and `NothingForgotten` for
  several roots: the theorems exclude these, and the arguments need it.

The modules declare no RECURSIVE operators.

## What the models leave out

- Signatures, hashes and encodings are ideal; members follow the code.
- The invitation flow: `AddMember` is in `GuildHistory`, but no call of
  `GuildLog` proposes it. Genesis is already certified in `Init`.
- Operators can split a unanimous vote for good by proposing while a loop
  proposes; the progress run has no operator.
- After a lost disk under a majority policy, a member may sign again where it
  signed before; see the hazards in `PROJECT.json`.
- In `RootProtection`: errors writing the dirty record (logged and ignored by
  `mark_dirty`), roots registered by a restore, replacement of heads after the
  owner's recovery, and overflows of the kernel's own queue.
- In `AutomaticBackup`: a change of the policy while the daemon runs, and
  backups a user asks for (those are in `RootProtection`).
- In `ParityVolumes`: byte counts (any online volume may have room or not),
  objects of the fixed profile, and a repair that picks another volume when it
  is retried.
- In `CodingAttempt`: the delegator as its own coordinator; attempts of formats
  1 and 2; the packed-input cache that can stand in for a lost input record;
  the contents of challenges and transcripts; the ranking of coordinators by
  path. Delegator, coder and holders see one guild state. Information and
  parity bytes of an attempt are not told apart, and the shards of a completed
  activation pass to the group's life, which is not in the module. Two lanes
  that compete for the worker are not modelled.
- At `MaxSequence` a claimed backup stays claimed, and once interruptions are
  used up a call waits instead of being cut off; neither hides a safety step.
