-------------------------- MODULE AutomaticBackup --------------------------
(***************************************************************************)
(* Automatic backup: when the daemon starts a backup of a dirty root on    *)
(* its own (crates/mb-node/src/automation.rs and the polling functions of  *)
(* node.rs), and the backup jobs of the guild's coordinator it waits for.  *)
(*                                                                         *)
(* The code compares clock readings with periods and with each other, and  *)
(* does nothing else with them.  A reading is therefore kept as its age,   *)
(* and ages beyond every period only keep their order, so that time has no *)
(* end.  A retry time in the future is kept as the time left.              *)
(***************************************************************************)
EXTENDS Naturals, FiniteSets, FiniteSetsExt

CONSTANTS
    Roots,            \* protected roots, numbered as their ids are ordered
    Quiet,            \* quiet_period_seconds
    MinInterval,      \* minimum_interval_seconds
    FullReconcile,    \* full_reconcile_interval_seconds
    Day,              \* the length of a budget window
    CountLimit,       \* daily_backup_limit
    ByteLimit,        \* daily_byte_limit
    Noisy,            \* roots that change, or are marked, while the daemon runs
    Sizes,            \* what a scan may find a root's logical size to be
    MaxCoordinators,  \* bound on the members that take over as coordinator, in their order
    MaxDisturbances   \* bound on crashes, hard failures, unreadable roots and removed coordinators

ASSUME AutomationAssumption ==
    /\ IsFiniteSet(Roots) /\ Roots \subseteq Nat \ {0} /\ Roots # {}
    /\ {Quiet, MinInterval, FullReconcile, Day, CountLimit, ByteLimit} \subseteq Nat \ {0}
    /\ Noisy \subseteq Roots /\ MaxDisturbances \in Nat
    /\ Max(Sizes) \in Nat /\ Sizes \subseteq 0 .. Max(Sizes) /\ Sizes # {}
    /\ MaxCoordinators \in Nat \ {0}

Coordinators == 1 .. MaxCoordinators

Oldest == Max({Quiet, MinInterval})            \* ages above this only matter by their order
Never == Oldest + Cardinality(Roots) + 1       \* the age of an attempt that was not made
Unscheduled == Never + 1                       \* no schedule record for this root
Blocked == Day + MinInterval + 1               \* blocked_reason without a retry time

VARIABLES
    dirty,         \* set of roots: "root-dirty" records, durable
    captured,      \* set of roots whose head was captured at the record's present change sequence
    head,          \* [Roots -> {"none", "open", "committed"}]: the local revision head
    certified,     \* set of roots whose open head is in a quorum checkpoint
    state,         \* the durable AutomaticBackupState
    guild,         \* BOOLEAN: a guild is installed
    coordinator,   \* the guild's present coordinator
    job,           \* [Coordinators -> [Roots -> job state]]: "backup-job" for the head of a root
    loop,          \* run_automatic_backups: where it is, and with which root, coordinator and answer
    starting,      \* set of roots the restarted watcher has not marked yet
    disturbances   \* steps counted against MaxDisturbances

vars == <<dirty, captured, head, certified, state, guild, coordinator, job, loop, starting, disturbances>>

NoRoot == 0
At(place) == [at |-> place, root |-> NoRoot, to |-> 0, ok |-> FALSE]

Init ==
    /\ dirty = Roots /\ captured = {} /\ certified = {}
    /\ head = [r \in Roots |-> "none"]
    /\ state = [since     |-> [r \in Roots |-> 0],          \* dirty_since_unix_seconds of its schedule
                last      |-> [r \in Roots |-> Never],      \* last_attempt_unix_seconds of its schedule
                retry     |-> [r \in Roots |-> 0],          \* its root_retries entry, 0 once it is due
                wait      |-> 0,                            \* retry_at_unix_seconds and blocked_reason
                window    |-> 0, count |-> 0, bytes |-> 0,
                reconcile |-> FullReconcile,                \* last_full_reconcile_unix_seconds
                inFlight  |-> NoRoot]
    /\ guild \in BOOLEAN
    /\ coordinator = 1
    /\ job = [c \in Coordinators |-> [r \in Roots |-> "none"]]
    /\ loop = At("poll")
    /\ starting = {}
    /\ disturbances = 0

Disturb == disturbances < MaxDisturbances /\ disturbances' = disturbances + 1

-----------------------------------------------------------------------------
(* Operations on the durable state.                                        *)

Scheduled(s) == {r \in Roots : s.since[r] # Unscheduled}

(* dirty_since_unix_seconds: the oldest schedule, or now. *)
DirtySince(s) == IF Scheduled(s) = {} THEN 0 ELSE Max({s.since[r] : r \in Scheduled(s)})

ScheduleAnew(s, r, changed) ==
    IF r \notin Scheduled(s) \/ changed THEN [s EXCEPT !.since[r] = 0, !.last[r] = Never] ELSE s

(* mark_root_dirty_at: an existing schedule keeps its time unless the root changed. *)
Schedule(s, r, changed) ==
    IF r \notin Scheduled(s) THEN [s EXCEPT !.since[r] = 0, !.last[r] = Never]
    ELSE IF changed THEN [s EXCEPT !.since[r] = 0] ELSE s

(* The schedules of clean roots are dropped, ... *)
RetainDirty(s, D) ==
    [s EXCEPT !.since = [r \in Roots |-> IF r \in D THEN s.since[r] ELSE Unscheduled],
              !.last = [r \in Roots |-> IF r \in D THEN s.last[r] ELSE Never]]

(* ... and a dirty root without one gets the oldest time there is. *)
ScheduleDirty(s, D) ==
    LET kept == RetainDirty(s, D) IN
    [kept EXCEPT !.since = [r \in Roots |-> IF r \in D \ Scheduled(kept) THEN DirtySince(s) ELSE kept.since[r]]]

WindowedHalfDay(s) ==
    IF 2 * s.window >= Day THEN [s EXCEPT !.window = 0, !.count = 0, !.bytes = 0, !.wait = 0] ELSE s

(* The daily window starts over, and with it everything that waited. *)
Windowed(s) ==
    IF s.window >= Day THEN [s EXCEPT !.window = 0, !.count = 0, !.bytes = 0, !.wait = 0] ELSE s

(* automatic_backup_finished without success: a hard error blocks every    *)
(* root, any other delays this one.                                        *)
Failed(s, r, hard) ==
    IF hard THEN [s EXCEPT !.inFlight = NoRoot, !.wait = Blocked]
            ELSE [s EXCEPT !.inFlight = NoRoot, !.wait = 0, !.retry[r] = MinInterval]

(* Roots in the order poll_automatic_backup considers them. *)
Before(s, a, b) ==
    \/ s.since[a] > s.since[b]
    \/ s.since[a] = s.since[b] /\ s.last[a] > s.last[b]
    \/ s.since[a] = s.since[b] /\ s.last[a] = s.last[b] /\ a < b

EligibleOnceAllQuiet(s) ==
    {r \in Scheduled(s) : /\ \A q \in Scheduled(s) : s.since[q] >= Quiet
                          /\ s.last[r] >= MinInterval /\ s.retry[r] = 0}

Eligible(s) ==
    {r \in Scheduled(s) : s.since[r] >= Quiet /\ s.last[r] >= MinInterval /\ s.retry[r] = 0}

Unreadable == ByteLimit + 1 + Max(Sizes)   \* the scan of the root fails

(* The scan stops at the first root that fits the remaining bytes; the     *)
(* roots before it are to be retried, tomorrow if they are too large.      *)
Selectable(s, size) == {r \in Eligible(s) : size[r] + s.bytes <= ByteLimit}

First(s, S) == CHOOSE r \in S : \A q \in S \ {r} : Before(s, r, q)

Skipped(s, size) ==
    {r \in Eligible(s) \ Selectable(s, size) :
        \A q \in Selectable(s, size) : Before(s, r, q)}

AfterScan(s, size) ==
    [s EXCEPT !.retry = [r \in Roots |->
        IF r \notin Skipped(s, size) THEN s.retry[r]
        ELSE IF size[r] = Unreadable THEN MinInterval ELSE Day - s.window]]

-----------------------------------------------------------------------------
(* poll_automatic_backup, which holds the node lock throughout.            *)

ReconciliationDue == state.reconcile >= FullReconcile

(* A full reconciliation marks every root, ... *)
Reconciled(s) ==
    [s EXCEPT !.reconcile = 0,
              !.since = [r \in Roots |-> Schedule(s, r, FALSE).since[r]],
              !.last = [r \in Roots |-> Schedule(s, r, FALSE).last[r]]]

(* ... and the rest of the function works with the outcome. *)
Polled == IF ReconciliationDue THEN Reconciled(Windowed(state)) ELSE Windowed(state)
PolledDirty == IF ReconciliationDue THEN Roots ELSE dirty

PollBegins ==
    /\ loop.at = "poll"
    /\ dirty' = PolledDirty
    /\ captured' = IF ReconciliationDue THEN {} ELSE captured
    /\ UNCHANGED <<head, certified, guild, coordinator, job, starting>>

PollIdles(s) == state' = s /\ loop' = At("sleep") /\ UNCHANGED disturbances

PollInFlight ==
    /\ PollBegins
    /\ Polled.inFlight # NoRoot
    /\ state' = IF ReconciliationDue THEN Polled ELSE state
    /\ loop' = At("query")
    /\ UNCHANGED disturbances

PollClean ==
    /\ PollBegins
    /\ Polled.inFlight = NoRoot /\ PolledDirty = {}
    /\ PollIdles([RetainDirty(Polled, {}) EXCEPT !.retry = [r \in Roots |-> 0]])

PollWaits ==
    /\ PollBegins
    /\ Polled.inFlight = NoRoot /\ PolledDirty # {} /\ Polled.wait > 0
    /\ PollIdles(Polled)

PollWithoutGuild ==
    /\ PollBegins
    /\ Polled.inFlight = NoRoot /\ PolledDirty # {} /\ Polled.wait = 0
    /\ ~guild
    /\ PollIdles([Polled EXCEPT !.wait = Blocked])

PollReady ==
    /\ PollBegins
    /\ Polled.inFlight = NoRoot /\ PolledDirty # {} /\ Polled.wait = 0
    /\ guild

CountLeftInclusive(s) == s.count <= CountLimit

(* backups_started against daily_backup_limit *)
CountLeft(s) == s.count < CountLimit

PollCountLimit ==
    LET s == ScheduleDirty(Polled, PolledDirty) IN
    /\ PollReady
    /\ ~CountLeft(s)
    /\ PollIdles([s EXCEPT !.wait = Day - s.window])

(* The roots are scanned, and the first that is due and fits is started. *)
PollScan ==
    LET s == ScheduleDirty(Polled, PolledDirty) IN
    /\ PollReady
    /\ CountLeft(s)
    /\ \E size \in [Roots -> Sizes \cup {Unreadable}] :
          /\ IF \E r \in Roots : size[r] = Unreadable THEN Disturb ELSE UNCHANGED disturbances
          /\ LET S == Selectable(s, size)
                 r == First(s, S)
             IN IF S = {}
                THEN state' = AfterScan(s, size) /\ loop' = At("sleep")
                ELSE /\ state' = [AfterScan(s, size) EXCEPT
                                     !.last[r] = 0, !.count = @ + 1, !.bytes = @ + size[r], !.wait = 0]
                     /\ loop' = [At("prepare") EXCEPT !.root = r]

Poll == PollInFlight \/ PollClean \/ PollWaits \/ PollWithoutGuild \/ PollCountLimit \/ PollScan

-----------------------------------------------------------------------------
(* submit_local_backup and what run_automatic_backups makes of it.         *)

GivesUp(hard) ==
    /\ IF hard THEN Disturb ELSE UNCHANGED disturbances
    /\ state' = Failed(state, loop.root, hard)
    /\ loop' = At("sleep")

(* prepare_protected_backup: an open head is submitted again, otherwise    *)
(* the root is captured; the coordinator is looked up under the same lock. *)
Prepare ==
    /\ loop.at = "prepare"
    /\ LET r == loop.root IN
       IF head[r] = "open" THEN UNCHANGED <<head, captured, job>>
       ELSE /\ head' = [head EXCEPT ![r] = "open"]
            /\ captured' = captured \cup {r}
            /\ job' = [c \in Coordinators |-> [job[c] EXCEPT ![r] = "none"]]
    /\ loop' = [loop EXCEPT !.at = "send", !.to = coordinator]
    /\ UNCHANGED <<dirty, certified, state, guild, coordinator, starting, disturbances>>

PrepareFails ==
    /\ loop.at = "prepare"
    /\ \E hard \in BOOLEAN : GivesUp(hard)
    /\ UNCHANGED <<dirty, captured, head, certified, guild, coordinator, job, starting>>

(* enqueue_backup, at the coordinator; the answer may be lost. *)
Enqueue ==
    /\ loop.at = "send" /\ loop.to = coordinator
    /\ job' = [job EXCEPT ![coordinator][loop.root] = IF @ = "committed" THEN @ ELSE "pending"]
    /\ \/ loop' = [loop EXCEPT !.at = "record"] /\ UNCHANGED <<state, disturbances>>
       \/ GivesUp(FALSE)
    /\ UNCHANGED <<dirty, captured, head, certified, guild, coordinator, starting>>

SendFailsSilently ==
    /\ loop.at = "send"
    /\ loop' = [loop EXCEPT !.at = "record"]
    /\ UNCHANGED <<dirty, captured, head, certified, state, guild, coordinator, job, starting, disturbances>>

(* The request does not arrive, or at a member that is not coordinator. *)
SendFails ==
    /\ loop.at = "send"
    /\ GivesUp(FALSE)
    /\ UNCHANGED <<dirty, captured, head, certified, guild, coordinator, job, starting>>

(* automatic_backup_submitted *)
Submitted ==
    /\ loop.at = "record"
    /\ state' = [state EXCEPT !.inFlight = loop.root, !.wait = 0]
    /\ loop' = At("sleep")
    /\ UNCHANGED <<dirty, captured, head, certified, guild, coordinator, job, starting, disturbances>>

(* query_local_backup_job asks whoever is coordinator now; without an      *)
(* answer, or for a job under way, the loop goes back to sleep.            *)
Query ==
    /\ loop.at = "query"
    /\ \/ /\ job[coordinator][state.inFlight] \in {"committed", "failed"}
          /\ loop' = [At("finish") EXCEPT !.root = state.inFlight,
                                          !.ok = job[coordinator][state.inFlight] = "committed"]
       \/ loop' = At("sleep") /\ job[coordinator][state.inFlight] \in {"none", "pending"}
    /\ UNCHANGED <<dirty, captured, head, certified, state, guild, coordinator, job, starting, disturbances>>

FinishUncleared ==
    /\ loop.at = "finish"
    /\ state' = IF loop.ok THEN [state EXCEPT !.wait = 0, !.retry[loop.root] = 0]
                           ELSE Failed(state, loop.root, TRUE)
    /\ loop' = At("sleep")
    /\ UNCHANGED <<dirty, captured, head, certified, guild, coordinator, job, starting, disturbances>>

(* automatic_backup_finished; the errors of a failed job speak of a budget. *)
Finish ==
    /\ loop.at = "finish"
    /\ state' = IF loop.ok THEN [state EXCEPT !.inFlight = NoRoot, !.wait = 0, !.retry[loop.root] = 0]
                           ELSE Failed(state, loop.root, TRUE)
    /\ loop' = At("sleep")
    /\ UNCHANGED <<dirty, captured, head, certified, guild, coordinator, job, starting, disturbances>>

-----------------------------------------------------------------------------
(* The coordinator and the guild's checkpoints.                            *)

(* run_coordinator_jobs: the head gets into a checkpoint, and then the job *)
(* is completed.  Other errors leave it pending.                           *)
Certify(r) ==
    /\ job[coordinator][r] = "pending" /\ r \notin certified /\ head[r] = "open"
    /\ certified' = certified \cup {r}
    /\ UNCHANGED <<dirty, captured, head, state, guild, coordinator, job, loop, starting, disturbances>>

CompleteJob(r) ==
    /\ job[coordinator][r] = "pending" /\ (r \in certified \/ head[r] = "committed")
    /\ job' = [job EXCEPT ![coordinator][r] = "committed"]
    /\ UNCHANGED <<dirty, captured, head, certified, state, guild, coordinator, loop, starting, disturbances>>

(* A parity host is full. *)
FailJob(r) ==
    /\ job[coordinator][r] = "pending" /\ r \notin certified /\ head[r] = "open"
    /\ Disturb
    /\ job' = [job EXCEPT ![coordinator][r] = "failed"]
    /\ UNCHANGED <<dirty, captured, head, certified, state, guild, coordinator, loop, starting>>

Cleared == {r \in certified : r \in captured}

(* clear_root_dirty_if_committed, at the acceptance of a checkpoint. *)
AcceptCheckpoint ==
    /\ certified # {}
    /\ head' = [r \in Roots |-> IF r \in certified THEN "committed" ELSE head[r]]
    /\ certified' = {}
    /\ dirty' = dirty \ Cleared
    /\ state' = RetainDirty(state, dirty \ Cleared)
    /\ UNCHANGED <<captured, guild, coordinator, job, loop, starting, disturbances>>

(* The coordinator is removed from the guild; the next member takes over. *)
RemoveCoordinator ==
    /\ coordinator + 1 \in Coordinators
    /\ Disturb
    /\ coordinator' = coordinator + 1
    /\ UNCHANGED <<dirty, captured, head, certified, state, guild, job, loop, starting>>

JoinGuild ==
    /\ ~guild
    /\ guild' = TRUE
    /\ UNCHANGED <<dirty, captured, head, certified, state, coordinator, job, loop, starting, disturbances>>

-----------------------------------------------------------------------------
(* Marks, the operator, crashes and time.                                  *)

(* mark_root_dirty_at *)
Mark(r, changed) ==
    /\ dirty' = dirty \cup {r}
    /\ captured' = captured \ {r}
    /\ state' = Schedule(state, r, changed)
    /\ UNCHANGED <<head, certified, guild, coordinator, job, loop, disturbances>>

(* The watcher has seen a change. *)
Change(r) == Mark(r, TRUE) /\ UNCHANGED starting

(* The root cannot be watched, or its Git history has moved. *)
Remark(r) == Mark(r, FALSE) /\ UNCHANGED starting

(* The watcher marks the roots it attaches to after a restart. *)
StartupMark(r) ==
    /\ r \in starting
    /\ starting' = starting \ {r}
    /\ Mark(r, FALSE)

(* clear_automatic_backup_block, after a change of the storage volumes. *)
ClearBlock ==
    /\ Disturb
    /\ state' = [state EXCEPT !.wait = 0, !.retry = [r \in Roots |-> 0]]
    /\ UNCHANGED <<dirty, captured, head, certified, guild, coordinator, job, loop, starting>>

RestartUnmarked == Disturb /\ loop' = At("poll") /\ UNCHANGED starting

Restart ==
    /\ Disturb
    /\ loop' = At("poll")
    /\ starting' = Roots

Crash ==
    /\ Restart
    /\ UNCHANGED <<dirty, captured, head, certified, state, guild, coordinator, job>>

(* Within mark_root_dirty_at: the root is dirty and has no schedule. *)
CrashInMark(r) ==
    /\ Restart
    /\ dirty' = dirty \cup {r}
    /\ captured' = captured \ {r}
    /\ UNCHANGED <<head, certified, state, guild, coordinator, job>>

(* Within poll_automatic_backup: the time of the reconciliation is stored  *)
(* and only the roots S are marked.                                        *)
CrashInReconcile(S) ==
    /\ loop.at = "poll" /\ ReconciliationDue
    /\ Restart
    /\ dirty' = dirty \cup S
    /\ captured' = captured \ S
    /\ LET all == Polled IN
       state' = [Windowed(state) EXCEPT !.reconcile = 0,
                    !.since = [r \in Roots |-> IF r \in S THEN all.since[r] ELSE @[r]],
                    !.last = [r \in Roots |-> IF r \in S THEN all.last[r] ELSE @[r]]]
    /\ UNCHANGED <<head, certified, guild, coordinator, job>>

(* Within clear_root_dirty_if_committed: the schedules are left. *)
CrashInAccept ==
    /\ certified # {}
    /\ Restart
    /\ head' = [r \in Roots |-> IF r \in certified THEN "committed" ELSE head[r]]
    /\ certified' = {}
    /\ dirty' = dirty \ Cleared
    /\ UNCHANGED <<captured, state, guild, coordinator, job>>

(* Ages above Oldest are replaced by the smallest ones in the same order. *)
Squeeze(ages, keep) ==
    [r \in Roots |-> IF ages[r] <= Oldest \/ r \in keep THEN ages[r]
                     ELSE Oldest + Cardinality({ages[q] : q \in {p \in Roots \ keep :
                                                   Oldest < ages[p] /\ ages[p] <= ages[r]}})]

Older(ages, keep) == Squeeze([r \in Roots |-> IF r \in keep THEN ages[r] ELSE ages[r] + 1], keep)

Less(n) == IF n = 0 THEN 0 ELSE n - 1

(* A unit of time passes.  The loop sleeps for one unit between polls, and *)
(* a poll that is due is not put off.                                      *)
Tick ==
    /\ loop.at # "poll"
    /\ state' = [state EXCEPT
           !.since = Older(@, {r \in Roots : state.since[r] = Unscheduled}),
           !.last = Older(@, {r \in Roots : state.last[r] = Never}),
           !.retry = [r \in Roots |-> Less(@[r])],
           !.wait = IF @ = Blocked THEN @ ELSE Less(@),
           !.window = Min({@ + 1, Day}),
           !.reconcile = Min({@ + 1, FullReconcile})]
    /\ loop' = IF loop.at = "sleep" THEN At("poll") ELSE loop
    /\ UNCHANGED <<dirty, captured, head, certified, guild, coordinator, job, starting, disturbances>>

Submit == Prepare \/ PrepareFails \/ Enqueue \/ SendFails \/ Submitted \/ Query \/ Finish

Coordinate(r) == Certify(r) \/ CompleteJob(r) \/ FailJob(r)

(* Steps that mark no root. *)
Unmarking ==
    \/ Submit \/ AcceptCheckpoint \/ RemoveCoordinator \/ JoinGuild \/ ClearBlock \/ Crash \/ CrashInAccept
    \/ \E r \in Roots : Coordinate(r)

Next ==
    \/ Poll \/ Unmarking \/ Tick
    \/ \E r \in Roots : StartupMark(r)
    \/ \E r \in Noisy : Change(r) \/ Remark(r) \/ CrashInMark(r)
    \/ \E S \in SUBSET Roots : CrashInReconcile(S)

Spec == Init /\ [][Next]_vars

(* The daemon's loops keep running, its requests return, clocks advance,   *)
(* and the coordinator works on its jobs and spreads its checkpoints.      *)
Fairness ==
    /\ WF_vars(Poll \/ Submit) /\ WF_vars(Tick) /\ WF_vars(AcceptCheckpoint)
    /\ \A r \in Roots : WF_vars(Certify(r) \/ CompleteJob(r)) /\ WF_vars(StartupMark(r))

-----------------------------------------------------------------------------
(* AutomaticBackupState *)
Records ==
    [since : [Roots -> 0 .. Unscheduled], last : [Roots -> 0 .. Never],
     retry : [Roots -> 0 .. Max({Day, MinInterval})], wait : 0 .. Day \cup {Blocked},
     window : 0 .. Day, count : 0 .. CountLimit, bytes : 0 .. ByteLimit,
     reconcile : 0 .. FullReconcile, inFlight : Roots \cup {NoRoot}]

Loops ==
    [at : {"poll", "sleep", "prepare", "send", "record", "query", "finish"},
     root : Roots \cup {NoRoot}, to : Coordinators \cup {0}, ok : BOOLEAN]

(* Type invariant: the variables keep the shape of the records they model. *)
TypeOK ==
    /\ dirty \subseteq Roots /\ captured \subseteq Roots /\ starting \subseteq Roots
    /\ certified \subseteq {r \in Roots : head[r] = "open"}
    /\ head \in [Roots -> {"none", "open", "committed"}]
    /\ state \in Records
    /\ guild \in BOOLEAN /\ coordinator \in Coordinators
    /\ job \in [Coordinators -> [Roots -> {"none", "pending", "failed", "committed"}]]
    /\ loop \in Loops
    /\ disturbances \in 0 .. MaxDisturbances

(* The revision automatic_backup_submitted records as in flight is a job   *)
(* that some coordinator has accepted, whatever was lost or restarted on   *)
(* the way: the loop never waits for a job nobody has.                     *)
InFlightKnown ==
    state.inFlight # NoRoot => \E c \in 1 .. coordinator : job[c][state.inFlight] # "none"

(* The revision in flight ends, unless the coordinator that took the job   *)
(* was removed: query_local_backup_job then asks a member without the job. *)
InFlightEnds ==
    []<>(state.inFlight = NoRoot \/ job[coordinator][state.inFlight] = "none")

(* A mark without a change reaches a root while its backup is under way. *)
Overtaken(r) == r \in captured /\ head[r] = "open" /\ r \notin captured' /\ ~Change(r)

(* A root is attempted again and again until it is clean. *)
Served(r) == []<>(r \in dirty => loop.at = "prepare" /\ loop.root = r)

(* Oldest-first selection in poll_automatic_backup: a dirty root that is   *)
(* no longer changing is attempted until it is clean, however noisy its    *)
(* siblings are and however often their backups fail.                      *)
QuietRootServed == \A r \in Roots : <>[][~Change(r)]_vars => Served(r)

(* The same, if in the end no backup is overtaken by a mark that keeps the *)
(* time since when its root is dirty.                                      *)
QuietRootServedUnlessOvertaken ==
    <>[][\A r \in Roots : ~Overtaken(r)]_vars => QuietRootServed

=============================================================================
