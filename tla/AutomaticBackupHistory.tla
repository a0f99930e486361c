----------------------- MODULE AutomaticBackupHistory -----------------------
(***************************************************************************)
(* AutomaticBackup with a record of what it did: the backups it started in *)
(* the last day, and when each root was last marked.  The limits of the    *)
(* policy are stated on this record, not on the counters the code keeps.   *)
(***************************************************************************)
EXTENDS AutomaticBackup, Sequences

VARIABLES
    starts,   \* sequence of [root, age, total, cleaned], the oldest first; total
              \* is the bytes of the backups from the first one to this one
    marked    \* [Roots -> Nat]: the age of the last mark, up to FullReconcile

historyVars == <<vars, starts, marked>>

InitHistory == Init /\ starts = << >> /\ marked = [r \in Roots |-> 0]

(* The bytes of the first k backups. *)
FirstBytes(k) == IF k = 0 THEN 0 ELSE starts[k].total

Started == loop.at = "poll" /\ loop'.at = "prepare"

(* Backups of a root that has been clean since are told apart. *)
Observed ==
    [i \in DOMAIN starts |-> [starts[i] EXCEPT !.cleaned = @ \/ starts[i].root \notin dirty']]

Record(marks) ==
    /\ starts' = IF Started
                 THEN Append(Observed,
                             [root |-> loop'.root, age |-> 0, cleaned |-> FALSE,
                              total |-> FirstBytes(Len(starts)) + (state'.bytes - Windowed(state).bytes)])
                 ELSE Observed
    /\ marked' = [r \in Roots |-> IF r \in marks THEN 0 ELSE marked[r]]

(* The number of backups that are a day old after this unit of time. *)
Expired == Max({0} \cup {i \in DOMAIN starts : starts[i].age + 1 >= Day})

RecordTick ==
    /\ starts' = [i \in 1 .. Len(starts) - Expired |->
                     [starts[i + Expired] EXCEPT !.age = @ + 1, !.total = @ - FirstBytes(Expired)]]
    /\ marked' = [r \in Roots |-> Min({marked[r] + 1, FullReconcile})]

NextHistory ==
    \/ Poll /\ Record(IF ReconciliationDue THEN Roots ELSE {})
    \/ Unmarking /\ Record({})
    \/ \E r \in Roots : StartupMark(r) /\ Record({r})
    \/ \E r \in Noisy : (Change(r) \/ Remark(r) \/ CrashInMark(r)) /\ Record({r})
    \/ \E S \in SUBSET Roots : CrashInReconcile(S) /\ Record(S)
    \/ Tick /\ RecordTick

SpecHistory == InitHistory /\ [][NextHistory]_historyVars

-----------------------------------------------------------------------------
(* The daily limits poll_automatic_backup keeps for windows that start at  *)
(* its own polls, and in a record of its own: in no span of a day more     *)
(* than two windows' worth of backups and bytes is started, whatever       *)
(* crashes in between.                                                     *)
DailyLimits ==
    /\ Len(starts) <= 2 * CountLimit
    /\ FirstBytes(Len(starts)) <= 2 * ByteLimit

(* minimum_interval_seconds: as long as a root stays dirty, its attempts   *)
(* are that far apart, although marks, reconciliations, checkpoints of     *)
(* siblings and restarts rewrite its schedule in between.                  *)
AttemptsSpaced ==
    \A i, j \in DOMAIN starts :
        i < j /\ starts[i].root = starts[j].root
            => starts[i].cleaned \/ starts[i].age >= starts[j].age + MinInterval

(* The time of a full reconciliation is stored before the roots are        *)
(* marked: a root that was not marked since is one the restarted watcher   *)
(* is about to mark.                                                       *)
ReconcileMarks == \A r \in Roots : marked[r] <= state.reconcile \/ r \in starting

=============================================================================
