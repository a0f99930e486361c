--------------------------- MODULE RootProtection ---------------------------
(***************************************************************************)
(* From a change in a protected root to a backup of it in the guild's      *)
(* checkpoint: the filesystem watcher (crates/mb-node/src/watcher.rs), the *)
(* durable dirty record of each root, source capture (snapshot.rs) and the *)
(* acceptance of a checkpoint (node.rs).                                   *)
(*                                                                         *)
(* The watcher, captures and checkpoints run concurrently; everything that *)
(* touches the records holds the node lock, for as long as a whole capture *)
(* takes.  What a root contains is abstracted to a version number.  A scan *)
(* that overlaps a change yields any version it may have seen.             *)
(***************************************************************************)
EXTENDS Naturals, Sequences, FiniteSets, Functions

CONSTANTS
    Roots,           \* protected roots that may be registered
    Capacity,        \* WATCH_EVENT_CAPACITY of the watcher's channel
    MaxChanges,      \* bound on the versions of a root
    MaxDisturbances  \* bound on crashes, errors, reconciliations and unneeded backups

ASSUME ProtectionAssumption ==
    /\ IsFiniteSet(Roots)
    /\ Capacity \in Nat \ {0} /\ MaxChanges \in Nat /\ MaxDisturbances \in Nat

None == [none |-> TRUE]

VARIABLES
    content,       \* [Roots -> Nat]: what is on disk
    registered,    \* set of roots: "protected-root" records, durable
    dirty,         \* set of roots: "root-dirty", durable; an absent record reads as dirty
    sequence,      \* [Roots -> Nat]: its change_sequence, durable
    intent,        \* [Roots -> None or [change, anchor]]: "capture-intent" and its published anchor, durable
    head,          \* [Roots -> [content, change]]: "user-revision-head", with its "revision-root-change", durable
    uncommitted,   \* set of roots whose head is in no checkpoint yet
    saved,         \* [Roots -> Nat]: content of the last checkpointed revision
    watcher,       \* "stopped", "starting", "running" or "stopping": run_root_watcher_inner and watch_once
    watched,       \* set of roots watch_once was called with
    todo,          \* set of roots: starting, those not opened yet; afterwards, those about to be marked
    watch,         \* [Roots -> {"none", "attached", "open"}]: "attached" until the dirty record is written
    events,        \* set of roots with a filesystem event on its way to the callback
    queue,         \* sequence of roots: the callback's channel
    failed,        \* BOOLEAN: watcher_failure
    capture,       \* None or [root, from]: the running capture, which holds the node lock
    clearing,      \* BOOLEAN: a checkpoint is stored and the dirty records are about to follow
    disturbances   \* steps counted against MaxDisturbances

watcherVars == <<watcher, watched, todo, watch, events, queue, failed>>
recordVars == <<registered, dirty, sequence, intent, head, uncommitted, saved>>
vars == <<content, registered, dirty, sequence, intent, head, uncommitted, saved, watcher, watched, todo,
          watch, events, queue, failed, capture, clearing, disturbances>>

Init ==
    /\ content = [r \in Roots |-> 1]
    /\ registered = {}
    /\ dirty = Roots
    /\ sequence = [r \in Roots |-> 0]
    /\ intent = [r \in Roots |-> None]
    /\ head = [r \in Roots |-> [content |-> 0, change |-> 0]]
    /\ uncommitted = {}
    /\ saved = [r \in Roots |-> 0]
    /\ watcher = "stopped" /\ watched = {} /\ todo = {}
    /\ watch = [r \in Roots |-> "none"]
    /\ events = {} /\ queue = << >> /\ failed = FALSE
    /\ capture = None /\ clearing = FALSE
    /\ disturbances = 0

Disturb == disturbances < MaxDisturbances /\ disturbances' = disturbances + 1

LockFree == capture = None /\ ~clearing

(* mark_root_dirty_at for each of these roots. *)
Mark(S) ==
    /\ LockFree
    /\ dirty' = dirty \cup S
    /\ sequence' = [r \in Roots |-> IF r \in S THEN sequence[r] + 1 ELSE sequence[r]]

-----------------------------------------------------------------------------
(* The user and the operator.                                              *)

(* A change of the tree; the kernel reports it if the root is watched. *)
Change(r) ==
    /\ r \in registered
    /\ content[r] < MaxChanges
    /\ content' = [content EXCEPT ![r] = @ + 1]
    /\ events' = IF watch[r] = "none" THEN events ELSE events \cup {r}
    /\ UNCHANGED <<registered, dirty, sequence, intent, head, uncommitted, saved,
                   watcher, watched, todo, watch, queue, failed, capture, clearing, disturbances>>

(* The registration of a root ends by marking it dirty. *)
RegisterRoot(r) ==
    /\ r \notin registered
    /\ registered' = registered \cup {r}
    /\ Mark({r})
    /\ UNCHANGED <<content, intent, head, uncommitted, saved, watcherVars, capture, clearing, disturbances>>

-----------------------------------------------------------------------------
(* The watcher.                                                            *)

TrySendOneMore(q, r) == IF Len(q) <= Capacity THEN Append(q, r) ELSE q

(* try_send into the bounded channel: what does not fit is dropped. *)
TrySend(q, r) == IF Len(q) < Capacity THEN Append(q, r) ELSE q

(* The notification callback, for an event below r. *)
Notify(r) ==
    /\ r \in events
    /\ events' = events \ {r}
    /\ queue' = TrySend(queue, r)
    /\ UNCHANGED <<content, recordVars, watcher, watched, todo, watch, failed,
                   capture, clearing, disturbances>>

(* The notification callback, for an error: it is noted, and try_send is   *)
(* called for every root.                                                  *)
NotifyError ==
    /\ watcher # "stopped"
    /\ Disturb
    /\ failed' = TRUE
    /\ \E order \in [1 .. Cardinality(watched) -> watched] :
          /\ IsInjective(order)
          /\ LET all == queue \o order IN
             queue' = SubSeq(all, 1, IF Len(all) < Capacity THEN Len(all) ELSE Capacity)
    /\ UNCHANGED <<content, recordVars, watcher, watched, todo, watch, events, capture, clearing>>

(* watch_once is called once some root is registered. *)
Start ==
    /\ watcher = "stopped" /\ registered # {}
    /\ watcher' = "starting" /\ watched' = registered /\ todo' = registered
    /\ UNCHANGED <<content, recordVars, watch, events, queue, failed, capture, clearing, disturbances>>

(* A root is being attached, and its dirty record waits for the node lock. *)
Attaching == {r \in Roots : watch[r] = "attached"}

(* The first pass reaches every root; later the health check retries the   *)
(* ones that are not open, unless the loop is waiting to mark another.     *)
Attachable(r) ==
    /\ r \in watched /\ watch[r] = "none" /\ Attaching = {}
    /\ \/ watcher = "starting" /\ r \in todo
       \/ watcher = "running" /\ todo = {}

(* attach_watched_root: the watch is installed first, ... *)
Attach(r) ==
    /\ Attachable(r)
    /\ watch' = [watch EXCEPT ![r] = "attached"]
    /\ UNCHANGED <<content, recordVars, watcher, watched, todo, events, queue, failed, capture, clearing, disturbances>>

(* ... and the dirty record is advanced after it. *)
Open(r) ==
    /\ watch[r] = "attached"
    /\ Mark({r})
    /\ watch' = [watch EXCEPT ![r] = "open"]
    /\ todo' = todo \ {r}
    /\ UNCHANGED <<content, registered, intent, head, uncommitted, saved, watcher, watched, events, queue, failed,
                   capture, clearing, disturbances>>

(* A root that cannot be opened in the first pass is marked and skipped. *)
SkipRoot(r) ==
    /\ Attachable(r) /\ r \in todo
    /\ Disturb
    /\ Mark({r})
    /\ todo' = todo \ {r}
    /\ UNCHANGED <<content, registered, intent, head, uncommitted, saved, watcher, watched, watch, events, queue,
                   failed, capture, clearing>>

Ready ==
    /\ watcher = "starting" /\ todo = {}
    /\ watcher' = "running"
    /\ UNCHANGED <<content, recordVars, watched, todo, watch, events, queue, failed, capture, clearing, disturbances>>

(* The select loop is ready for its next branch. *)
Idle == watcher = "running" /\ Attaching = {} /\ todo = {}

(* A hint is taken from the channel.  A watcher error is only looked for   *)
(* between two branches, so one may be pending.                            *)
Receive ==
    /\ Idle
    /\ queue # << >>
    /\ todo' = {Head(queue)}
    /\ queue' = Tail(queue)
    /\ UNCHANGED <<content, recordVars, watcher, watched, watch, events, failed, capture, clearing, disturbances>>

(* The health check finds a root replaced, remounted or unreadable: its    *)
(* watch is removed.                                                       *)
LoseRoot(r) ==
    /\ Idle
    /\ watch[r] = "open"
    /\ Disturb
    /\ watch' = [watch EXCEPT ![r] = "none"]
    /\ todo' = {r}
    /\ UNCHANGED <<content, recordVars, watcher, watched, events, queue, failed, capture, clearing>>

StopOnError ==
    /\ Idle
    /\ failed
    /\ watcher' = "stopping" /\ watched' = {} /\ todo' = watched
    /\ watch' = [r \in Roots |-> "none"]
    /\ events' = {} /\ queue' = << >> /\ failed' = FALSE
    /\ UNCHANGED <<content, recordVars, capture, clearing, disturbances>>

(* watch_once ends on a watcher error or a changed set of roots, and with  *)
(* it the watches and the channel; all its roots are to be marked.         *)
Stop ==
    /\ Idle
    /\ failed \/ registered # watched
    /\ watcher' = "stopping" /\ watched' = {} /\ todo' = watched
    /\ watch' = [r \in Roots |-> "none"]
    /\ events' = {} /\ queue' = << >> /\ failed' = FALSE
    /\ UNCHANGED <<content, recordVars, capture, clearing, disturbances>>

(* mark_dirty, once the node lock is free, for a hint, a lost root or one  *)
(* of the roots of a watch that ended.                                     *)
MarkDirty(r) ==
    /\ watcher \in {"running", "stopping"} /\ r \in todo
    /\ Mark({r})
    /\ todo' = todo \ {r}
    /\ watcher' = IF watcher = "stopping" /\ todo = {r} THEN "stopped" ELSE watcher
    /\ UNCHANGED <<content, registered, intent, head, uncommitted, saved, watched, watch, events, queue, failed,
                   capture, clearing, disturbances>>

-----------------------------------------------------------------------------
(* Capture.                                                                *)

BeginRestamped(r) ==
    /\ LockFree
    /\ r \in registered /\ r \notin uncommitted
    /\ IF r \in dirty THEN UNCHANGED disturbances ELSE Disturb
    /\ capture' = [root |-> r, from |-> content[r]]
    /\ intent' = [intent EXCEPT ![r] = [change |-> IF r \in dirty THEN sequence[r] ELSE 0,
                                       anchor |-> IF @ = None THEN 0 ELSE @.anchor]]
    /\ UNCHANGED <<content, registered, dirty, sequence, head, uncommitted, saved, watcherVars, clearing>>

(* prepare_protected_backup: an uncommitted head is submitted again as it  *)
(* is; otherwise a capture begins or resumes, stamped with the dirty       *)
(* record's sequence as of when its intent was first written.              *)
BeginCapture(r) ==
    /\ LockFree
    /\ r \in registered /\ r \notin uncommitted
    /\ IF r \in dirty THEN UNCHANGED disturbances ELSE Disturb
    /\ capture' = [root |-> r, from |-> content[r]]
    /\ intent' = IF intent[r] # None THEN intent
                 ELSE [intent EXCEPT ![r] =
                         [change |-> IF r \in dirty THEN sequence[r] ELSE 0, anchor |-> 0]]
    /\ UNCHANGED <<content, registered, dirty, sequence, head, uncommitted, saved, watcherVars, clearing>>

Capturing(r) == capture # None /\ capture.root = r

(* capture_plan: the scanned tree is published as an anchor; one that was  *)
(* published before a crash is used as it is.                              *)
PublishAnchor(r) ==
    /\ Capturing(r)
    /\ intent[r].anchor = 0
    /\ \E v \in capture.from .. content[r] : intent' = [intent EXCEPT ![r] = [change |-> @.change, anchor |-> v]]
    /\ UNCHANGED <<content, registered, dirty, sequence, head, uncommitted, saved, watcherVars,
                   capture, clearing, disturbances>>

(* finalize_capture_records: the revision becomes the head and the intent  *)
(* goes, in one transaction.                                               *)
FinishCapture(r) ==
    /\ Capturing(r)
    /\ intent[r].anchor # 0
    /\ head' = [head EXCEPT ![r] = [content |-> intent[r].anchor, change |-> intent[r].change]]
    /\ uncommitted' = uncommitted \cup {r}
    /\ intent' = [intent EXCEPT ![r] = None]
    /\ capture' = None
    /\ UNCHANGED <<content, registered, dirty, sequence, saved, watcherVars, clearing, disturbances>>

(* Any error discards the anchor and the intent. *)
FailCapture(r) ==
    /\ Capturing(r)
    /\ Disturb
    /\ intent' = [intent EXCEPT ![r] = None]
    /\ capture' = None
    /\ UNCHANGED <<content, registered, dirty, sequence, head, uncommitted, saved, watcherVars, clearing>>

-----------------------------------------------------------------------------
(* Checkpoints.                                                            *)

(* store_checkpoint_with_authority commits a checkpoint that contains the  *)
(* heads of these roots, or (S = {}) only backups of other members; ...    *)
StoreCheckpoint(S) ==
    /\ LockFree
    /\ IF S # {} THEN UNCHANGED disturbances ELSE Disturb
    /\ saved' = [r \in Roots |-> IF r \in S THEN head[r].content ELSE saved[r]]
    /\ uncommitted' = uncommitted \ S
    /\ clearing' = TRUE
    /\ UNCHANGED <<content, registered, dirty, sequence, intent, head, watcherVars, capture>>

ClearAlways ==
    /\ clearing
    /\ dirty' = dirty \ {r \in registered \ uncommitted : head[r].content # 0}
    /\ clearing' = FALSE
    /\ UNCHANGED <<content, registered, sequence, intent, head, uncommitted, saved, watcherVars, capture, disturbances>>

(* ... then clear_root_dirty_if_committed: a root whose head is in the     *)
(* checkpoint is clean if that head was captured at its latest change.     *)
ClearDirty ==
    /\ clearing
    /\ dirty' = dirty \ {r \in registered \ uncommitted : head[r].content # 0 /\ head[r].change = sequence[r]}
    /\ clearing' = FALSE
    /\ UNCHANGED <<content, registered, sequence, intent, head, uncommitted, saved, watcherVars, capture, disturbances>>

-----------------------------------------------------------------------------

(* poll_automatic_backup: the scheduled full reconciliation. *)
Reconcile ==
    /\ registered # {}
    /\ Disturb
    /\ Mark(registered)
    /\ UNCHANGED <<content, registered, intent, head, uncommitted, saved, watcherVars, capture, clearing>>

(* The daemon stops anywhere: records and published anchors survive. *)
Crash ==
    /\ Disturb
    /\ watcher' = "stopped" /\ watched' = {} /\ todo' = {}
    /\ watch' = [r \in Roots |-> "none"]
    /\ events' = {} /\ queue' = << >> /\ failed' = FALSE
    /\ capture' = None /\ clearing' = FALSE
    /\ UNCHANGED <<content, recordVars>>

WatchLoop ==
    \/ Start \/ Ready \/ Receive \/ Stop
    \/ \E r \in Roots : Attach(r) \/ Open(r) \/ MarkDirty(r)

BackupLoop == \E r \in Roots : (r \in dirty /\ BeginCapture(r)) \/ PublishAnchor(r) \/ FinishCapture(r)

CheckpointLoop == (\E S \in SUBSET uncommitted : S # {} /\ StoreCheckpoint(S)) \/ ClearDirty

Next ==
    \/ \E r \in Roots : Change(r) \/ RegisterRoot(r) \/ Notify(r)
    \/ WatchLoop \/ BackupLoop \/ CheckpointLoop
    \/ \E r \in Roots : BeginCapture(r) \/ SkipRoot(r) \/ LoseRoot(r) \/ FailCapture(r)
    \/ StoreCheckpoint({})
    \/ NotifyError \/ Reconcile \/ Crash

Spec == Init /\ [][Next]_vars

(* A running daemon with automatic backup enabled: filesystem events are   *)
(* delivered, the watcher's loop runs, dirty roots are captured, and the   *)
(* guild commits what is submitted.                                        *)
Fairness ==
    /\ \A r \in Roots : WF_vars(Notify(r))
    /\ WF_vars(WatchLoop) /\ WF_vars(BackupLoop) /\ WF_vars(CheckpointLoop)

-----------------------------------------------------------------------------

RecordsOK ==
    /\ content \in [Roots -> Nat] /\ saved \in [Roots -> Nat]
    /\ registered \in SUBSET Roots /\ uncommitted \in SUBSET Roots
    /\ dirty \in SUBSET Roots /\ sequence \in [Roots -> Nat]
    /\ intent \in [Roots -> [change : Nat, anchor : Nat] \cup {None}]
    /\ head \in [Roots -> [content : Nat, change : Nat]]
    /\ capture \in [root : Roots, from : Nat] \cup {None}
    /\ capture # None => intent[capture.root] # None
    /\ clearing \in BOOLEAN
    /\ disturbances \in Nat

WatcherOK ==
    /\ watcher \in {"stopped", "starting", "running", "stopping"}
    /\ watched \in SUBSET Roots /\ todo \in SUBSET Roots /\ events \in SUBSET Roots
    /\ watch \in [Roots -> {"none", "attached", "open"}]
    /\ queue \in Seq(Roots) /\ Len(queue) <= Capacity
    /\ failed \in BOOLEAN

(* The channel never holds more than its capacity. *)
TypeOK == RecordsOK /\ WatcherOK

(* A mark of the root is on its way through the watcher. *)
Hinted(r) == r \in events \cup Range(queue) \cup todo \/ failed

(* No change is forgotten: a root that differs from its last committed     *)
(* backup is marked dirty, or a hint or error that will mark it is on its  *)
(* way, or its watch is not open and opening it will mark it.  A capture   *)
(* is stamped with the dirty record's sequence before it scans, and only a *)
(* checkpoint of a capture made at the latest sequence clears the mark.    *)
NothingForgotten ==
    \A r \in registered : saved[r] = content[r] \/ r \in dirty \/ Hinted(r) \/ watch[r] # "open"

(* The root is about to be marked, or will be when its watch opens. *)
Excused(r) == Hinted(r) \/ watch[r] # "open"

(* A version of the root that is still what is on disk, as far as the      *)
(* watcher has reported.                                                   *)
UpToDate(v, r) == v = content[r] \/ Excused(r)

(* A capture stamped so was made at the latest mark of the root, or when   *)
(* it was clean as it still is.                                            *)
Fresh(change, r) == change = sequence[r] \/ (change = 0 /\ r \notin dirty)

Protected(r) ==
    /\ head[r].change <= sequence[r]
    /\ Fresh(head[r].change, r) => UpToDate(head[r].content, r)
    /\ r \notin uncommitted => saved[r] = head[r].content
    /\ r \in uncommitted => intent[r] = None /\ (r \in dirty \/ Fresh(head[r].change, r))
    /\ r \notin dirty => UpToDate(saved[r], r)
    /\ intent[r] # None =>
          /\ intent[r].change <= sequence[r]
          /\ r \notin dirty \/ head[r].change = sequence[r] => Fresh(intent[r].change, r)
          /\ Fresh(intent[r].change, r) /\ intent[r].anchor # 0 => UpToDate(intent[r].anchor, r)
    /\ Capturing(r) =>
          /\ capture.from <= content[r]
          /\ Fresh(intent[r].change, r) /\ intent[r].anchor = 0 => UpToDate(capture.from, r)
    /\ watcher \in {"stopped", "stopping"} => watch[r] = "none"

(* Why no change is forgotten: whatever stage a capture has reached, if    *)
(* its stamp is fresh then what it read is up to date, also when it is     *)
(* resumed after a crash from an intent and an anchor of an earlier run.   *)
(* Only such a capture can clear a mark (clear_root_dirty_if_committed) or *)
(* replace the backup of a clean root.                                     *)
ProtectionInvariant == \A r \in Roots : Protected(r)

(* Once changes and disturbances stop, every registered root ends up       *)
(* backed up as it is, and clean: no mark is lost between the watcher, a   *)
(* capture, its checkpoint and a restart, and none stays behind.           *)
Settles == <>[](\A r \in registered : saved[r] = content[r] /\ r \notin dirty)

=============================================================================
