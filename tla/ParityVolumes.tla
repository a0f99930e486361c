---------------------------- MODULE ParityVolumes ----------------------------
(***************************************************************************)
(* The parity volumes of one holder and the one variable-profile shard it  *)
(* keeps for a coding group: uploads, activation, repair, evacuation of a  *)
(* draining volume, and the cleanup of attempts that failed or whose group *)
(* was forgotten (mb-node/src/volume.rs and its callers in node.rs, over   *)
(* the parity_objects and coding_reservations tables of mb-store).         *)
(*                                                                         *)
(* The control database and each volume's database commit separately, so   *)
(* an operation is a sequence of durable writes that a crash or an I/O     *)
(* error can cut after any of them.  The node's lock keeps operations from *)
(* interleaving: an operation is one action whose outcomes are the states  *)
(* after each of its writes.  Evacuation, which the code itself resumes    *)
(* from a durable intent, has one action per write.                        *)
(***************************************************************************)
EXTENDS Integers, FiniteSets

CONSTANTS
    NVol,       \* parity volumes of the node
    NCoding,    \* coding attempts that produce this group, one after another
    NRepair,    \* identifiers available to repairs
    MaxDraining,\* volumes an operator drains at a time
    Settings    \* the circumstances considered, see setting

ASSUME VolumesAssumption ==
    /\ NVol \in Nat /\ NVol > 0
    /\ NCoding \in Nat /\ NCoding > 0
    /\ NRepair \in Nat
    /\ MaxDraining \in Nat
    /\ Settings \subseteq [emergency : BOOLEAN, rot : BOOLEAN, cuts : BOOLEAN]

Volumes == 1 .. NVol
Coding == 1 .. NCoding
Repairs == NCoding + 1 .. NCoding + NRepair
Attempts == Coding \cup Repairs
None == 0

VolumeStates == {"Online", "Offline", "Draining", "Retired", "Failed"}
Lives == {"none", "open", "added", "retired", "forgotten", "aborted"}

\* A parity_objects row: hash is the verification evidence of a READY row,
\* named by the coding attempt whose transcript it is the hash of; sound says
\* that the stored bytes still match their commitment.
NoRow == [att |-> None, ready |-> FALSE, hash |-> None, sound |-> TRUE]
NoMigration ==
    [src |-> None, dst |-> None, att |-> None, datt |-> None, hash |-> None,
     cancelled |-> FALSE]
NoRetirement == [vol |-> None, hash |-> None]

VARIABLES
    disk,   \* every durable record of the node, see TypeOK
    open,   \* volumes whose database the process has open
    life,   \* of each coding attempt, in the guild's log
    known,  \* of each coding attempt, in the events this node installed
    acked,  \* coding attempts whose activation this node acknowledged
    used,   \* repair identifiers ever drawn
    settled,\* coding attempts whose cleanup this node reported complete
    setting \* what the behaviour may meet, fixed from the start

vars == <<disk, open, life, known, acked, used, settled, setting>>
guildVars == <<life, known, acked, used, settled, setting>>

Emergency == setting.emergency \* the node holds the shard for an absent holder
Rot == setting.rot    \* stored rows may rot and databases may fail to open
Cuts == setting.cuts  \* a crash or an error may cut an operation short

Min(S) == CHOOSE n \in S : \A m \in S : n <= m

Empty(d, v) == d.obj[v].att = None
DropReceipt(d, clear) == IF clear THEN [d EXCEPT !.receipt = None] ELSE d
Placeable(v) == disk.state[v] = "Online" /\ v \in open

\* The coding attempt whose Add this node installed and whose Forget it did
\* not: the group its guild state retains.
Retained(x) == known[x] = "added"
GroupRetained == \E x \in Coding : Retained(x)

\* Holding a sound READY row with the evidence of x, and what load_ready_variable
\* answers.
Copies(d, x) ==
    {v \in Volumes : d.obj[v].ready /\ d.obj[v].hash = x /\ d.obj[v].sound}
Loadable ==
    /\ disk.receipt \in open
    /\ disk.obj[disk.receipt].ready
    /\ disk.obj[disk.receipt].sound

\* An operation ends in its last state, or is cut after one of its writes.
Performs(writes, last) == disk' = last \/ (Cuts /\ disk' \in writes)

Rows ==
    [att : Attempts \cup {None}, ready : BOOLEAN, hash : Coding \cup {None}, sound : BOOLEAN]
Migrations ==
    [src : Volumes \cup {None}, dst : Volumes \cup {None},
     att : Attempts \cup {None}, datt : Attempts \cup {None},
     hash : Coding \cup {None}, cancelled : BOOLEAN]
Retirements == [vol : Volumes \cup {None}, hash : Coding \cup {None}]
Disks ==
    [obj : [Volumes -> Rows],
     held : SUBSET (Volumes \X Attempts),
     receipt : Volumes \cup {None},
     cleanup : SUBSET Volumes,
     mig : Migrations,
     resv : [Attempts -> Volumes \cup {None}],
     rec : [Attempts -> Volumes \cup {None}],
     retire : [Attempts -> Retirements],
     repair : Repairs \cup {None},
     marker : BOOLEAN,
     oblig : SUBSET Coding,
     transcript : SUBSET Coding,
     state : [Volumes -> VolumeStates]]

TypeOK ==
    /\ disk \in Disks
    /\ open \subseteq Volumes
    /\ life \in [Coding -> Lives]
    /\ known \in [Coding -> {"none", "added", "forgotten"}]
    /\ acked \subseteq Coding
    /\ used \subseteq Repairs
    /\ settled \subseteq Coding
    /\ setting \in Settings

Init ==
    /\ setting \in Settings
    /\ open \in (SUBSET Volumes) \ {{}}
    /\ disk = [obj |-> [v \in Volumes |-> NoRow],
               held |-> {}, receipt |-> None, cleanup |-> {},
               mig |-> NoMigration,
               resv |-> [x \in Attempts |-> None],
               rec |-> [x \in Attempts |-> None],
               retire |-> [x \in Attempts |-> NoRetirement],
               repair |-> None, marker |-> FALSE, oblig |-> {},
               transcript |-> IF Emergency THEN {1} ELSE {},
               state |-> [v \in Volumes |-> IF v \in open THEN "Online" ELSE "Retired"]]
    /\ life = [x \in Coding |-> IF Emergency /\ x = 1 THEN "added" ELSE "none"]
    /\ known = [x \in Coding |-> IF Emergency /\ x = 1 THEN "added" ELSE "none"]
    /\ acked = {} /\ used = {} /\ settled = {}

-----------------------------------------------------------------------------
(* The life of a coding attempt outside this node.                         *)

\* A plan for this group is signed once the group is no longer retained.
Plan(x) ==
    /\ ~Emergency
    /\ life[x] = "none"
    /\ \A y \in 1 .. x - 1 : life[y] \in {"aborted", "forgotten"}
    /\ life' = [life EXCEPT ![x] = "open"]
    /\ UNCHANGED <<disk, open, known, acked, used, settled, setting>>

\* The attempt fails, expires or loses its epoch before Add is certified.
Abort(x) ==
    /\ life[x] = "open"
    /\ life' = [life EXCEPT ![x] = "aborted"]
    /\ UNCHANGED <<disk, open, known, acked, used, settled, setting>>

\* Add is proposed when every holder acknowledged activation; Retire and
\* Forget follow it in the log.
Certify(x) ==
    /\ ~Emergency
    /\ \/ life[x] = "open" /\ x \in acked
          /\ life' = [life EXCEPT ![x] = "added"]
       \/ life[x] = "added" /\ life' = [life EXCEPT ![x] = "retired"]
       \/ life[x] = "retired" /\ life' = [life EXCEPT ![x] = "forgotten"]
    /\ UNCHANGED <<disk, open, known, acked, used, settled, setting>>

-----------------------------------------------------------------------------
(* Uploads.                                                                *)

\* reserve_attempt: an existing record fixes the volume, otherwise any online
\* volume with room is chosen; the control record precedes the database row.
MayReserve(d, x, v) ==
    /\ v \in open
    /\ IF d.resv[x] # None THEN v = d.resv[x] ELSE d.state[v] = "Online"
Recorded(d, x, v) == [d EXCEPT !.resv[x] = v]
Reserved(d, x, v) == [Recorded(d, x, v) EXCEPT !.held = @ \cup {<<v, x>>}]

\* finish_attempt_upload.  A stored attempt receipt is checked against the
\* reservation record and the row; otherwise the reserved volume's bytes become
\* a STAGED row.  A row of another attempt in that volume is a conflict.
UploadVolume(d, x) == IF d.rec[x] # None THEN d.rec[x] ELSE d.resv[x]
MayFinish(d, x) ==
    LET v == UploadVolume(d, x)
    IN  /\ v \in open
        /\ d.rec[x] # None => d.resv[x] \in {None, v}
        /\ \/ Empty(d, v) /\ <<v, x>> \in d.held
           \/ d.obj[v].att = x /\ d.obj[v].sound
Staged(d, x) ==
    LET v == UploadVolume(d, x)
    IN  [d EXCEPT !.obj[v] = IF Empty(d, v) THEN [NoRow EXCEPT !.att = x] ELSE @,
                  !.held = @ \ {<<v, x>>}]
Received(d, x) == [Staged(d, x) EXCEPT !.rec[x] = UploadVolume(d, x)]
Finished(d, x) == [Received(d, x) EXCEPT !.resv[x] = None]
FinishSteps(d, x) == {Staged(d, x), Received(d, x), Finished(d, x)}

\* The volume writes of activate_attempt_object, in order: the row is READY,
\* a replaced active volume becomes a cleanup obligation, the receipt moves.
MayActivate(d, x, h) ==
    LET v == d.rec[x]
    IN  /\ v \in open
        /\ d.obj[v].att = x
        /\ d.obj[v].ready => d.obj[v].hash = h
Ready(d, x, h) ==
    [d EXCEPT !.obj[d.rec[x]].ready = TRUE, !.obj[d.rec[x]].hash = h]
SupersededAlways(d, x, h) == [Ready(d, x, h) EXCEPT !.cleanup = @ \cup {d.receipt}]
Superseded(d, x, h) ==
    [Ready(d, x, h) EXCEPT
       !.cleanup = IF d.receipt \in {None, d.rec[x]} THEN @ ELSE @ \cup {d.receipt}]
Activated(d, x, h) == [Superseded(d, x, h) EXCEPT !.receipt = d.rec[x]]
ActivateStepsReceiptFirst(d, x, h) == {[d EXCEPT !.receipt = d.rec[x]], Activated(d, x, h)}
ActivateSteps(d, x, h) == {Ready(d, x, h), Superseded(d, x, h), Activated(d, x, h)}

\* reserve_coding_parity and finish_coding_parity_upload, called by the
\* coordinator of an attempt whose plan is in force.
UploadParity(x) ==
    /\ life[x] = "open"
    /\ \/ /\ disk.rec[x] = None
          /\ \E v \in Volumes :
               /\ MayReserve(disk, x, v)
               /\ Performs({Recorded(disk, x, v)}, Reserved(disk, x, v))
       \/ MayFinish(disk, x) /\ Performs(FinishSteps(disk, x), Finished(disk, x))
    /\ UNCHANGED <<open, guildVars>>

\* activate_verified_coding_attempt.  A retained group rejects the transcript
\* of another attempt, and needs no volume write for its own.
ActivateCoding(x) ==
    /\ life[x] \in {"open", "added"}
    /\ ~GroupRetained
    /\ MayActivate(disk, x, x)
    /\ \/ Cuts /\ disk' \in ActivateSteps(disk, x, x) /\ UNCHANGED acked
       \/ /\ disk' = [Activated(disk, x, x) EXCEPT !.transcript = @ \cup {x}]
          /\ acked' = acked \cup {x}
    /\ UNCHANGED <<open, life, known, used, settled, setting>>

-----------------------------------------------------------------------------
(* Guild events.                                                           *)

FinalizeAttempt(d, x) == [d EXCEPT !.rec[x] = None]

\* install_guild_event of Add publishes the event with its transcript, then
\* finalizes the attempt's receipts; a repeated delivery finalizes again.
InstallAdd(x) ==
    LET installed == [disk EXCEPT !.transcript = @ \cup {x}]
    IN  /\ life[x] \in {"added", "retired", "forgotten"}
        /\ known[x] = "none"
        /\ known' = [known EXCEPT ![x] = "added"]
        /\ Performs({installed}, FinalizeAttempt(installed, x))
        /\ UNCHANGED <<open, life, acked, used, settled, setting>>

InstallAddAgain(x) ==
    /\ known[x] # "none"
    /\ disk.rec[x] # None
    /\ disk' = FinalizeAttempt(disk, x)
    /\ UNCHANGED <<open, guildVars>>

\* Forget records the holder's own cleanup obligation with the event.
InstallForget(x) ==
    /\ life[x] = "forgotten"
    /\ known[x] = "added"
    /\ known' = [known EXCEPT ![x] = "forgotten"]
    /\ disk' = [disk EXCEPT !.oblig = @ \cup {x}]
    /\ UNCHANGED <<open, life, acked, used, settled, setting>>

-----------------------------------------------------------------------------
(* Removal of the rows of one attempt or of one body of evidence.          *)

\* settle_attempt_retirements: with the rows of an attempt gone from every
\* volume it was recorded on, its receipt and the retirement are deleted.
\* h = None stands for a cleanup that names no attempt.
Considered(d, h) ==
    {x \in Attempts : /\ d.retire[x].vol # None
                      /\ h = None \/ d.retire[x].hash \in {None, h}}
RowsGone(d, x) ==
    /\ d.retire[x].vol \in open
    /\ \A v \in open : d.obj[v].att # x
    /\ \A v \in Volumes \ open :
         /\ ~(v = d.mig.src /\ d.mig.att = x)
         /\ ~(v = d.mig.dst /\ d.mig.datt = x)
Settle(d, h) ==
    LET done == {x \in Considered(d, h) : RowsGone(d, x)}
    IN  [d EXCEPT !.rec = [x \in Attempts |-> IF x \in done THEN None ELSE @[x]],
                  !.retire = [x \in Attempts |->
                                IF x \in done THEN NoRetirement ELSE @[x]]]
SettleComplete(d, h) == \A x \in Considered(d, h) : RowsGone(d, x)

\* cancel_variable_migration_for_gc.
CancelMigration(d, h) ==
    IF d.mig # NoMigration /\ h \in {None, d.mig.hash}
      THEN [d EXCEPT !.cleanup = @ \cup {d.mig.src, d.mig.dst},
                     !.mig.cancelled = TRUE]
      ELSE d

OldOfGroup(d, v, x, h) == ~Empty(d, v) /\ (d.obj[v].ready \/ d.obj[v].att = x)
\* A row the cleanup of attempt x with evidence h is about: a READY row by its
\* evidence, since a repair keeps that and has an identifier of its own.
Old(d, v, x, h) ==
    /\ ~Empty(d, v)
    /\ h = None \/ IF d.obj[v].ready THEN d.obj[v].hash = h ELSE d.obj[v].att = x

\* The visit of the open volumes of V: each row's attempt is recorded as
\* retiring before the row is removed.  remove_ready refuses a STAGED row.
Visit(d, x, h, V) ==
    LET old == {v \in V \cap open : Old(d, v, x, h)}
        first(y) == {v \in old : d.obj[v].att = y}
    IN  [d EXCEPT
           !.retire = [y \in Attempts |->
                         IF @[y].vol = None /\ first(y) # {}
                           THEN [vol |-> Min(first(y)), hash |-> h] ELSE @[y]],
           !.obj = [v \in Volumes |->
                      IF v \in old /\ @[v].ready THEN NoRow ELSE @[v]]]

\* remove_unreachable_matching_attempt.  RemovalSteps is the set of states its
\* writes go through, Removed the last of them, RemovalComplete its answer.
Refused(d, x, h) == {v \in open : Old(d, v, x, h) /\ ~d.obj[v].ready}
Newer(d, x, h) == {v \in open : d.obj[v].ready /\ ~Old(d, v, x, h)}
Leftover(d, x, h) == (d.cleanup \ open) \cup Refused(d, x, h)
Visited(d, x, h) ==
    LET e == Visit(d, x, h, Volumes)
    IN  [e EXCEPT !.cleanup = Leftover(d, x, h),
                  !.state = [v \in Volumes |->
                               IF v \in Refused(d, x, h) THEN "Failed" ELSE @[v]]]
Reached(d, x, h) ==
    /\ Refused(d, x, h) = {}
    /\ \A v \in Volumes \ open :
         /\ d.receipt # v /\ v \notin d.cleanup
         /\ d.state[v] # "Draining"
    /\ SettleComplete(Visited(d, x, h), h)
DropMigration(d, h, clear) ==
    IF clear /\ d.mig.cancelled /\ h \in {None, d.mig.hash}
      THEN [d EXCEPT !.mig = NoMigration] ELSE d

\* The operators of the removal proper take the state after RemovalStart.
RemovalStart(d, h) == Settle(CancelMigration(d, h), h)
RemovalClearAttached(d, x, h) ==
    Refused(d, x, h) = {} /\ SettleComplete(Visited(d, x, h), h)
RemovalClear(d, x, h) == Reached(d, x, h) /\ Leftover(d, x, h) = {}
RemovalLocated(d, x, h) ==
    DropReceipt(Settle(Visited(d, x, h), h),
                RemovalClear(d, x, h) /\ Newer(d, x, h) = {})
Removed(d, x, h) ==
    DropMigration(RemovalLocated(d, x, h), h, RemovalClear(d, x, h))
RemovalSteps(d, x, h) ==
    {d, Visited(d, x, h), Settle(Visited(d, x, h), h),
     RemovalLocated(d, x, h), Removed(d, x, h)}
    \cup {Visit(d, x, h, 1 .. k) : k \in Volumes}
RemovalComplete(d, x, h) ==
    /\ RemovalClear(d, x, h)
    /\ Newer(d, x, h) = {} \/ d.receipt \in Newer(d, x, h)

\* discard_attempt: rows and reservations of x go from every open volume, then
\* its active receipt, its records, and a migration of x.
CancelFor(d, x) ==
    IF d.mig.att = x THEN [d EXCEPT !.mig.cancelled = TRUE] ELSE d
Required(d, x) ==
    ({d.rec[x], d.resv[x]} \cup
     (IF d.mig.att = x THEN {d.mig.src, d.mig.dst} ELSE {})) \ {None}
Wipe(d, x, V) ==
    [d EXCEPT !.obj = [v \in Volumes |->
                         IF v \in V \cap open /\ @[v].att = x THEN NoRow ELSE @[v]],
              !.held = @ \ ((V \cap open) \X {x})]
ReceiptConflict(d, x) == d.rec[x] \in open /\ d.receipt \notin {None, d.rec[x]}
DropActive(d, x) == DropReceipt(d, d.rec[x] \in open)
DropRecord(d, x) == IF d.rec[x] \in open THEN [d EXCEPT !.rec[x] = None] ELSE d
DropReservation(d, x) ==
    IF d.resv[x] \in open THEN [d EXCEPT !.resv[x] = None] ELSE d
DropCancelled(d, x, complete) ==
    IF complete /\ d.mig.att = x
      THEN [d EXCEPT !.mig = NoMigration, !.cleanup = @ \ {d.mig.src, d.mig.dst}]
      ELSE d

Discarded(d, x) ==
    LET d1 == Wipe(CancelFor(d, x), x, Volumes)
    IN  IF ReceiptConflict(d1, x) THEN d1
        ELSE DropCancelled(DropReservation(DropRecord(DropActive(d1, x), x), x), x,
                           Required(d, x) \subseteq open)
DiscardSteps(d, x) ==
    LET d0 == CancelFor(d, x)
        d1 == Wipe(d0, x, Volumes)
    IN  {d0, d1, Discarded(d, x)} \cup {Wipe(d0, x, 1 .. k) : k \in Volumes}
        \cup (IF ReceiptConflict(d1, x) THEN {}
              ELSE {DropActive(d1, x), DropRecord(DropActive(d1, x), x),
                    DropReservation(DropRecord(DropActive(d1, x), x), x)})
DiscardCompleteUnseen(d, x) == ~ReceiptConflict(d, x)
DiscardComplete(d, x) ==
    Required(d, x) \subseteq open /\ ~ReceiptConflict(d, x)

\* discard_coding_attempt, asked for by the delegator or the coordinator of an
\* attempt that failed or whose group was retired, and by the holder's own
\* cleanup job.  While this node retains the group only the obligation is
\* recorded and the rollback receipt finalized.
DiscardCoding(x) ==
    LET owed == [disk EXCEPT !.oblig = @ \cup {x}]
        evidence == x \in disk.transcript
        stop == ReceiptConflict(disk, x) \/ ~evidence
    IN  /\ life[x] \in {"aborted", "retired", "forgotten"}
        /\ \/ /\ evidence /\ GroupRetained
              /\ Performs({owed}, FinalizeAttempt(owed, x))
              /\ UNCHANGED settled
           \/ /\ ~(evidence /\ GroupRetained)
              /\ \E d \in {Discarded(disk, x)}, start \in {RemovalStart(Discarded(disk, x), x)} :
                 LET last == IF stop THEN d ELSE Removed(start, x, x)
                     complete == /\ DiscardComplete(disk, x)
                                 /\ stop \/ RemovalComplete(start, x, x)
                 IN  \/ /\ Cuts /\ UNCHANGED settled
                        /\ \/ disk' \in DiscardSteps(disk, x)
                           \/ /\ ~stop
                              /\ disk' \in {CancelMigration(d, x)} \cup RemovalSteps(start, x, x)
                     \/ ~complete /\ disk' = last /\ UNCHANGED settled
                     \/ /\ complete
                        /\ disk' = [last EXCEPT !.oblig = @ \ {x}]
                        /\ settled' = settled \cup {x}
        /\ UNCHANGED <<open, life, known, acked, used, setting>>

-----------------------------------------------------------------------------
(* Repair.                                                                 *)

\* prepare_variable_repair, when no reusable row is found: a receipt whose
\* volume is closed or whose row does not load is retired.
Damaged(d) ==
    d.receipt \in open /\ d.obj[d.receipt].ready /\ ~d.obj[d.receipt].sound
SuspectedAbsent(d) ==
    [d EXCEPT !.cleanup = IF d.receipt # None /\ d.receipt \notin open
                            THEN @ \cup {d.receipt} ELSE @]
Suspected(d) ==
    [d EXCEPT !.cleanup = IF d.receipt # None /\ (d.receipt \notin open \/ Damaged(d))
                            THEN @ \cup {d.receipt} ELSE @]
Unlocated(d) == DropReceipt(Suspected(d), TRUE)
Prepared(d) ==
    IF Damaged(d) THEN [Unlocated(d) EXCEPT !.state[d.receipt] = "Failed"]
                  ELSE Unlocated(d)

\* The shard loads: the repair ends after its identifier was stored.
IntactStepsRetired(d) ==
    {d, [Unlocated(d) EXCEPT !.cleanup = @ \cup {d.receipt}]}
IntactSteps(d) == {d}

\* install_repaired_variable_shard of the group of x: the identifier of the
\* repair is durable first and reused by every retry, which runs the whole
\* sequence again.  The placement v matters only if the sequence gets there.
Repair(x, r, v) ==
    LET begun == [disk EXCEPT !.repair = r, !.marker = Emergency]
        prepared == Prepared(begun)
        reserved == Reserved(prepared, r, v)
        finished == Finished(reserved, r)
        preparing == {begun, Suspected(begun), Unlocated(begun), prepared}
        uploading == preparing \cup {Recorded(prepared, r, v), reserved}
        activating == uploading \cup FinishSteps(reserved, r)
    IN  /\ Retained(x)
        /\ IF disk.repair = None THEN r \in Repairs \ used ELSE r = disk.repair
        /\ used' = used \cup {r}
        /\ CASE Loadable -> Performs(IntactSteps(begun), [begun EXCEPT !.repair = None])
             [] ~Loadable /\ ~MayReserve(prepared, r, v) ->
                  Performs(preparing, prepared)
             [] ~Loadable /\ MayReserve(prepared, r, v) /\ ~MayFinish(reserved, r) ->
                  Performs(uploading, reserved)
             [] OTHER ->
                  IF MayActivate(finished, r, x)
                    THEN Performs(activating \cup ActivateSteps(finished, r, x),
                                  [Activated(finished, r, x) EXCEPT !.repair = None])
                    ELSE Performs(activating, finished)
        /\ UNCHANGED <<open, life, known, acked, settled, setting>>

\* remove_local_variable_emergency_shards, once the group is healthy again.
RemoveEmergency ==
    /\ Emergency /\ disk.marker
    /\ \E start \in {RemovalStart(disk, None)} :
         Performs({CancelMigration(disk, None)} \cup RemovalSteps(start, None, None),
                  [Removed(start, None, None) EXCEPT
                     !.marker = ~RemovalComplete(start, None, None)])
    /\ UNCHANGED <<open, guildVars>>

-----------------------------------------------------------------------------
(* Evacuation of a draining volume.                                        *)

MarkDraining(v) ==
    /\ v \in open
    /\ Cardinality({u \in Volumes \ {v} : disk.state[u] = "Draining"}) < MaxDraining
    /\ disk' = [disk EXCEPT !.state[v] = "Draining"]
    /\ UNCHANGED <<open, guildVars>>

\* migrate_draining takes the draining volumes in the order of their
\* identifiers and stops at the first it cannot retire.
DrainTurn(v) ==
    /\ disk.state[v] = "Draining" /\ v \in open
    /\ \A u \in 1 .. v - 1 : disk.state[u] # "Draining"

\* migrate_variable_object: the intent names the destination, which is the
\* active volume when a repair already moved the receipt there.
MigrationBegin(v, w) ==
    LET row == disk.obj[v]
    IN  /\ DrainTurn(v)
        /\ row.ready /\ row.sound
        /\ disk.mig = NoMigration
        /\ disk.receipt # None
        /\ IF disk.receipt = v
             THEN w # v /\ Placeable(w)
             ELSE /\ w = disk.receipt /\ Loadable
                  /\ disk.obj[w].hash = row.hash
                  /\ disk.obj[w].att # row.att => disk.rec[row.att] = None
        /\ disk' = [disk EXCEPT
                      !.mig = [src |-> v, dst |-> w, att |-> row.att,
                               datt |-> IF disk.receipt = v THEN row.att
                                        ELSE disk.obj[w].att,
                               hash |-> row.hash, cancelled |-> FALSE],
                      !.cleanup = @ \cup {v, w}]
        /\ UNCHANGED <<open, guildVars>>

\* resume_variable_migration.
Resumable ==
    /\ disk.mig # NoMigration /\ ~disk.mig.cancelled
    /\ disk.receipt \in {disk.mig.src, disk.mig.dst}
    /\ disk.mig.dst \in open
SourceRow ==
    LET row == disk.obj[disk.mig.src]
    IN  row.ready /\ row.att = disk.mig.att /\ row.hash = disk.mig.hash
DestinationReady ==
    LET row == disk.obj[disk.mig.dst]
    IN  /\ row.ready /\ row.sound
        /\ row.att = disk.mig.datt /\ row.hash = disk.mig.hash

MigrationCopy ==
    /\ Resumable
    /\ Empty(disk, disk.mig.dst)
    /\ disk.state[disk.mig.dst] = "Online"
    /\ disk.mig.src \in open
    /\ SourceRow /\ disk.obj[disk.mig.src].sound
    /\ disk' = [disk EXCEPT !.obj[disk.mig.dst] = disk.obj[disk.mig.src]]
    /\ UNCHANGED <<open, guildVars>>

MigrationPublishReserved ==
    /\ Resumable /\ DestinationReady
    /\ disk' = [disk EXCEPT !.receipt = disk.mig.dst]
    /\ UNCHANGED <<open, guildVars>>
MigrationPublish ==
    LET m == disk.mig
        x == m.att
    IN  /\ Resumable /\ DestinationReady
        /\ m.src \in open =>
             Empty(disk, m.src) \/ (SourceRow /\ disk.obj[m.src].sound)
        /\ disk.rec[x] \in {None, m.src, m.dst}
        /\ disk.resv[x] \in {None, m.src}
        /\ m.src \notin open => disk.resv[x] = None
        /\ disk' = [disk EXCEPT
                      !.receipt = m.dst,
                      !.rec[x] = IF @ = None THEN None ELSE m.dst,
                      !.resv[x] = None,
                      !.held = IF m.src \in open /\ ~Empty(disk, m.src)
                                 THEN @ \ {<<m.src, x>>} ELSE @]
        /\ UNCHANGED <<open, guildVars>>

Published ==
    /\ Resumable /\ DestinationReady
    /\ disk.receipt = disk.mig.dst
    /\ disk.rec[disk.mig.att] \in {None, disk.mig.dst}
    /\ disk.resv[disk.mig.att] = None
    /\ disk.mig.src \in open

\* remove_ready_variable_object withdraws only the transferred attempt.
MigrationWithdraw ==
    /\ Published /\ SourceRow
    /\ disk' = [disk EXCEPT !.obj[disk.mig.src] = NoRow]
    /\ UNCHANGED <<open, guildVars>>

MigrationFinish ==
    /\ Published /\ Empty(disk, disk.mig.src)
    /\ disk' = [disk EXCEPT !.mig = NoMigration,
                            !.cleanup = @ \ {disk.mig.src, disk.mig.dst}]
    /\ UNCHANGED <<open, guildVars>>

\* settle_empty_volume_location_evidence.
SettleEmpty(d, V) ==
    [d EXCEPT !.receipt = IF @ \in V THEN None ELSE @, !.cleanup = @ \ V]

\* The end of migrate_draining: an empty volume without obligations retires.
Owes(d, v) ==
    \/ ~Empty(d, v)
    \/ \E x \in Attempts : \/ <<v, x>> \in d.held
                           \/ v \in {d.rec[x], d.resv[x], d.retire[x].vol}
RetireVolumeReserved(v) ==
    /\ DrainTurn(v) /\ disk.mig.src # v /\ Empty(disk, v)
    /\ disk' = [SettleEmpty(disk, {v}) EXCEPT !.state[v] = "Retired"]
    /\ open' = open \ {v}
    /\ UNCHANGED guildVars
RetireVolume(v) ==
    LET settledDisk == SettleEmpty(disk, {v})
    IN  /\ DrainTurn(v)
        /\ disk.mig.src # v
        /\ ~Owes(disk, v)
        /\ \/ Cuts /\ disk' = settledDisk /\ UNCHANGED open
           \/ /\ disk' = [settledDisk EXCEPT !.state[v] = "Retired"]
              /\ open' = open \ {v}
        /\ UNCHANGED guildVars

Reactivate(v) ==
    /\ disk.state[v] = "Retired"
    /\ disk' = [disk EXCEPT !.state[v] = "Online"]
    /\ open' = open \cup {v}
    /\ UNCHANGED guildVars

-----------------------------------------------------------------------------
(* Faults and restarts.                                                    *)

\* StorageVolumes::open and reconcile with the volumes of P attached, those of
\* F failing to open.  A volume found absent is offline; one that comes back
\* is opened, and the configuration that follows puts it online again.
Restart(P, F) ==
    LET found(v) ==
            CASE disk.state[v] = "Retired" -> "Retired"
              [] v \in F -> "Failed"
              [] v \in P \/ disk.state[v] = "Draining" -> disk.state[v]
              [] OTHER -> "Offline"
        retired == {v \in Volumes : disk.state[v] = "Retired"}
    IN  /\ Rot \/ F = {}
        /\ open' = (P \ F) \ retired
        /\ disk' = SettleEmpty([disk EXCEPT !.state = [v \in Volumes |-> found(v)]],
                               retired)
        /\ UNCHANGED guildVars

\* StorageVolumes::configure with every volume named and those of P attached.
Configure(P) ==
    LET live == {v \in P : disk.state[v] # "Retired"}
        found(v) ==
            CASE disk.state[v] \in {"Retired", "Draining"} -> disk.state[v]
              [] v \notin P -> "Offline"
              [] disk.state[v] = "Offline" -> "Online"
              [] OTHER -> disk.state[v]
        opened == {v \in live : v \in open \/ disk.state[v] \in {"Offline", "Draining"}}
    IN  /\ disk' = [disk EXCEPT !.state = [v \in Volumes |-> found(v)]]
        /\ open' = opened
        /\ UNCHANGED guildVars

\* Bit rot of a stored row.
Corrupt(v) ==
    /\ Rot
    /\ ~Empty(disk, v) /\ disk.obj[v].sound
    /\ disk' = [disk EXCEPT !.obj[v].sound = FALSE]
    /\ UNCHANGED <<open, guildVars>>

\* scrub quarantines every open volume with a row that fails its commitment.
Scrub ==
    /\ disk' = [disk EXCEPT !.state =
                  [v \in Volumes |-> IF v \in open /\ ~disk.obj[v].sound
                                       THEN "Failed" ELSE @[v]]]
    /\ UNCHANGED <<open, guildVars>>

GuildStep ==
    \E x \in Coding : \/ Plan(x) \/ Abort(x) \/ Certify(x)
                      \/ InstallAdd(x) \/ InstallAddAgain(x) \/ InstallForget(x)
AttemptStep ==
    \/ \E x \in Coding :
         \/ UploadParity(x) \/ ActivateCoding(x) \/ DiscardCoding(x)
         \/ \E r \in Repairs, v \in Volumes : Repair(x, r, v)
EvacuationStep ==
    \/ \E v, w \in Volumes : MigrationBegin(v, w)
    \/ MigrationCopy \/ MigrationPublish \/ MigrationWithdraw \/ MigrationFinish
    \/ \E v \in Volumes : MarkDraining(v) \/ RetireVolume(v) \/ Reactivate(v)
FaultStep ==
    \/ \E P \in SUBSET {v \in Volumes : disk.state[v] # "Retired"} :
         Configure(P) \/ \E F \in SUBSET P : Restart(P, F)
    \/ Scrub
RotStep == \E v \in Volumes : Corrupt(v)

\* The steps of a holder whose rows do not rot.
HolderNext == GuildStep \/ AttemptStep \/ EvacuationStep \/ FaultStep

Next == HolderNext \/ RemoveEmergency \/ RotStep

Spec == Init /\ [][Next]_vars

\* A plan expires, a retired group is forgotten, events reach every member, the
\* cleanup and drain loops of the daemon run for ever.  Nothing is
\* assumed of uploads or of new plans; the operator attaches the volumes in the
\* end and leaves one to place rows on.
GuildProgress(x) ==
    \/ Abort(x) \/ (life[x] = "retired" /\ Certify(x))
    \/ InstallAdd(x) \/ InstallForget(x)
DrainProgress ==
    \/ \E v, w \in Volumes : MigrationBegin(v, w)
    \/ MigrationCopy \/ MigrationPublish \/ MigrationWithdraw \/ MigrationFinish
    \/ \E v \in Volumes : RetireVolume(v)
Fairness ==
    /\ \A x \in Coding : WF_vars(GuildProgress(x)) /\ WF_vars(DiscardCoding(x))
    /\ WF_vars(DrainProgress)
Attached ==
    /\ \A v \in Volumes : v \in open \/ disk.state[v] = "Retired"
    /\ \E v \in Volumes : disk.state[v] = "Online"
FairHolder == Init /\ [][HolderNext]_vars /\ Fairness /\ <>[]Attached

-----------------------------------------------------------------------------

\* The coding attempts whose shard this node owes the guild: activation was
\* acknowledged and the attempt was neither aborted nor retired.
Owed(x) == x \in acked /\ life[x] \in {"open", "added"}

\* The group had one coding attempt so far.
OneAttempt == Cardinality({x \in Coding : life[x] # "none"}) <= 1

\* Once the node reported the cleanup of an attempt complete and owes none
\* again, no volume, not even one that was detached all along, holds a row of
\* the attempt and no record of it is left: a volume that comes back cannot
\* resurrect a forgotten shard.  Nor is there a repaired copy of its group,
\* unless the repair or the cleanup itself was cut short.  The group had one
\* attempt, as for RowsTraced.
SettledIsGone ==
    \A x \in settled \ disk.oblig :
      OneAttempt /\ ~Retained(x) =>
        /\ disk.rec[x] = None /\ disk.resv[x] = None
        /\ \A v \in Volumes :
             /\ disk.obj[v].att # x
             /\ ~Cuts => disk.obj[v].hash # x

\* Every row on a volume, attached or not, is named by a control record that
\* some later operation starts from: the active receipt, a cleanup obligation,
\* an attempt's reservation or receipt, or a transfer.  The cleanup of an
\* older attempt with the same group can unname the row of its successor.
RowsTraced ==
    \A v \in Volumes :
      LET x == disk.obj[v].att
      IN  OneAttempt /\ x # None =>
            \/ v \in {disk.receipt, disk.rec[x], disk.resv[x]}
            \/ v \in disk.cleanup
            \/ v \in {disk.mig.src, disk.mig.dst}

\* While the group of an attempt is owed or retained no step but bit rot
\* removes its last sound copy: not the cleanup of an older attempt with the
\* same group, not evacuation, not a repair, not a restart.  An emergency copy
\* is not owed: it goes when the holder is back.
LastCopyKept ==
    [][\A x \in Coding :
         (/\ (Owed(x) /\ Owed(x)') \/ (~Emergency /\ Retained(x) /\ Retained(x)')
          /\ Copies(disk, x) # {}
          /\ \A v \in Volumes : disk.obj[v].sound => disk'.obj[v].sound)
         => Copies(disk', x) # {}]_vars

\* The active receipt of an owed group leads to a READY row with
\* its evidence, through every crash of an activation, repair or evacuation.
\* With a second attempt, a node that lags behind the log may still repair the
\* shard of the first, and resuming an evacuation of the first while its source
\* is detached publishes the copy of the first.
ReceiptLeadsToCopy ==
    \A x \in Coding :
      Owed(x) /\ disk.receipt # None /\ OneAttempt
        => /\ disk.obj[disk.receipt].ready
           /\ disk.obj[disk.receipt].hash = x

\* No step retires the active receipt of an owed group while the shard it
\* leads to can be read, as long as no earlier attempt had the same group: a
\* repair, an evacuation or a restart keeps the copy in service.
ReceiptKept ==
    [][\A x \in Coding :
         OneAttempt /\ Owed(x) /\ Owed(x)' /\ Loadable
           => disk'.receipt # None]_vars

\* A volume declared safe to remove holds nothing and no record leads to it.
RetiredIsEmpty ==
    \A v \in Volumes :
      disk.state[v] = "Retired" =>
        /\ ~Owes(disk, v)
        /\ disk.receipt # v /\ disk.mig.src # v

\* Once an emergency shard was reported removed and its marker deleted, no
\* volume, attached or not, holds a copy of it that nothing would collect,
\* unless an operation was cut short.
EmergencyCleared ==
    Emergency /\ ~Cuts /\ ~disk.marker => \A v \in Volumes : Empty(disk, v)

\* With the volumes attached, the node reports the cleanup of every attempt
\* that failed or whose group was forgotten complete, so that the obligation its
\* peers keep for it is discharged, or keeps one of its own until a successor
\* that retains the same group is forgotten too.
CleanupSettles ==
    \A x \in Coding :
      life[x] \in {"aborted", "forgotten"}
        ~> x \in settled \/ (x \in disk.oblig /\ GroupRetained)

\* With the volumes attached, a volume that is drained ends up safe to remove.
DrainCompletes ==
    \A v \in Volumes :
      disk.state[v] = "Draining" ~> disk.state[v] # "Draining"

=============================================================================
