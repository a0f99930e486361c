------------------------------ MODULE GuildLog ------------------------------
(***************************************************************************)
(* How the members of a guild agree on its event history                   *)
(* (crates/mb-node/src/node.rs and network/p2p.rs).  A proposer signs an   *)
(* event for the next sequence number, asks the other active members to    *)
(* sign it, certifies it once the quorum of the state it extends is met,   *)
(* installs it and spreads the certificate; lagging members pull event     *)
(* tails.  Each member durably locks the one event it signed for a         *)
(* sequence number.                                                        *)
(*                                                                         *)
(* An event names its parent by the hash of the history that leads to it;  *)
(* hashes are collision free and a history determines its state, so the    *)
(* parent is modelled as that state, which carries its history (see        *)
(* GuildState).  Requests and certificates on the network are sets that    *)
(* only grow: a message may be delivered late, more than once, or never.   *)
(***************************************************************************)
EXTENDS GuildState

CONSTANTS
    FirstCoordinator,  \* genesis.coordinator
    OperatorKinds,     \* kinds an operator may request from the command line
    MaxSequence,       \* bound on event sequence numbers
    MaxWriterEpoch,    \* bound on writer keys registered per owner
    MaxInterruptions,  \* bound on crashes and abandoned commit calls
    MaxLosses          \* bound on members that lose their disk and recover from the seed

ASSUME LogAssumption ==
    /\ FirstCoordinator \in Genesis
    /\ {MaxSequence, MaxWriterEpoch, MaxInterruptions, MaxLosses} \subseteq Nat

VARIABLES
    state,          \* [Nodes -> guild state]: the published authority, durable
    log,            \* [Nodes -> Seq([event, signers])]: "guild-event" records, durable
    lock,           \* [Nodes -> set of events]: "guild-event-signature-lock" records, durable
    partial,        \* [Nodes -> set of signers]: "guild-event-partial-signatures" of the next event, durable
    jobs,           \* [Nodes -> set of groups]: unfinished "coding-activation-job" records, durable
    backups,        \* [Nodes -> set of [owner, epoch, bytes]]: unfinished "backup-job" records, durable
    running,        \* [Nodes -> set of these]: the ones marked BackupJobState::Running, durable
    claimed,        \* [Nodes -> set of at most one of these]: the backup being processed, lost in a crash
    tasks,          \* [Nodes -> set of [caller, event, signatures]]: running commit calls, lost in a crash
    asked,          \* events whose SignGuildEvent requests have been sent
    certificates,   \* [event, signers] sent in InstallGuildEvent requests
    interruptions,  \* crashes and abandoned calls so far
    losses          \* members recovered from their seed so far

vars == <<state, log, lock, partial, jobs, backups, claimed, running, tasks, asked, certificates, interruptions, losses>>

-----------------------------------------------------------------------------
(* GuildEvent, and views of one member's records. *)

Event(parent, k) == [parent |-> parent, kind |-> k]
EventSequence(e) == Sequence(e.parent) + 1

LocksAt(n, seq) == {e \in lock[n] : EventSequence(e) = seq}
NextLocks(n) == LocksAt(n, Sequence(state[n]) + 1)

(* guild_authority::coordinator: the original one while it is active, else *)
(* the active member with the smallest id.                                 *)
Coordinator(s) ==
    IF FirstCoordinator \in Active(s) THEN FirstCoordinator
    ELSE CHOOSE n \in Active(s) : \A m \in Active(s) : n <= m

(* An event certified by these signers, as verify_event decides it from    *)
(* the state the event extends.                                            *)
Certified(e, signers) == Authorized(e.parent, e.kind, signers)

-----------------------------------------------------------------------------

Init ==
    /\ state = [n \in Nodes |-> NewGuild]
    /\ log = [n \in Nodes |-> << >>]
    /\ lock = [n \in Nodes |-> {}]
    /\ partial = [n \in Nodes |-> {}]
    /\ jobs = [n \in Nodes |-> {}]
    /\ backups = [n \in Nodes |-> {}]
    /\ running = [n \in Nodes |-> {}]
    /\ claimed = [n \in Nodes |-> {}]
    /\ tasks = [n \in Nodes |-> {}]
    /\ asked = {}
    /\ certificates = {}
    /\ interruptions = 0
    /\ losses = 0

(* sign_guild_event_proposal_inner: an existing lock for the sequence only *)
(* answers the very event it holds; otherwise the event must be a valid    *)
(* next event of the member's own state, and the lock is written before    *)
(* the signature leaves.                                                   *)
MaySign(n, e) ==
    \/ e \in lock[n]
    \/ /\ LocksAt(n, EventSequence(e)) = {}
       /\ e.parent = state[n]
       /\ n \in Active(state[n])
       /\ ValidProposal(state[n], e.kind)

Sign(n, e) == MaySign(n, e) /\ lock' = [lock EXCEPT ![n] = @ \cup {e}]

(* Every caller is sequential: the reconciliation loop, the backup loop,   *)
(* the coding loop, and the operator's control requests.                   *)
Idle(n, caller) == \A t \in tasks[n] : t.caller # caller

(* The start of commit_plain_guild_event and commit_verified_coding_group: *)
(* the event extends the proposer's state and is signed locally.           *)
Drive(n, caller, k) ==
    LET e == Event(state[n], k)
    IN  /\ Idle(n, caller)
        /\ EventSequence(e) <= MaxSequence
        /\ ValidProposal(state[n], k)
        /\ Sign(n, e)
        /\ tasks' = [tasks EXCEPT ![n] = @ \cup {[caller |-> caller, event |-> e, signatures |-> {}]}]
        /\ UNCHANGED <<state, log, partial, jobs, backups, claimed, running, asked, certificates, interruptions, losses>>

(* The member has locked this kind for its next sequence number. *)
Resumes(n, k) == \E e \in NextLocks(n) : e.kind = k

-----------------------------------------------------------------------------
(* Who proposes what.                                                      *)

MissingRecoveryKey(s) == {n \in Active(s) : CurrentKey(s, "recovery", n) = 0}

RegisterWithoutResuming(n) ==
    LET missing == MissingRecoveryKey(state[n])
    IN  \E b \in KeyBytes :
          /\ NextLocks(n) = {}
          /\ n \in missing /\ \A m \in missing : n <= m
          /\ Drive(n, "reconcile", RotateKey("recovery", n, Len(state[n].keys["recovery"][n]) + 1, b))

(* needs_recovery_key_registration and reconcile_recovery_key_epoch_once:  *)
(* a member resumes its own locked rotation; with nothing locked, the      *)
(* first active member without a current key registers a fresh one.        *)
RegisterRecoveryKey(n) ==
    LET missing == MissingRecoveryKey(state[n])
    IN  \E b \in KeyBytes :
          LET k == RotateKey("recovery", n, Len(state[n].keys["recovery"][n]) + 1, b)
          IN  /\ \/ Resumes(n, k)
                 \/ /\ NextLocks(n) = {}
                    /\ n \in missing /\ \A m \in missing : n <= m
              /\ Drive(n, "reconcile", k)

(* An owner's prepared revision reaches the coordinator's queue, with the  *)
(* writer key epoch it was sealed under.                                   *)
SubmitBackup(n) ==
    \E owner \in Active(state[n]), epoch \in 1 .. MaxWriterEpoch, b \in KeyBytes :
      /\ n = Coordinator(state[n])
      /\ \A job \in backups[n] : job.owner # owner
      /\ backups' = [backups EXCEPT ![n] = @ \cup {[owner |-> owner, epoch |-> epoch, bytes |-> b]}]
      /\ UNCHANGED <<state, log, lock, partial, jobs, claimed, running, tasks, asked, certificates, interruptions, losses>>

Claim(n, job) ==
    /\ claimed' = [claimed EXCEPT ![n] = {job}]
    /\ running' = [running EXCEPT ![n] = @ \cup {job}]
    /\ UNCHANGED <<state, log, lock, partial, jobs, backups, tasks, asked, certificates, interruptions, losses>>

ClaimBackupEarly(n) ==
    \E job \in backups[n] :
      /\ claimed[n] = {}
      /\ n = Coordinator(state[n])
      /\ \A e \in NextLocks(n) :
            e.kind.type = "RotateKey" /\ e.kind.class = "writer" /\ e.kind.node = job.owner
      /\ Claim(n, job)

(* claim_backup_job: the coordinator starts no backup until every active   *)
(* member has a recovery key, nor behind an unrelated locked event.        *)
ClaimBackup(n) ==
    \E job \in backups[n] :
      /\ claimed[n] = {}
      /\ n = Coordinator(state[n])
      /\ MissingRecoveryKey(state[n]) = {}
      /\ \A e \in NextLocks(n) :
            e.kind.type = "RotateKey" /\ e.kind.class = "writer" /\ e.kind.node = job.owner
      /\ Claim(n, job)

(* ensure_writer_key_epochs for the claimed backup: register the epoch if  *)
(* the guild, which may have moved since the claim, does not know it.      *)
WriterKeyOf(job) == RotateKey("writer", job.owner, job.epoch, job.bytes)

EpochRegistered(n, job) == job.epoch \in DOMAIN state[n].keys["writer"][job.owner]

RegisterWriterKey(n) ==
    \E job \in claimed[n] : ~EpochRegistered(n, job) /\ Drive(n, "backup", WriterKeyOf(job))

(* complete_backup_job (or fail_backup_job, which the owner may submit     *)
(* again) once the key is registered.  A conflicting key, or an event that *)
(* cannot be proposed, is an error: defer_backup_job keeps the job queued. *)
EndBackup(n) ==
    \E job \in claimed[n] :
      LET done == EpochRegistered(n, job)
                  /\ state[n].keys["writer"][job.owner][job.epoch].bytes = job.bytes
          blocked == \/ EpochRegistered(n, job)
                     \/ ~ValidProposal(state[n], WriterKeyOf(job))
                     \/ ~MaySign(n, Event(state[n], WriterKeyOf(job)))
      IN  /\ Idle(n, "backup")
          /\ done \/ blocked
          /\ claimed' = [claimed EXCEPT ![n] = {}]
          /\ running' = [running EXCEPT ![n] = @ \ {job}]
          /\ backups' = [backups EXCEPT ![n] = IF done THEN @ \ {job} ELSE @]
          /\ UNCHANGED <<state, log, lock, partial, jobs, tasks, asked, certificates, interruptions, losses>>

(* accept_coding_transcript: a verified attempt planned by n while it was  *)
(* the coordinator of a fully registered guild becomes an activation job,  *)
(* however much the guild has moved on.                                    *)
QueueActivation(n) ==
    \E g \in Groups, s \in {state[n]} \cup {log[n][i].event.parent : i \in DOMAIN log[n]} :
      /\ n = Coordinator(s) /\ MissingRecoveryKey(s) = {} /\ PlacementCurrent(s, g)
      /\ g \notin jobs[n] \cup Retained(state[n])
      /\ jobs' = [jobs EXCEPT ![n] = @ \cup {g}]
      /\ UNCHANGED <<state, log, lock, partial, backups, claimed, running, tasks, asked, certificates, interruptions, losses>>

(* claim_coding_activation and commit_verified_coding_group: with an event *)
(* locked next only its own job may run.                                   *)
ActivateCodingGroup(n) ==
    \E g \in jobs[n] :
      /\ NextLocks(n) = {} \/ Resumes(n, AddCodingGroup(g))
      /\ Drive(n, "coding", AddCodingGroup(g))

(* The job ends without an event when its group is retained already, or    *)
(* when its placement is stale and the attempt must be replanned.          *)
EndActivation(n) ==
    \E g \in jobs[n] :
      /\ Idle(n, "coding")
      /\ g \in Retained(state[n]) \/ (NextLocks(n) = {} /\ ~PlacementCurrent(state[n], g))
      /\ jobs' = [jobs EXCEPT ![n] = @ \ {g}]
      /\ UNCHANGED <<state, log, lock, partial, backups, claimed, running, tasks, asked, certificates, interruptions, losses>>

(* variable_group_ready_to_forget: the oldest group past its window. *)
ReadyToForget(s) ==
    {g \in Retained(s) :
        /\ Forgettable(s, g)
        /\ \A h \in Retained(s) :
              Forgettable(s, h) => s.groups[g].added <= s.groups[h].added}

(* reconcile_variable_group_lifecycle_once: only the coordinator; a locked *)
(* Retire or Forget is resumed, any other locked event is left alone; else *)
(* forgetting comes first, then the retirement of a redundant group, with  *)
(* a window that ends with the event itself, unless a backup is marked     *)
(* running (backup_commit_in_progress).  Redundancy depends on checkpoint  *)
(* data and is left open here.                                             *)
ReconcileGroupLifecycle(n) ==
    LET s == state[n]
    IN  /\ n = Coordinator(s)
        /\ \E g \in Retained(s) :
           \E k \in {ForgetCodingGroup(g), RetireCodingGroup(g, Sequence(s) + 1)} :
              /\ \/ Resumes(n, k)
                 \/ /\ NextLocks(n) = {}
                    /\ IF ReadyToForget(s) # {}
                       THEN k.type = "ForgetCodingGroup" /\ g \in ReadyToForget(s)
                       ELSE k.type = "RetireCodingGroup" /\ running[n] = {}
              /\ Drive(n, "reconcile", k)

(* prepare_guild_administration: membership, policy and revocation through *)
(* the coordinator, a rotation of the own recovery key at any member; a    *)
(* rotation that is already locked is proposed again unchanged.            *)
OperatorKind(s, n) ==
    {k \in {RemoveMember(m) : m \in Nodes}
           \cup {RelabelMember(m, d) : m \in Nodes, d \in Domains}
           \cup {SetQuorum(p) : p \in Policies}
           \cup {RevokeKey("recovery", m, e) : m \in Nodes, e \in 1 .. MaxSequence} :
        n = Coordinator(s)}
    \cup {RotateKey("recovery", n, Len(s.keys["recovery"][n]) + 1, b) : b \in KeyBytes}

Administer(n) ==
    \E k \in OperatorKind(state[n], n) :
      /\ k.type \in OperatorKinds
      /\ k.type = "RotateKey" => NextLocks(n) = {} \/ Resumes(n, k)
      /\ Drive(n, "operator", k)

-----------------------------------------------------------------------------
(* Collecting signatures and installing the certificate.                   *)

(* The SignGuildEvent handler of another member. *)
AnswerSignRequest(m, e) ==
    /\ e \in asked
    /\ e \notin lock[m]
    /\ Sign(m, e)
    /\ UNCHANGED <<state, log, partial, jobs, backups, claimed, running, tasks, asked, certificates, interruptions, losses>>

(* collect_guild_event_signature: m's signature on the task's event joins  *)
(* the durable partial set, provided the event still follows the           *)
(* proposer's history; the proposer's own comes first, and then the        *)
(* requests go out.  Nothing is requested once the quorum is met.          *)
Collect(n, m, t) ==
    /\ t \in tasks[n]
    /\ t.event \in lock[n] /\ t.event.parent = state[n]
    /\ ~Certified(t.event, t.signatures)
    /\ t.event \in lock[m] /\ m \notin t.signatures
    /\ m = n \/ (t.event \in asked /\ t.signatures # {})
    /\ m \in Active(state[n])
    /\ partial' = [partial EXCEPT ![n] = @ \cup {m}]
    /\ tasks' = [tasks EXCEPT ![n] = (@ \ {t}) \cup
          {[caller |-> t.caller, event |-> t.event, signatures |-> partial[n] \cup {m}]}]
    /\ asked' = asked \cup {t.event}
    /\ UNCHANGED <<state, log, lock, jobs, backups, claimed, running, certificates, interruptions, losses>>

(* install_guild_event_inner: a certificate that follows the local state   *)
(* is verified against it and published with the new state in one          *)
(* transaction, which drops the partial signatures.                        *)
Installable(n, c) ==
    /\ c.event.parent = state[n]
    /\ Authorized(state[n], c.event.kind, c.signers)
    /\ ValidProposal(state[n], c.event.kind)

InstallUnrecorded(n, c) ==
    /\ Installable(n, c)
    /\ state' = [state EXCEPT ![n] = ApplyVerified(@, c.event.kind)]
    /\ partial' = [partial EXCEPT ![n] = {}]
    /\ UNCHANGED log

InstallStaleTables(n, c) ==
    /\ Installable(n, c)
    /\ state' = [state EXCEPT ![n] = [ApplyVerified(@, c.event.kind) EXCEPT
          !.epoch = state[n].epoch, !.groups = state[n].groups]]
    /\ log' = [log EXCEPT ![n] = Append(@, c)]
    /\ partial' = [partial EXCEPT ![n] = {}]

Install(n, c) ==
    /\ Installable(n, c)
    /\ state' = [state EXCEPT ![n] = ApplyVerified(@, c.event.kind)]
    /\ log' = [log EXCEPT ![n] = Append(@, c)]
    /\ partial' = [partial EXCEPT ![n] = {}]

AnyCertificateOf(n, c) ==
    EventSequence(c.event) \in DOMAIN log[n] /\ log[n][EventSequence(c.event)].event = c.event

(* For an installed sequence number it accepts the stored certificate only. *)
AlreadyInstalled(n, c) ==
    EventSequence(c.event) \in DOMAIN log[n] /\ log[n][EventSequence(c.event)] = c

(* The end of a commit call: local install, then dissemination, unless a   *)
(* different certificate took the sequence number meanwhile.               *)
Finish(n, t) ==
    LET c == [event |-> t.event, signers |-> t.signatures]
    IN  /\ t \in tasks[n]
        /\ Certified(t.event, t.signatures)
        /\ tasks' = [tasks EXCEPT ![n] = @ \ {t}]
        /\ \/ Install(n, c)
           \/ AlreadyInstalled(n, c) /\ UNCHANGED <<state, log, partial>>
        /\ certificates' = certificates \cup {c}
        /\ UNCHANGED <<lock, jobs, backups, claimed, running, asked, interruptions, losses>>

(* The InstallGuildEvent handler; what it rejects or already has changes   *)
(* nothing.                                                                *)
InstallPushed(m, c) ==
    /\ c \in certificates
    /\ Install(m, c)
    /\ UNCHANGED <<lock, jobs, backups, claimed, running, tasks, asked, certificates, interruptions, losses>>

(* sync_guild_event_page, in the reconciliation loop: m pulls the tail     *)
(* that follows its head from a member p it lists, and installs it one     *)
(* event at a time.                                                        *)
PullTail(m, p) ==
    /\ Idle(m, "reconcile")
    /\ p \in Active(state[m])
    /\ Sequence(state[m]) + 1 \in DOMAIN log[p]
    /\ Install(m, log[p][Sequence(state[m]) + 1])
    /\ UNCHANGED <<lock, jobs, backups, claimed, running, tasks, asked, certificates, interruptions, losses>>

-----------------------------------------------------------------------------
(* Failures.                                                               *)

(* A commit call ends without a certificate: its requests failed or timed  *)
(* out, or its event no longer follows the local history.  An error while  *)
(* registering a writer key defers the claimed backup.                     *)
Abandon(n, t) ==
    /\ t \in tasks[n]
    /\ tasks' = [tasks EXCEPT ![n] = @ \ {t}]
    /\ \/ t.event.parent # state[n] /\ UNCHANGED interruptions
       \/ interruptions < MaxInterruptions /\ interruptions' = interruptions + 1
    /\ LET deferred == IF t.caller = "backup" THEN claimed[n] ELSE {}
       IN  /\ claimed' = [claimed EXCEPT ![n] = @ \ deferred]
           /\ running' = [running EXCEPT ![n] = @ \ deferred]
    /\ UNCHANGED <<state, log, lock, partial, jobs, backups, asked, certificates, losses>>

(* A crash loses the running calls and keeps the records. *)
Crash(n) ==
    /\ tasks[n] # {} \/ claimed[n] # {}
    /\ interruptions < MaxInterruptions
    /\ interruptions' = interruptions + 1
    /\ tasks' = [tasks EXCEPT ![n] = {}]
    /\ claimed' = [claimed EXCEPT ![n] = {}]
    /\ UNCHANGED <<state, log, lock, partial, jobs, backups, running, asked, certificates, losses>>

(* validate_recovery_head: the publishers whose bundle for n carries the   *)
(* recovery key that is current in p's history, and how many it takes      *)
(* (required_recovery_publishers).                                         *)
SameKey(n, m, p) ==
    LET e == CurrentKey(state[p], "recovery", n)
    IN  /\ e # 0
        /\ CurrentKey(state[m], "recovery", n) = e
        /\ state[m].keys["recovery"][n][e].bytes = state[p].keys["recovery"][n][e].bytes

RecoveryConfirmed(n, p) ==
    LET others == Active(state[p]) \ {n}
        confirmed == {m \in others : SameKey(n, m, p)}
    IN  Cardinality(confirmed) >= 3 \/ (confirmed = others /\ others # {})

(* adopt_recovered_dynamic_guild: a member that lost its disk comes back   *)
(* from its seed with the event history of one publisher that still lists  *)
(* it as active.  Signature locks are not part of what is recovered.       *)
RecoverFromSeed(n, p) ==
    /\ losses < MaxLosses
    /\ n # p
    /\ n \in Active(state[p]) /\ p \in Active(state[p])
    /\ RecoveryConfirmed(n, p)
    /\ losses' = losses + 1
    /\ state' = [state EXCEPT ![n] = state[p]]
    /\ log' = [log EXCEPT ![n] = log[p]]
    /\ lock' = [lock EXCEPT ![n] = {}]
    /\ partial' = [partial EXCEPT ![n] = {}]
    /\ jobs' = [jobs EXCEPT ![n] = {}]
    /\ backups' = [backups EXCEPT ![n] = {}]
    /\ running' = [running EXCEPT ![n] = {}]
    /\ claimed' = [claimed EXCEPT ![n] = {}]
    /\ tasks' = [tasks EXCEPT ![n] = {}]
    /\ UNCHANGED <<asked, certificates, interruptions>>

-----------------------------------------------------------------------------

(* The steps of a running call on behalf of the given caller. *)
Progress(n, caller) ==
    \E t \in tasks[n] :
      /\ t.caller = caller
      /\ \/ Finish(n, t)
         \/ t.event.parent # state[n] /\ Abandon(n, t)
         \/ \E m \in Nodes : Collect(n, m, t)

ReconcileLoop(n) ==
    \/ RegisterRecoveryKey(n)
    \/ ReconcileGroupLifecycle(n)
    \/ \E p \in Nodes : PullTail(n, p)
    \/ Progress(n, "reconcile")

BackupLoop(n) == ClaimBackup(n) \/ RegisterWriterKey(n) \/ EndBackup(n) \/ Progress(n, "backup")
CodingLoop(n) == ActivateCodingGroup(n) \/ EndActivation(n) \/ Progress(n, "coding")
Serve(n) == \E e \in asked : AnswerSignRequest(n, e)

(* A guild left to itself: daemons, their peers and owners, messages and   *)
(* crashes.                                                                *)
Background ==
    \E n \in Nodes :
      \/ ReconcileLoop(n)
      \/ BackupLoop(n)
      \/ CodingLoop(n)
      \/ SubmitBackup(n) \/ QueueActivation(n)
      \/ Serve(n)
      \/ \E c \in certificates : InstallPushed(n, c)
      \/ Crash(n) \/ (\E t \in tasks[n] : Abandon(n, t))

(* With an operator's requests, and members that lose their disks. *)
Next ==
    \/ Background
    \/ \E n \in Nodes :
         \/ Administer(n) \/ Progress(n, "operator")
         \/ \E p \in Nodes : RecoverFromSeed(n, p)

Spec == Init /\ [][Next]_vars

BackgroundSpec == Init /\ [][Background]_vars

(* Each loop of a running daemon keeps running, and connected peers answer *)
(* sign requests.  Which of its possible steps a loop takes is not         *)
(* assumed, nor that operators, owners or pushed certificates act at all.  *)
Fairness ==
    \A n \in Nodes :
      /\ WF_vars(ReconcileLoop(n))
      /\ WF_vars(BackupLoop(n))
      /\ WF_vars(CodingLoop(n))
      /\ WF_vars(Serve(n))

FairBackground == BackgroundSpec /\ Fairness

-----------------------------------------------------------------------------

(* Agreement: the histories any two members have installed never diverge,  *)
(* whatever the interleaving of proposals, retries, crashes and late       *)
(* certificates, and across changes of membership and quorum policy.       *)
Agreement ==
    \A n, m \in Nodes :
      \A i \in DOMAIN log[n] \cap DOMAIN log[m] : log[n][i].event = log[m][i].event

(* Members also hold the same certificate, not just the same event:        *)
(* install_guild_event_inner compares the stored bytes, so a second quorum *)
(* for one event would be refused as a conflict ever after.                *)
OneCertificate ==
    \A n, m \in Nodes :
      \A i \in DOMAIN log[n] \cap DOMAIN log[m] : log[n][i].signers = log[m][i].signers

(* The background loops of different members never compete for a sequence  *)
(* number: no two members lock different events for it, which under the    *)
(* genesis rule of unanimity would block the guild for good (the reason    *)
(* backup claims wait for every recovery key).                             *)
NoSplitVote ==
    \A n, m \in Nodes : \A e \in lock[n], f \in lock[m] : EventSequence(e) = EventSequence(f) => e = f

(* No vote blocks its member for good: a member that has locked an event   *)
(* for its next sequence number eventually gets past that number, although *)
(* any call may be interrupted between two of its steps.                   *)
VotesDecide == \A n \in Nodes : (NextLocks(n) # {}) ~> (NextLocks(n) = {})

(* The longest installed history behaves like the single history of        *)
(* GuildHistory: members with their own disks and messages implement it.   *)
Longest == CHOOSE n \in Nodes : \A m \in Nodes : Sequence(state[m]) <= Sequence(state[n])

Abstract == INSTANCE GuildHistory WITH state <- state[Longest]

ImplementsGuildHistory == Abstract!Spec

Events == [parent : States, kind : Kinds]
Certificates == [event : Events, signers : SUBSET Nodes]
BackupJobs == [owner : Nodes, epoch : Nat, bytes : KeyBytes]
Callers == {"reconcile", "backup", "coding", "operator"}

TypeOK ==
    /\ state \in [Nodes -> States]
    /\ log \in [Nodes -> Seq(Certificates)]
    /\ lock \in [Nodes -> SUBSET Events]
    /\ partial \in [Nodes -> SUBSET Nodes]
    /\ jobs \in [Nodes -> SUBSET Groups]
    /\ backups \in [Nodes -> SUBSET BackupJobs]
    /\ running \in [Nodes -> SUBSET BackupJobs]
    /\ claimed \in [Nodes -> SUBSET BackupJobs]
    /\ tasks \in [Nodes -> SUBSET [caller : Callers, event : Events, signatures : SUBSET Nodes]]
    /\ asked \in SUBSET Events
    /\ certificates \in SUBSET Certificates
    /\ interruptions \in Nat /\ losses \in Nat

-----------------------------------------------------------------------------
(* The inductive invariant behind Agreement.                               *)

(* The members whose signature lock holds the event. *)
Voted(e) == {n \in Nodes : e \in lock[n]}

(* A member locks at most one event per sequence number. *)
VoteOnce ==
    \A n \in Nodes : \A e, f \in lock[n] : EventSequence(e) = EventSequence(f) => e = f

(* The state of n after its first i events. *)
After(n, i) == IF i = Len(log[n]) THEN state[n] ELSE log[n][i + 1].event.parent

(* A member's state is the replay of its log, each event of which was      *)
(* certified by locked votes in the state before it.                       *)
Replayed ==
    \A n \in Nodes :
      /\ Sequence(state[n]) = Len(log[n])
      /\ After(n, 0) = NewGuild
      /\ \A i \in DOMAIN log[n] :
            /\ After(n, i) = ApplyVerified(log[n][i].event.parent, log[n][i].event.kind)
            /\ Sequence(log[n][i].event.parent) = i - 1
            /\ Certified(log[n][i].event, log[n][i].signers)
            /\ log[n][i].signers \subseteq Voted(log[n][i].event)

(* Signatures in calls, in partial sets and in certificates on the network *)
(* come from locked votes.                                                 *)
SignaturesAreVotes ==
    /\ \A c \in certificates : c.signers \subseteq Voted(c.event)
    /\ \A n \in Nodes :
          /\ \A t \in tasks[n] : t.signatures \subseteq Voted(t.event)
          /\ NextLocks(n) = {} => partial[n] = {}
          /\ \A e \in NextLocks(n) : partial[n] \subseteq Voted(e)

(* Every state a member publishes can be governed: its policy asks for     *)
(* more than half of its active members.                                   *)
StatesValid == \A n \in Nodes : Valid(state[n]) /\ \A i \in DOMAIN log[n] : Valid(log[n][i].event.parent)

LogInvariant ==
    TypeOK /\ VoteOnce /\ Replayed /\ SignaturesAreVotes /\ StatesValid /\ Agreement

=============================================================================
