---------------------------- MODULE CodingAttempt ----------------------------
(***************************************************************************)
(* The coding of one source lane of a checkpoint: its delegator queues a   *)
(* launch, a coder encodes and has the result verified, and the delegator  *)
(* activates a verified result, retries a failed attempt with fresh roles, *)
(* renews an expired launch, and replaces an attempt whose result blames   *)
(* its coder or whose group was retired (mb-node/src/node.rs, the coding   *)
(* jobs, and network/p2p.rs, run_delegated_coding_jobs).                   *)
(*                                                                         *)
(* Jobs live in the delegator's control database; every put_records is one *)
(* transaction.  The worker processes one job at a time but gives up the   *)
(* node's lock whenever it waits for the network, so a coder's result or   *)
(* failure, the planner, guild events and a crash fall between its steps.  *)
(* An attempt is named by a number in the order of signing; its place in   *)
(* the database's key order, which is random, is Rank.  Every attempt is   *)
(* of format 3 and its coordinators are members other than the delegator.  *)
(***************************************************************************)
EXTENDS Integers, Sequences, FiniteSets

CONSTANTS
    Pairs,       \* <<coder, verifier>> pairs that can be reached and chosen
    Geometries,  \* parity placements of the lane, each on its own holder
    MaxAttempts, \* bound: attempts signed
    Budgets,     \* bounds of the behaviours considered, see budget
    Rank         \* of an attempt in the database's key order

FaultKinds ==
    {"fail", "invalid", "expire", "lost", "unreachable", "crash", "conflict",
     "retire", "membership"}

Ids == 1 .. MaxAttempts
None == 0

ASSUME CodingAssumption ==
    /\ MaxAttempts \in Nat
    /\ \A p \in Pairs : Len(p) = 2 /\ p[1] # p[2]
    /\ Budgets \subseteq
         [kinds : SUBSET FaultKinds, faults : Nat, attempts : Ids,
          epochs : Nat, placed : SUBSET Geometries]
    /\ \A a, b \in Ids : Rank[a] = Rank[b] => a = b

VARIABLES
    plans,    \* signed plans; the attempt is the index
    expired,  \* attempts past expires_at_unix_seconds
    guild,    \* installed guild state and the delegator's own signature lock
    db,       \* coding records of the delegator's control database
    job,      \* of each attempt, delegated-coding-job at its coder
    finding,  \* of each attempt, the verdict its verifier signed
    hold,     \* what the attempt's holders store and what is owed to them
    w,        \* the delegator's coding worker between two of its steps
    budget,   \* the faults still to come, of the kinds named, and the bounds
              \* on attempts and epochs; placed is where the lane starts from
    open      \* the lane was queued in this epoch and has not been covered

vars == <<plans, expired, guild, db, job, finding, hold, w, budget, open>>

Signed == DOMAIN plans
G(a) == plans[a].geometry
Roles(a) == {plans[a].coder, plans[a].verifier}
Both(p) == {p[1], p[2]}

JobStates ==
    {"none", "Pending", "Running", "Staged", "Cleanup", "Submitting",
     "ReportingFailure", "Complete"}

Idle ==
    [pc |-> "idle", a |-> None, c |-> None, t |-> None, next |-> "idle",
     policy |-> "fenced", e |-> {}, ok |-> FALSE]

EmptyDb ==
    [launch |-> {}, dispatched |-> {}, info |-> {}, staged |-> {},
     retry |-> {}, complete |-> {}, terminal |-> {},
     child |-> [a \in Ids |-> None], parent |-> [a \in Ids |-> None],
     act |-> {}, done |-> {}, replan |-> {}, retired |-> {}, renewed |-> {},
     bound |-> [g \in Geometries |-> None]]

Init ==
    /\ budget \in Budgets
    /\ plans = <<>> /\ expired = {}
    /\ guild = [epoch |-> 1, placed |-> budget.placed, locked |-> None,
                group |-> [g \in Geometries |-> "absent"]]
    /\ db = EmptyDb
    /\ job = [a \in Ids |-> "none"]
    /\ finding = [a \in Ids |-> "none"]
    /\ hold = [bytes |-> {}, ready |-> {}, owed |-> {}]
    /\ w = Idle /\ open = FALSE

Fault(kind) ==
    /\ kind \in budget.kinds /\ budget.faults > 0
    /\ budget' = [budget EXCEPT !.faults = @ - 1]

-----------------------------------------------------------------------------
(* What the handlers read.                                                 *)

\* validate_coding_attempt_plan: the epoch is current, the plan unexpired.
Valid(a) == plans[a].epoch = guild.epoch /\ a \notin expired

SameLane(a, b) == G(a) = G(b) /\ plans[a].epoch = plans[b].epoch

Submitted(a) == a \in db.act \cup db.retry

VerifiedResult(a) == a \in db.act /\ finding[a] = "verified"

\* coding_activation_has_coverage
Covered(a) == finding[a] = "verified" /\ guild.group[G(a)] = "active"

\* coding_retry_previous_plan
Previous(r) == IF db.parent[r] = None THEN r ELSE db.parent[r]

\* Coordinators a replacement in lane <<g, e>> must avoid while its retry is
\* incomplete; a child that failed owns the exclusions of its own generation.
Excluded(g, e) ==
    LET jobs == {r \in db.retry \ db.complete :
                    /\ G(r) = g /\ plans[r].epoch = e
                    /\ db.child[r] \notin db.retry}
        Blamed(r) == IF db.child[r] \in expired \cup db.retired
                     THEN db.child[r] ELSE Previous(r)
    IN UNION {Roles(Blamed(r)) : r \in jobs}

\* Coders a verifier's transcript blamed in this source lane and epoch.
Invalid(e) ==
    {plans[a].coder : a \in {b \in db.act : /\ finding[b] = "invalid"
                                            /\ plans[b].epoch = e}}

\* A retry successor, or a launch, that can still do the work.
LiveChild(c) == c # None /\ Valid(c) /\ c \notin db.retry \cup db.retired
LiveLaunch(a) == Valid(a) /\ a \notin db.retry \cup db.retired

\* Verified results that cover the lane or still can.
Usable(a) ==
    /\ a \in db.act /\ finding[a] = "verified" /\ G(a) \in guild.placed
    /\ a \notin db.done \/ guild.group[G(a)] = "active"

HasReplacement(r) ==
    LET evidence == {a \in db.act :
                        \/ Covered(a)
                        \/ a \notin db.done /\ Usable(a)}
    IN \E a \in db.launch \cup evidence :
          /\ a # r /\ SameLane(a, r)
          /\ Roles(a) \cap Excluded(G(r), plans[r].epoch) = {}

\* Mutant: forgets the attempt whose group was forgotten after activation.
NeedsReplanMarked(a) == a \in db.replan

\* coding_activation_needs_replan
NeedsReplan(a) ==
    \/ a \in db.replan
    \/ /\ guild.locked # a
       /\ guild.group[G(a)] = "absent" /\ db.bound[G(a)] = a

\* fresh_coding_activation_coordinators, and the rotation it falls back to:
\* the old verifier codes and a third member verifies.
FreshPairs(a) ==
    LET usable == {p \in Pairs : Both(p) \cap Invalid(plans[a].epoch) = {}}
        fresh == {p \in usable : Both(p) \cap Roles(a) = {}}
        rotated == {p \in usable : /\ p[1] = plans[a].verifier
                                   /\ p[2] \notin Roles(a)}
    IN IF fresh # {} THEN fresh ELSE rotated

\* What the network offers a renewal of a: a pair and the placements whose
\* holders have capacity.  A fault hides the pair or some of the holders.
NoPair == <<>>
OfferPair(a, p) ==
    \/ /\ UNCHANGED budget
       /\ p \in IF FreshPairs(a) = {} THEN {NoPair} ELSE FreshPairs(a)
    \/ FreshPairs(a) # {} /\ p = NoPair /\ Fault("unreachable")
Offer(a, p, E) ==
    \/ /\ UNCHANGED budget /\ E = guild.placed
       /\ p \in IF FreshPairs(a) = {} THEN {NoPair} ELSE FreshPairs(a)
    \/ /\ Fault("unreachable")
       /\ E \subseteq guild.placed
       /\ p \in FreshPairs(a) \cup {NoPair}

\* sign_coding_attempt_plan; every signed plan is valid when it is signed.
New == Len(plans) + 1
Sign(p, g, initial) ==
    /\ New <= budget.attempts /\ g \in guild.placed
    /\ plans' = Append(plans, [coder |-> p[1], verifier |-> p[2],
                               geometry |-> g, epoch |-> guild.epoch,
                               initial |-> initial])

-----------------------------------------------------------------------------
(* The planner: queue_variable_coding_lanes for an uncovered lane.         *)

\* The attempt with the deterministic ID of lane <<g, current epoch>>.
InitialIds(g) ==
    {a \in Signed : /\ plans[a].initial
                    /\ G(a) = g /\ plans[a].epoch = guild.epoch}

\* Owners enqueue_coding_launch_with_information returns instead of a launch.
Owners(g) ==
    (InitialIds(g) \cap (db.launch \cup (db.retry \ db.retired)))
    \cup {a \in db.act \ db.done : G(a) = g}
    \cup {c \in {db.child[r] : r \in db.retry} : LiveChild(c) /\ G(c) = g}
    \cup {a \in db.launch : LiveLaunch(a) /\ G(a) = g}

Uncovered == \A g \in Geometries : guild.group[g] # "active"

EnqueueNew(g, p) ==
    /\ Uncovered /\ Owners(g) = {}
    /\ Both(p) \cap Excluded(g, guild.epoch) = {}
    /\ Sign(p, g, InitialIds(g) = {})
    /\ db' = [db EXCEPT !.launch = @ \cup {New}, !.info = @ \cup {New}]
    /\ open' = TRUE
    /\ UNCHANGED <<expired, guild, job, finding, hold, w, budget>>

\* A retry under the deterministic ID also loses a launch left beside it.
EnqueueCoalesced(g) ==
    /\ Uncovered /\ g \in guild.placed
    /\ \E a \in Owners(g) : plans[a].epoch = guild.epoch
    /\ db' = [db EXCEPT !.launch =
                 @ \ (InitialIds(g) \cap (db.retry \ db.retired))]
    /\ open' = TRUE
    /\ UNCHANGED <<plans, expired, guild, job, finding, hold, w, budget>>

Enqueue == \E g \in Geometries :
              EnqueueCoalesced(g) \/ \E p \in Pairs : EnqueueNew(g, p)

-----------------------------------------------------------------------------
(* Cleanup of an attempt at its holders.                                   *)

\* Mutant: only activated shards are removed.
DiscardReadyOnly(h, t) ==
    IF t \notin h.ready THEN h
    ELSE IF guild.group[G(t)] # "absent"
    THEN [h EXCEPT !.owed = @ \cup {t}]
    ELSE [bytes |-> h.bytes \ {t}, ready |-> h.ready \ {t},
          owed |-> h.owed \ {t}]

\* discard_coding_attempt: while the group of an activated attempt is
\* retained the bytes stay and the holder owes their removal to itself.
Discard(h, t) ==
    IF t \in h.ready /\ guild.group[G(t)] # "absent"
    THEN [h EXCEPT !.owed = @ \cup {t}]
    ELSE [bytes |-> h.bytes \ {t}, ready |-> h.ready \ {t},
          owed |-> h.owed \ {t}]

\* Mutant: cleanup without the durable fence.
FenceForgotten(d, t) == d

\* retire_coding_retry_plan: accepted verifier evidence wins over retirement.
Fence(d, t) ==
    IF VerifiedResult(t) THEN d ELSE [d EXCEPT !.retired = @ \cup {t}]

Aborting(t, policy, next) ==
    [w EXCEPT !.pc = "abort", !.t = t, !.policy = policy, !.next = next]

\* Mutant: an unreachable holder's cleanup is skipped, not recorded.
AbortUnrecorded ==
    /\ w.pc = "abort"
    /\ \/ hold' = Discard(hold, w.t) /\ UNCHANGED budget
       \/ UNCHANGED hold /\ Fault("unreachable")
    /\ w' = [w EXCEPT !.pc = w.next, !.t = None, !.next = "idle",
                      !.policy = "fenced"]
    /\ UNCHANGED <<plans, expired, guild, db, job, finding, open>>

\* abort_delegated_coding_with_policy: a holder that cannot be reached, or
\* whose answer is lost, is owed the cleanup when the policy defers it and
\* stops the caller otherwise.
Abort ==
    /\ w.pc = "abort"
    /\ LET deferred == \/ w.policy = "fenced"
                       \/ w.policy = "stale" /\ G(w.t) \notin guild.placed
           Proceed == [w EXCEPT !.pc = w.next, !.t = None, !.next = "idle",
                                !.policy = "fenced"]
       IN \/ /\ hold' = Discard(hold, w.t)
             /\ w' = Proceed
             /\ UNCHANGED budget
          \/ /\ Fault("unreachable")
             /\ \E h \in {hold, Discard(hold, w.t)} :
                   hold' = IF deferred THEN [h EXCEPT !.owed = @ \cup {w.t}]
                                       ELSE h
             /\ w' = IF deferred THEN Proceed ELSE Idle
    /\ UNCHANGED <<plans, expired, guild, db, job, finding, open>>

\* Mutant: the cleanup job is closed whatever the holder answers.
HolderCleanupClosed(a) ==
    /\ a \in hold.owed
    /\ hold' = [hold EXCEPT !.owed = @ \ {a}]
    /\ UNCHANGED <<plans, expired, guild, db, job, finding, w, budget, open>>

\* process_coding_holder_cleanup_job, at the delegator or at the holder.
HolderCleanup(a) ==
    /\ a \in hold.owed
    /\ hold' = Discard(hold, a)
    /\ UNCHANGED <<plans, expired, guild, db, job, finding, w, budget, open>>

-----------------------------------------------------------------------------
(* The worker's retries: process_coding_retry_job.                         *)

\* coding_retry_needs_recovery of a completed job whose child went stale.
WentStale(r) ==
    /\ r \in db.complete \ db.terminal /\ db.child[r] # None
    /\ \/ plans[r].epoch # guild.epoch
       \/ db.child[r] \in expired \cup db.retired
Recoverable(r) == WentStale(r) /\ ~Submitted(db.child[r])
HandedOver(r) ==
    /\ WentStale(r) /\ Submitted(db.child[r])
    /\ db.child[r] \notin db.act \/ Covered(db.child[r])

\* The scan reopens or closes the completed jobs it passes on its way to r.
ClaimRetry(r) ==
    /\ w.pc = "idle"
    /\ r \in db.retry /\ (r \notin db.complete \/ Recoverable(r))
    /\ \E seen \in SUBSET {b \in db.retry : Recoverable(b) \/ HandedOver(b)} :
          db' = [db EXCEPT
                   !.complete = @ \ ({r} \cup {b \in seen : Recoverable(b)}),
                   !.terminal = @ \cup {b \in seen : HandedOver(b)}]
    /\ w' = [Idle EXCEPT !.pc = "retryStart", !.a = r, !.c = db.child[r]]
    /\ UNCHANGED <<plans, expired, guild, job, finding, hold, budget, open>>

\* cleanup_coding_retry_plan of the failed parent, on the way to dropping a
\* stale or replaced retry or to the next successor.
RetryStart ==
    /\ w.pc = "retryStart"
    /\ LET drop == plans[w.a].epoch # guild.epoch \/ HasReplacement(w.a)
       IN w' = Aborting(w.a, "fenced",
                        IF drop THEN "retryDrop" ELSE "retryPick")
    /\ db' = Fence(db, w.a)
    /\ UNCHANGED <<plans, expired, guild, job, finding, hold, budget, open>>

\* Mutant: a replaced retry discards its child without looking for a result.
RetryDropBlind ==
    /\ w.pc = "retryDrop"
    /\ w' = IF w.c = None
            THEN [w EXCEPT !.pc = "retryFinish", !.ok = TRUE]
            ELSE [Aborting(w.c, "fenced", "retryFinish") EXCEPT !.ok = TRUE]
    /\ db' = IF w.c = None THEN db ELSE Fence(db, w.c)
    /\ UNCHANGED <<plans, expired, guild, job, finding, hold, budget, open>>

RetryDrop ==
    /\ w.pc = "retryDrop"
    /\ w' = IF w.c = None \/ VerifiedResult(w.c)
            THEN [w EXCEPT !.pc = "retryFinish", !.ok = w.c = None]
            ELSE [Aborting(w.c, "fenced", "retryFinish") EXCEPT !.ok = TRUE]
    /\ db' = IF w.c = None THEN db ELSE Fence(db, w.c)
    /\ UNCHANGED <<plans, expired, guild, job, finding, hold, budget, open>>

\* execute_coding_retry after the parent's cleanup: yield to a submitted
\* child, give up one that is fenced, expired or badly placed, or go on.
RetryPick ==
    /\ w.pc = "retryPick"
    /\ \E E \in SUBSET guild.placed :
          /\ \/ E = guild.placed /\ UNCHANGED budget
             \/ E # guild.placed /\ Fault("unreachable")
          /\ LET c == w.c
                 giveUp == /\ c # None
                           /\ \/ c \in db.retired \cup expired
                              \/ E # {} /\ G(c) \notin E
             IN \/ /\ c # None /\ Submitted(c)
                   /\ w' = [w EXCEPT !.pc = "retryFinish"]
                   /\ UNCHANGED db
                \/ /\ giveUp /\ ~Submitted(c)
                   /\ w' = [Aborting(c, "fenced", "retryRenew")
                               EXCEPT !.e = E]
                   /\ db' = Fence(db, c)
                \/ /\ ~giveUp /\ (c = None \/ ~Submitted(c))
                   /\ w' = [w EXCEPT !.e = E,
                               !.pc = IF G(w.a) \in E THEN "retryPrepare"
                                                      ELSE "retryReplan"]
                   /\ UNCHANGED db
    /\ UNCHANGED <<plans, expired, guild, job, finding, hold, open>>

\* Mutant: a deferred retry is closed.
DeferRetryCloses ==
    /\ db' = [db EXCEPT !.complete = @ \cup {w.a}]
    /\ w' = Idle

\* defer_coding_retry
DeferRetry ==
    /\ db' = [db EXCEPT !.complete = @ \ {w.a}]
    /\ w' = Idle

\* renew_coding_retry_after_cleanup: only this worker moves the job, which is
\* therefore still the claimed one.
RetryRenew ==
    /\ w.pc = "retryRenew"
    /\ db' = [db EXCEPT !.parent[w.a] = w.c, !.child[w.a] = None,
                        !.info = @ \ {w.c}, !.staged = @ \ {w.c}]
    /\ w' = [w EXCEPT !.pc = IF G(w.a) \in w.e THEN "retryPrepare"
                                               ELSE "retryReplan"]
    /\ UNCHANGED <<plans, expired, guild, job, finding, hold, budget, open>>

\* replan_coding_retry_after_cleanup: a new launch on another placement
\* takes over the failed attempt's input.
RetryReplan ==
    /\ w.pc = "retryReplan"
    /\ \E p \in Pairs \cup {NoPair}, g \in Geometries \cup {None} :
          /\ OfferPair(w.a, p)
          /\ LET usable == (w.e \cap guild.placed) \ {G(w.a)}
                 able == /\ p # NoPair /\ usable # {} /\ w.a \in db.info
                         /\ w.a \notin db.renewed /\ db.child[w.a] = None
             IN \/ /\ able /\ g \in usable /\ Sign(p, g, FALSE)
                   /\ db' = [db EXCEPT !.complete = @ \cup {w.a},
                                       !.renewed = @ \cup {w.a},
                                       !.launch = @ \cup {New},
                                       !.info = (@ \cup {New}) \ {w.a},
                                       !.staged = @ \ {w.a}]
                   /\ w' = [w EXCEPT !.pc = "retryFinish", !.ok = TRUE]
                \/ /\ ~able /\ g = None
                   /\ DeferRetry /\ UNCHANGED plans
    /\ UNCHANGED <<expired, guild, job, finding, hold, open>>

\* prepare_coding_retry: reuse the durable successor or sign one with roles
\* disjoint from the previous generation's.
RetryPairs(r) ==
    {p \in Pairs : /\ Both(p) \cap Roles(Previous(r)) = {}
                   /\ Both(p) \cap Invalid(plans[Previous(r)].epoch) = {}}

RetryPrepare ==
    /\ w.pc = "retryPrepare"
    /\ LET r == w.a
           c == db.child[r]
           refused == r \in db.complete \/ HasReplacement(r)
           Input(n) == IF r \in db.info THEN db.info \cup {n} ELSE db.info
       IN \/ /\ ~refused /\ c # None
             /\ db' = [db EXCEPT !.info = Input(c)]
             /\ w' = [w EXCEPT !.t = c, !.pc = IF Submitted(c)
                                               THEN "retryFinish"
                                               ELSE "retryUpload"]
             /\ UNCHANGED <<plans, budget>>
          \/ /\ ~refused /\ c = None
             /\ \E p \in RetryPairs(r) : Sign(p, G(r), FALSE)
             /\ db' = [db EXCEPT !.child[r] = New, !.info = Input(New)]
             /\ w' = [w EXCEPT !.t = New, !.pc = "retryUpload"]
             /\ UNCHANGED budget
          \/ /\ \/ refused /\ UNCHANGED budget
                \/ /\ c = None /\ UNCHANGED budget
                   /\ RetryPairs(r) = {} \/ G(r) \notin guild.placed
                \/ c = None /\ Fault("unreachable")
             /\ DeferRetry /\ UNCHANGED plans
    /\ UNCHANGED <<expired, guild, job, finding, hold, open>>

\* stage_locally_available_information and mark_coding_launch_staged of
\* attempt n; the holders take uploads of a valid plan only.
Upload(n, Then, Else) ==
    LET pending == n \in db.info \ db.staged
    IN \/ /\ ~pending /\ Then /\ UNCHANGED <<db, hold, budget>>
       \/ /\ pending /\ Valid(n)
          /\ hold' = [hold EXCEPT !.bytes = @ \cup {n}]
          /\ db' = [db EXCEPT !.staged = @ \cup {n}]
          /\ Then /\ UNCHANGED budget
       \/ /\ pending
          /\ \/ ~Valid(n) /\ UNCHANGED <<hold, budget>>
             \/ /\ Valid(n) /\ Fault("unreachable")
                /\ hold' \in {hold, [hold EXCEPT !.bytes = @ \cup {n}]}
          /\ Else

\* delegate_coding_attempt and enqueue_delegated_coding at the coder.
Delegate(n, Then, Else) ==
    LET taken == IF job[n] = "none" THEN [job EXCEPT ![n] = "Pending"]
                                    ELSE job
    IN \/ /\ Valid(n) /\ job' = taken /\ Then /\ UNCHANGED budget
       \/ /\ ~Valid(n) /\ UNCHANGED <<job, budget>> /\ Else
       \/ /\ Valid(n) /\ Fault("lost") /\ job' = taken /\ Else
       \/ /\ Valid(n) /\ Fault("unreachable") /\ UNCHANGED job /\ Else

RetryUpload ==
    /\ w.pc = "retryUpload"
    /\ Upload(w.t, w' = [w EXCEPT !.pc = "retryDelegate"], DeferRetry)
    /\ UNCHANGED <<plans, expired, guild, job, finding, open>>

RetryDelegate ==
    /\ w.pc = "retryDelegate"
    /\ Delegate(w.t, UNCHANGED db /\ w' = [w EXCEPT !.pc = "retryFinish"],
                DeferRetry)
    /\ UNCHANGED <<plans, expired, guild, finding, hold, open>>

\* complete_claimed_coding_retry: an acknowledged dispatch is not terminal;
\* input intent goes only with terminal cleanup or a submitted child.
RetryFinish ==
    /\ w.pc = "retryFinish"
    /\ LET r == w.a
           c == db.child[r]
           requeued == w.c # None /\ c = None
           owner == c # None /\ Submitted(c)
           terminal == \/ c = None \/ w.ok
                       \/ owner /\ (c \notin db.act \/ Covered(c))
           freed == IF ~terminal THEN {}
                    ELSE {r} \cup (IF owner THEN {} ELSE {c})
       IN \/ /\ requeued /\ UNCHANGED db /\ w' = Idle
          \/ /\ ~requeued
             /\ db' = [db EXCEPT
                         !.complete = @ \cup {r},
                         !.terminal = IF terminal /\ c # None
                                      THEN @ \cup {r} ELSE @,
                         !.info = @ \ freed, !.staged = @ \ freed]
             /\ w' = Idle
    /\ UNCHANGED <<plans, expired, guild, job, finding, hold, budget, open>>

Retry ==
    \/ RetryStart \/ RetryDrop \/ RetryPick \/ RetryRenew \/ RetryReplan
    \/ RetryPrepare \/ RetryUpload \/ RetryDelegate \/ RetryFinish

-----------------------------------------------------------------------------
(* The worker's launches: dispatch_next_coding_launch_after.               *)

\* abandon_coding_launch deletes the input unless another job of the same ID
\* needs it, then the launch; a crash can fall between the two.
AbandonInput(d, a) ==
    [d EXCEPT !.staged = @ \ {a},
              !.info = IF a \in (d.act \ d.done) \cup d.retry
                       THEN @ ELSE @ \ {a}]
DropLaunch(d, a) ==
    [d EXCEPT !.launch = @ \ {a}, !.dispatched = @ \ {a}]

Abandon(d, a) ==
    /\ \/ db' = DropLaunch(AbandonInput(d, a), a) /\ UNCHANGED budget
       \/ db' = AbandonInput(d, a) /\ Fault("crash")
    /\ w' = Idle

\* A claimed launch yields to a submitted result or failure, gives up an
\* old epoch's attempt, fences an expired one for renewal, or is dispatched.
ClaimLaunch(a) ==
    /\ w.pc = "idle"
    /\ a \in db.launch /\ ~(Valid(a) /\ a \in db.dispatched)
    /\ LET stale == plans[a].epoch # guild.epoch
           claimed == [Idle EXCEPT !.a = a]
           CleanUp(next) ==
               w' = [claimed EXCEPT !.pc = "abort", !.t = a, !.next = next]
       IN \/ /\ VerifiedResult(a) \/ (~stale /\ Submitted(a))
             /\ Abandon(db, a)
          \/ /\ ~VerifiedResult(a) /\ stale
             /\ db' = Fence(db, a) /\ CleanUp("launchAbandon")
             /\ UNCHANGED budget
          \/ /\ ~Submitted(a) /\ ~stale /\ a \in expired
             /\ db' = Fence(db, a) /\ CleanUp("launchRenew")
             /\ UNCHANGED budget
          \/ /\ ~Submitted(a) /\ Valid(a)
             /\ w' = [claimed EXCEPT !.pc = "launchUpload"]
             /\ UNCHANGED <<db, budget>>
    /\ UNCHANGED <<plans, expired, guild, job, finding, hold, open>>

LaunchAbandon ==
    /\ w.pc = "launchAbandon"
    /\ Abandon(db, w.a)
    /\ UNCHANGED <<plans, expired, guild, job, finding, hold, open>>

\* Mutant: any other result of the lane is taken for an owner.
RenewalCandidatesLoose(a) ==
    {b \in db.act \cup db.launch : b # a /\ SameLane(a, b)}

\* Owners an expired launch hands the lane to, in the order they are sought.
RenewalCandidates(a) ==
    LET results == {b \in db.act : b # a /\ SameLane(a, b) /\ Usable(b)}
        children == {c \in {db.child[r] : r \in db.retry} :
                        LiveChild(c) /\ c # a /\ SameLane(a, c)}
        launches == {b \in db.launch :
                        LiveLaunch(b) /\ b # a /\ SameLane(a, b)}
    IN CASE results # {} -> results
         [] results = {} /\ children # {} -> children
         [] OTHER -> launches

\* Mutant: the successor is named without the input.
RenewedBare(a, n) == [db EXCEPT !.renewed = @ \cup {a}]

\* renew_coding_launch_after_cleanup: one transaction names the successor
\* and gives it the input; the parent is abandoned in a later one.
Renewed(a, n) ==
    LET needed == n \notin db.done \/ ~Usable(n)
    IN [db EXCEPT !.renewed = @ \cup {a},
                  !.info = IF needed /\ a \in @ THEN @ \cup {n} ELSE @]

RenewWith(a, n) ==
    \/ Abandon(Renewed(a, n), a)
    \/ db' = Renewed(a, n) /\ Fault("crash") /\ w' = Idle

\* With no owner to hand over to, a new launch with fresh roles, on another
\* placement when a holder of this one has no capacity.
RenewAfresh(a) ==
    \E p \in Pairs \cup {NoPair}, E \in SUBSET guild.placed :
      LET places == IF G(a) \in E THEN {G(a)} ELSE E
          able == /\ p # NoPair /\ places # {}
                  /\ plans[a].epoch = guild.epoch
          d == [Renewed(a, New) EXCEPT !.launch = @ \cup {New}]
      IN \/ /\ able /\ \E g \in places : Sign(p, g, FALSE)
            /\ \/ /\ Offer(a, p, E)
                  /\ db' = DropLaunch(AbandonInput(d, a), a)
               \/ /\ p \in FreshPairs(a) /\ E = guild.placed
                  /\ Fault("crash") /\ db' \in {d, AbandonInput(d, a)}
         \/ /\ ~able /\ Offer(a, p, E)
            /\ UNCHANGED <<db, plans>>

LaunchRenew ==
    /\ w.pc = "launchRenew"
    /\ LET a == w.a
           negative == \E b \in db.act \ db.done :
                          SameLane(a, b) /\ finding[b] = "invalid"
       IN \/ a \in db.renewed /\ Abandon(db, a) /\ UNCHANGED plans
          \/ /\ a \notin db.renewed /\ negative
             /\ w' = Idle /\ UNCHANGED <<db, plans, budget>>
          \/ /\ a \notin db.renewed /\ ~negative
             /\ \E n \in RenewalCandidates(a) : RenewWith(a, n)
             /\ UNCHANGED plans
          \/ /\ a \notin db.renewed /\ ~negative
             /\ RenewalCandidates(a) = {}
             /\ RenewAfresh(a) /\ w' = Idle
    /\ UNCHANGED <<expired, guild, job, finding, hold, open>>

\* Mutant: a failed dispatch counts as dispatched.
DeferLaunchDispatched ==
    /\ db' = [db EXCEPT !.dispatched = @ \cup ({w.a} \cap db.launch)]
    /\ w' = Idle

\* defer_coding_launch only notes the error.
DeferLaunch == UNCHANGED db /\ w' = Idle

LaunchUpload ==
    /\ w.pc = "launchUpload"
    /\ Upload(w.a, w' = [w EXCEPT !.pc = "launchDelegate"], DeferLaunch)
    /\ UNCHANGED <<plans, expired, guild, job, finding, open>>

\* A failure that arrived during the upload leaves late bytes to clean up.
LaunchDelegate ==
    /\ w.pc = "launchDelegate"
    /\ \/ /\ w.a \in db.retry
          /\ db' = Fence(db, w.a)
          /\ w' = Aborting(w.a, "fenced", "launchAbandon")
          /\ UNCHANGED <<job, budget>>
       \/ w.a \in db.act \ db.retry /\ Abandon(db, w.a) /\ UNCHANGED job
       \/ /\ ~Submitted(w.a)
          /\ Delegate(w.a, UNCHANGED db /\ w' = [w EXCEPT !.pc = "launchFinish"],
                      DeferLaunch)
    /\ UNCHANGED <<plans, expired, guild, finding, hold, open>>

\* complete_coding_launch; a submission may have removed the launch already.
LaunchFinish ==
    /\ w.pc = "launchFinish"
    /\ db' = IF w.a \in db.launch
             THEN [db EXCEPT !.dispatched = @ \cup {w.a}] ELSE db
    /\ w' = Idle
    /\ UNCHANGED <<plans, expired, guild, job, finding, hold, budget, open>>

Launch ==
    LaunchAbandon \/ LaunchRenew \/ LaunchUpload \/ LaunchDelegate
    \/ LaunchFinish

-----------------------------------------------------------------------------
(* The worker's activations: process_coding_activation_job.                *)

\* claim_coding_activation: the first in key order, an attempt of an old
\* epoch whose placement is no longer valid last; the delegator's own locked
\* Add reserves the queue for its attempt, even one completed before.
Current(a) == plans[a].epoch = guild.epoch \/ G(a) \in guild.placed
First(S) == {a \in S : \A b \in S : Rank[a] <= Rank[b]}
Claimable ==
    LET jobs == db.act \ db.done
        locked == {a \in db.act : a = guild.locked /\ Current(a)}
        current == {a \in jobs : Current(a)}
    IN IF guild.locked # None THEN locked
       ELSE IF current # {} THEN First(current) ELSE First(jobs)

\* The worker reads the group's retirement here and acts on it later.
ClaimActivation ==
    /\ w.pc = "idle"
    /\ \E a \in Claimable :
          /\ db' = [db EXCEPT !.done = @ \ {a}]
          /\ w' = [Idle EXCEPT !.pc = "actMark", !.a = a,
                      !.ok = /\ finding[a] = "verified"
                             /\ guild.group[G(a)] = "retired"]
    /\ UNCHANGED <<plans, expired, guild, job, finding, hold, budget, open>>

\* mark_retired_coding_activation_for_replan fails, and with it the worker,
\* if the group is no longer retired; then the job's route is chosen.
ActMark ==
    /\ w.pc = "actMark"
    /\ LET a == w.a
           retained == guild.group[G(a)] # "absent"
           replan == finding[a] = "verified" /\ (w.ok \/ NeedsReplan(a))
           stale == ~Current(a) /\ ~retained
           To(policy) == [Aborting(a, policy, "actComplete")
                             EXCEPT !.ok = FALSE]
       IN \/ /\ w.ok /\ guild.group[G(a)] # "retired"
             /\ w' = [Idle EXCEPT !.pc = "dead"] /\ UNCHANGED db
          \/ /\ w.ok => guild.group[G(a)] = "retired"
             /\ db' = IF w.ok THEN [db EXCEPT !.replan = @ \cup {a}] ELSE db
             /\ w' = CASE replan \/ stale -> To("stale")
                       [] ~replan /\ ~stale /\ finding[a] = "invalid"
                          -> To("strict")
                       [] OTHER -> [w EXCEPT !.pc = "actActivate"]
    /\ UNCHANGED <<plans, expired, guild, job, finding, hold, budget, open>>

\* complete_coding_activation_with_coordinators(covered = false), once the
\* bytes are cleaned up: a retry that prepared this attempt is requeued;
\* otherwise a new launch takes the input over, on a placement whose group is
\* not retained, or the job stays.
Requeue(a) ==
    LET parents == {r \in db.retry : db.child[r] = a}
    IN [db EXCEPT
          !.child = [r \in Ids |-> IF r \in parents THEN None ELSE @[r]],
          !.parent = [r \in Ids |-> IF r \in parents THEN a ELSE @[r]],
          !.complete = @ \ parents, !.terminal = @ \ parents,
          !.info = IF a \in @ THEN @ \cup parents ELSE @]

\* Mutant: the staging marker outlives the input it is about.
CloseActivationMarker(d, a) ==
    [d EXCEPT !.done = @ \cup {a}, !.replan = @ \ {a}, !.launch = @ \ {a},
              !.dispatched = @ \ {a}, !.info = @ \ {a}]

CloseActivation(d, a) ==
    [d EXCEPT !.done = @ \cup {a}, !.replan = @ \ {a}, !.launch = @ \ {a},
              !.dispatched = @ \ {a}, !.info = @ \ {a}, !.staged = @ \ {a}]

ActComplete ==
    /\ w.pc = "actComplete"
    /\ LET a == w.a
           handsOver == \/ \E r \in db.retry : db.child[r] = a
                        \/ plans[a].epoch # guild.epoch
       IN \/ /\ handsOver
             /\ db' = CloseActivation(Requeue(a), a)
             /\ UNCHANGED <<plans, budget>>
          \/ /\ ~handsOver
             /\ \E p \in Pairs \cup {NoPair}, E \in SUBSET guild.placed :
                  /\ Offer(a, p, E)
                  /\ LET free == {g \in E : guild.group[g] = "absent"}
                         places == IF G(a) \in free THEN {G(a)} ELSE free
                         able == p # NoPair /\ places # {}
                         input == IF a \in db.info THEN {New} ELSE {}
                     IN \/ /\ able /\ \E g \in places : Sign(p, g, FALSE)
                           /\ db' = CloseActivation(
                                       [db EXCEPT !.renewed = @ \cup {a},
                                                  !.launch = @ \cup {New},
                                                  !.info = @ \cup input], a)
                        \/ ~able /\ UNCHANGED <<db, plans>>
    /\ w' = Idle
    /\ UNCHANGED <<expired, guild, job, finding, hold, open>>

\* finish_coding_activation: every holder activates the shard, the delegator
\* binding its own copy of the transcript; the order of the two is the
\* holders' key order.
ActActivate ==
    /\ w.pc = "actActivate"
    /\ LET a == w.a
           conflict == /\ guild.group[G(a)] # "absent" /\ db.bound[G(a)] # a
           bind == [db EXCEPT !.bound[G(a)] = a]
       IN \/ /\ ~conflict /\ a \in hold.bytes
             /\ db' = bind /\ hold' = [hold EXCEPT !.ready = @ \cup {a}]
             /\ w' = [w EXCEPT !.pc = "actSign"]
             /\ UNCHANGED budget
          \/ /\ ~conflict
             /\ IF a \in hold.bytes THEN Fault("unreachable")
                                    ELSE UNCHANGED budget
             /\ db' \in {db, bind} /\ w' = Idle /\ UNCHANGED hold
          \/ /\ conflict
             /\ w' = Idle /\ UNCHANGED <<db, hold, budget>>
    /\ UNCHANGED <<plans, expired, guild, job, finding, open>>

\* commit_verified_coding_group: nothing to do for a retained group; else the
\* delegator locks its signature on the Add, unless another event has it.
ActSign ==
    /\ w.pc = "actSign"
    /\ LET g == G(w.a)
       IN \/ /\ guild.group[g] # "absent"
             /\ w' = [w EXCEPT !.pc = "actFinish"]
             /\ UNCHANGED <<guild, budget>>
          \/ /\ guild.group[g] = "absent" /\ g \in guild.placed
             /\ guild' = [guild EXCEPT !.locked = w.a]
             /\ w' = [w EXCEPT !.pc = "actCommit"]
             /\ UNCHANGED budget
          \/ /\ guild.group[g] = "absent"
             /\ \/ g \notin guild.placed /\ UNCHANGED budget
                \/ g \in guild.placed /\ Fault("conflict")
             /\ w' = Idle /\ UNCHANGED guild
    /\ UNCHANGED <<plans, expired, db, job, finding, hold, open>>

\* A quorum signs and the Add is installed, unless the guild moved on.
ActCommit ==
    /\ w.pc = "actCommit"
    /\ \/ /\ guild.locked = w.a
          /\ guild' = [guild EXCEPT !.group[G(w.a)] = "active",
                                    !.locked = None]
          /\ w' = [w EXCEPT !.pc = "actFinish"]
          /\ UNCHANGED budget
       \/ /\ \/ guild.locked # w.a /\ UNCHANGED budget
             \/ guild.locked = w.a /\ Fault("unreachable")
          /\ w' = Idle /\ UNCHANGED guild
    /\ UNCHANGED <<plans, expired, db, job, finding, hold, open>>

\* complete_coding_activation_with_coordinators(covered = true); the group
\* may have been retired since it was installed.
ActFinish ==
    /\ w.pc = "actFinish"
    /\ LET a == w.a
           parents == {r \in db.retry : db.child[r] = a}
       IN \/ /\ Covered(a)
             /\ db' = CloseActivation(
                         [db EXCEPT !.terminal = @ \cup parents,
                                    !.info = @ \ parents,
                                    !.staged = @ \ parents], a)
             /\ w' = Idle /\ open' = FALSE
          \/ /\ ~Covered(a)
             /\ w' = Aborting(a, "stale", "actComplete")
             /\ UNCHANGED <<db, open>>
    /\ UNCHANGED <<plans, expired, guild, job, finding, hold, budget>>

Activation ==
    ActMark \/ ActComplete \/ ActActivate \/ ActSign \/ ActCommit \/ ActFinish

-----------------------------------------------------------------------------
(* The coder: process_delegated_coding_job, one job per attempt.           *)

Become(a, state) == job' = [job EXCEPT ![a] = state]

\* claim_delegated_coding of a pending job.
CoderStart(a) ==
    /\ job[a] = "Pending" /\ plans[a].epoch = guild.epoch
    /\ Become(a, IF Valid(a) THEN "Running" ELSE "Cleanup")
    /\ UNCHANGED <<plans, expired, guild, db, finding, hold, w, budget, open>>

\* execute_delegated_coding stages the parity at its holders, ...
CoderUpload(a) ==
    /\ job[a] = "Running" /\ Valid(a)
    /\ hold' = [hold EXCEPT !.bytes = @ \cup {a}]
    /\ Become(a, "Staged")
    /\ UNCHANGED <<plans, expired, guild, db, finding, w, budget, open>>

\* ... has the verifier challenge them and keeps the signed transcript, which
\* may blame the coder, ...
CoderVerdict(a) ==
    /\ job[a] = "Staged" /\ Valid(a) /\ a \in hold.bytes
    /\ \/ finding' = [finding EXCEPT ![a] = "verified"] /\ UNCHANGED budget
       \/ finding' = [finding EXCEPT ![a] = "invalid"] /\ Fault("invalid")
    /\ Become(a, "Submitting")
    /\ UNCHANGED <<plans, expired, guild, db, hold, w, open>>

\* ... or fails, by itself or because the plan lost its validity or the bytes
\* were discarded under it.  Then every holder must confirm the abort.
CoderFail(a) ==
    /\ job[a] \in {"Running", "Staged"}
    /\ \/ /\ ~Valid(a) \/ (job[a] = "Staged" /\ a \notin hold.bytes)
          /\ UNCHANGED budget
          /\ hold' = Discard(hold, a) /\ Become(a, "ReportingFailure")
       \/ /\ Fault("fail")
          /\ hold' = Discard(hold, a) /\ Become(a, "ReportingFailure")
       \/ /\ Fault("unreachable")
          /\ Become(a, "Cleanup") /\ UNCHANGED hold
    /\ UNCHANGED <<plans, expired, guild, db, finding, w, open>>

\* Mutant: an interrupted job is dropped without a report.
CoderInterruptDrops(a) ==
    /\ job[a] \in {"Running", "Staged"} /\ Fault("crash")
    /\ Become(a, "Complete")
    /\ UNCHANGED <<plans, expired, guild, db, finding, hold, w, open>>

\* claim_delegated_coding after a restart of the coder.
CoderInterrupt(a) ==
    /\ job[a] \in {"Running", "Staged"} /\ Fault("crash")
    /\ Become(a, "Cleanup")
    /\ UNCHANGED <<plans, expired, guild, db, finding, hold, w, open>>

CoderCleanup(a) ==
    /\ job[a] = "Cleanup" /\ plans[a].epoch = guild.epoch
    /\ hold' = Discard(hold, a)
    /\ Become(a, "ReportingFailure")
    /\ UNCHANGED <<plans, expired, guild, db, finding, w, budget, open>>

\* Mutant: the failure of a retry's child is taken to be the retry's.
AcceptFailureOfChild(a) ==
    LET parents == {r \in db.retry : db.child[r] = a}
    IN IF a \in db.retired \cup db.retry THEN db
       ELSE [db EXCEPT !.retry = IF parents = {} THEN @ \cup {a} ELSE @,
                       !.launch = @ \ {a}, !.dispatched = @ \ {a},
                       !.terminal = @ \cup parents, !.staged = @ \ {a}]

\* Mutant: the failed attempt gives its input up with the launch.
AcceptFailureInputless(a) ==
    LET parents == {r \in db.retry : db.child[r] = a}
    IN IF a \in db.retired \cup db.retry THEN db
       ELSE [db EXCEPT !.retry = @ \cup {a}, !.launch = @ \ {a},
                       !.dispatched = @ \ {a},
                       !.terminal = @ \cup parents,
                       !.info = @ \ (parents \cup {a}),
                       !.staged = @ \ (parents \cup {a})]

\* accept_coding_failure at the delegator: archived for a retired attempt,
\* otherwise a retry job that keeps the input while the retries that prepared
\* this attempt give theirs up.
AcceptFailure(a) ==
    LET parents == {r \in db.retry : db.child[r] = a}
    IN IF a \in db.retired \cup db.retry THEN db
       ELSE [db EXCEPT !.retry = @ \cup {a}, !.launch = @ \ {a},
                       !.dispatched = @ \ {a},
                       !.terminal = @ \cup parents,
                       !.info = @ \ parents,
                       !.staged = @ \ (parents \cup {a})]

CoderReport(a) ==
    /\ job[a] = "ReportingFailure"
    /\ db' = AcceptFailure(a)
    /\ \/ Become(a, "Complete") /\ UNCHANGED budget
       \/ Fault("lost") /\ UNCHANGED job
    /\ UNCHANGED <<plans, expired, guild, finding, hold, w, open>>

\* abort_stale_delegated_coding records what an inactive holder is owed.
DiscardStale(a) ==
    \/ hold' = Discard(hold, a) /\ UNCHANGED budget
    \/ /\ G(a) \notin guild.placed /\ Fault("unreachable")
       /\ hold' = [hold EXCEPT !.owed = @ \cup {a}]

\* accept_coding_transcript; a refused result is discarded once the delegator
\* confirms that it retired the attempt.
CoderSubmit(a) ==
    /\ job[a] = "Submitting"
    /\ \/ /\ a \notin db.retired
          /\ db' = [db EXCEPT !.act = @ \cup {a}]
          /\ \/ Become(a, "Complete") /\ UNCHANGED budget
             \/ Fault("lost") /\ UNCHANGED job
          /\ UNCHANGED hold
       \/ /\ a \in db.retired
          /\ DiscardStale(a) /\ Become(a, "Complete")
          /\ UNCHANGED db
    /\ UNCHANGED <<plans, expired, guild, finding, w, open>>

\* A job of an old epoch that produced no result: the delegator fences the
\* attempt before the bytes are discarded.
CoderStale(a) ==
    /\ plans[a].epoch # guild.epoch
    /\ job[a] \in {"Pending", "Running", "Cleanup"}
    /\ db' = Fence(db, a)
    /\ DiscardStale(a) /\ Become(a, "Complete")
    /\ UNCHANGED <<plans, expired, guild, finding, w, open>>

Coder(a) ==
    \/ CoderStart(a) \/ CoderUpload(a) \/ CoderVerdict(a) \/ CoderFail(a)
    \/ CoderInterrupt(a) \/ CoderCleanup(a) \/ CoderReport(a)
    \/ CoderSubmit(a) \/ CoderStale(a)

-----------------------------------------------------------------------------
(* The guild, the clock and crashes.                                       *)

\* An installed event moves the log past the sequence the delegator locked.
RetireGroup(g) ==
    /\ guild.group[g] = "active" /\ Fault("retire")
    /\ guild' = [guild EXCEPT !.group[g] = "retired", !.locked = None]
    /\ UNCHANGED <<plans, expired, db, job, finding, hold, w, open>>

ForgetGroup(g) ==
    /\ guild.group[g] = "retired"
    /\ guild' = [guild EXCEPT !.group[g] = "absent", !.locked = None]
    /\ UNCHANGED <<plans, expired, db, job, finding, hold, w, budget, open>>

\* A new membership epoch changes which placements are valid; the lane has to
\* be queued again under it.
ChangeMembership ==
    /\ guild.epoch < budget.epochs /\ Fault("membership")
    /\ \E P \in SUBSET Geometries :
          guild' = [guild EXCEPT !.epoch = @ + 1, !.placed = P,
                                 !.locked = None]
    /\ open' = FALSE
    /\ UNCHANGED <<plans, expired, db, job, finding, hold, w>>

Expire(a) ==
    /\ a \in Signed \ expired /\ Fault("expire")
    /\ expired' = expired \cup {a}
    /\ UNCHANGED <<plans, guild, db, job, finding, hold, w, open>>

Crash ==
    /\ w.pc \notin {"idle", "dead"} /\ Fault("crash")
    /\ w' = Idle
    /\ UNCHANGED <<plans, expired, guild, db, job, finding, hold, open>>

Guild == \E g \in Geometries : RetireGroup(g) \/ ForgetGroup(g)

Worker ==
    \/ Abort \/ Retry \/ Launch \/ Activation \/ ClaimActivation
    \/ \E a \in Signed : ClaimRetry(a) \/ ClaimLaunch(a)

Next ==
    \/ Enqueue \/ Worker \/ Guild \/ ChangeMembership \/ Crash
    \/ \E a \in Signed : Coder(a) \/ HolderCleanup(a) \/ Expire(a)

Spec == Init /\ [][Next]_vars

\* run_delegated_coding_jobs gives every queue a turn in every round, and the
\* cursors of retries and launches every job of the queue; a step that waits
\* for the network ends by its request's timeout.
FairSpec ==
    /\ Spec
    /\ WF_vars(Abort \/ Retry \/ Launch \/ Activation)
    /\ SF_vars(ClaimActivation)
    /\ \A a \in Ids :
          /\ SF_vars(a \in Signed /\ ClaimRetry(a))
          /\ SF_vars(a \in Signed /\ ClaimLaunch(a))
          /\ WF_vars(a \in Signed /\ Coder(a))
          /\ WF_vars(a \in Signed /\ HolderCleanup(a))
    /\ \A g \in Geometries : WF_vars(ForgetGroup(g))

-----------------------------------------------------------------------------
(* Properties.                                                             *)

\* Every variable has its type, and no attempt both failed and has a result.
TypeOK ==
    /\ Signed \subseteq Ids /\ expired \subseteq Signed
    /\ guild.placed \subseteq Geometries /\ guild.locked \in Signed \cup {None}
    /\ \A g \in Geometries : guild.group[g] \in {"absent", "active", "retired"}
    /\ \A f \in {"launch", "info", "retry", "act", "retired", "renewed"} :
          db[f] \subseteq Signed
    /\ db.dispatched \subseteq db.launch /\ db.staged \subseteq db.info
    /\ db.terminal \cup db.complete \subseteq db.retry
    /\ db.replan \subseteq db.act \ db.done /\ db.done \subseteq db.act
    /\ db.act \cap db.retry = {}
    /\ \A a \in Ids : job[a] \in JobStates
    /\ hold.ready \subseteq hold.bytes
    /\ w.a \in Signed \cup {None}
    /\ \E b \in Budgets : budget.faults \in 0 .. b.faults /\ budget.kinds = b.kinds

\* A durable job that still works on the lane through attempt a: a launch, an
\* incomplete activation or retry, or the child a retry has named.
Own(a) ==
    \/ a \in db.launch \cup (db.act \ db.done) \cup (db.retry \ db.complete)
    \/ \E r \in db.retry \ db.terminal : db.child[r] = a /\ ~Submitted(a)

\* The behaviours in which the lane is never left to the next planner run: the
\* guild neither retires a group nor changes its membership, and expiry and a
\* crash of the delegator do not meet.
Undisturbed ==
    /\ budget.kinds \cap {"retire", "membership"} = {}
    /\ ~({"expire", "crash"} \subseteq budget.kinds)

\* From the enqueueing of a lane to its coverage some durable record owns it:
\* no hand-over between launch, retry, renewal, activation and replacement,
\* and no crash, lost answer or late submission between two of them, leaves
\* the lane to nobody (node.rs, the coding job transactions).
LaneOwned ==
    Undisturbed /\ open =>
       \E a \in Signed : plans[a].epoch = guild.epoch /\ Own(a)

\* As long as the lane is not covered an attempt that owns it keeps the record
\* of the input to upload: a job that gives its coding-launch-information up
\* has passed it on, so a later successor can always be staged.
InputKept ==
    Undisturbed /\ open =>
       \E a \in db.info : plans[a].epoch = guild.epoch /\ Own(a)

\* A verified result that waits to be activated has its bytes at the holders:
\* nothing that aborts an attempt (retry, renewal, the coder, an owed cleanup)
\* discards them once accept_coding_transcript took the result, unless the
\* activation is the one to be replaced. Of two results for one placement this
\* holds until one is bound: the bindings of the other hide that the first was
\* already given up (coding_activation_needs_replan looks at the last one).
EvidenceHasData ==
    \A a \in db.act \ db.done :
       (/\ finding[a] = "verified" /\ plans[a].epoch = guild.epoch
        /\ ~NeedsReplan(a) /\ guild.group[G(a)] # "retired"
        /\ \/ db.bound[G(a)] = None
           \/ \A b \in db.act \ {a} : G(b) = G(a) => finding[b] # "verified"
        /\ ~(w.a = a /\ w.pc \in {"abort", "actComplete"}))
       => a \in hold.bytes

\* No staged byte is orphaned: whatever a holder stores for an attempt, some
\* durable record will release or activate it, be it a job of the delegator,
\* the coder's job or a recorded holder cleanup; shards of a completed
\* activation are the group's (abort_delegated_coding_with_policy,
\* record_coding_holder_cleanup).
BytesOwned ==
    \A a \in hold.bytes :
       \/ Own(a) \/ a \in hold.owed \/ w.t = a
       \/ \E r \in db.retry \ db.complete : db.child[r] = a
       \/ job[a] \notin {"none", "Complete"}
       \/ a \in hold.ready \cap db.done

\* A queued lane is eventually covered once faults stop: every failed, fenced,
\* expired or stale attempt gets a successor from run_delegated_coding_jobs.
LaneCovered == open ~> ~open

\* The bytes of a fenced attempt are eventually released at its holders, by the
\* abort itself or by the holder cleanup it recorded.
BytesReleased == \A a \in Ids : (a \in db.retired) ~> (a \notin hold.bytes)

=============================================================================
